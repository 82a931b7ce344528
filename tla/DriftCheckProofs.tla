-------------------------- MODULE DriftCheckProofs --------------------------
(***************************************************************************)
(* The safety properties of DriftCheck, for every number of fingerprints,  *)
(* edits, failures and crashes.                                            *)
(***************************************************************************)
EXTENDS DriftCheck, TLAPS

InRun == pc \in {"load", "check", "write"}

\* What a check may write: the statuses that LoadTarget and Check end with.
Outcomes(r, d) ==
  {SetTargetNotReady(r.status, r.spec.gen),
   SetCheckFailed(r.status, r.spec.gen, TRUE), SetCheckFailed(r.status, r.spec.gen, FALSE),
   SetChecked(r.status, r.spec.gen), r.status}
  \cup {SetDrifted(r.status, r.spec.gen, d, r.spec.onDrift)}

\* Suspending keeps a status well typed.
LEMMA SuspendedType ==
  ASSUME NEW st \in Statuses, NEW g \in Int
  PROVE  SetSuspended(st, g) \in Statuses
  BY DEF SetSuspended, Statuses

\* Every outcome of a well-typed check is a well-typed status.
LEMMA OutcomeType ==
  ASSUME NEW r \in [spec : Specs, status : Statuses], NEW d \in AnyDrift,
         NEW new \in Outcomes(r, d)
  PROVE  new \in Statuses
  <1> DEFINE st == r.status  g == r.spec.gen
  <1>1. st \in Statuses /\ g \in Int /\ r.spec.onDrift \in Actions
    BY DEF Specs
  <1> HIDE DEF st, g
  <1>2. SetTargetNotReady(st, g) \in Statuses
    BY <1>1 DEF SetTargetNotReady, Statuses
  <1>3. SetCheckFailed(st, g, TRUE) \in Statuses /\ SetCheckFailed(st, g, FALSE) \in Statuses
    BY <1>1 DEF SetCheckFailed, Statuses
  <1>4. NoDrift \in AnyDrift
    BY DEF AnyDrift
  <1>5. \A x \in AnyDrift : applyReport(st, g, x) \in Statuses
    BY <1>1 DEF applyReport, Statuses
  <1>6. \A x \in Statuses, b \in BOOLEAN : setOutcome(x, b) \in Statuses
    BY DEF setOutcome, Statuses
  <1>7. \A x \in Statuses, v \in {"True", "False"} : [x EXCEPT !.drifted = v] \in Statuses
    BY DEF Statuses
  <1>8. SetChecked(st, g) \in Statuses
    BY <1>4, <1>5, <1>6, <1>7 DEF SetChecked
  <1>9. SetDrifted(st, g, d, r.spec.onDrift) \in Statuses
    BY <1>5, <1>6, <1>7 DEF SetDrifted
  <1> QED BY <1>1, <1>2, <1>3, <1>8, <1>9 DEF Outcomes, st, g

\* What a step of the worker does to the run: it begins, goes on, ends with
\* one of the outcomes, or is written.
StartEffect ==
  LET r == [spec |-> spec, status |-> status]
  IN  \/ /\ pc' = "load" /\ res' = r /\ UNCHANGED <<again, history>>
      \/ /\ spec.suspend /\ finish(r, SetSuspended(status, spec.gen), FALSE)

\* A step inside the run.
RunEffect ==
  \/ pc' = "check" /\ UNCHANGED <<res, again, history>>
  \/ \E new \in Outcomes(res, drift) : finish(res, new, TRUE)

\* LoadTarget and Check end a run with one of the outcomes of a check.
LEMMA RunSteps ==
  ASSUME LoadTarget \/ Check
  PROVE  /\ RunEffect /\ pc \in {"load", "check"}
         /\ UNCHANGED <<spec, status, world, queued, timer>>
  <1>1. CASE LoadTarget
    <2>1. pc = "load" /\ UNCHANGED <<spec, status, world, queued, timer>>
      BY <1>1 DEF LoadTarget
    <2>2. CASE failedCheck(TRUE) \/ failedCheck(FALSE)
      BY <2>1, <2>2 DEF failedCheck, RunEffect, Outcomes
    <2>3. CASE finish(res, SetTargetNotReady(res.status, res.spec.gen), TRUE)
      BY <2>1, <2>3 DEF RunEffect, Outcomes
    <2>4. CASE pc' = "check" /\ UNCHANGED <<res, again, history>>
      BY <2>1, <2>4 DEF RunEffect
    <2> QED BY <1>1, <2>1, <2>2, <2>3, <2>4 DEF LoadTarget
  <1>2. CASE Check
    <2>1. pc = "check" /\ UNCHANGED <<spec, status, world, queued, timer>>
      BY <1>2 DEF Check
    <2>2. CASE failedCheck(TRUE) \/ failedCheck(FALSE)
      BY <2>1, <2>2 DEF failedCheck, RunEffect, Outcomes
    <2>3. CASE \/ finish(res, res.status, TRUE)
               \/ finish(res, SetChecked(res.status, res.spec.gen), TRUE)
               \/ finish(res, SetDrifted(res.status, res.spec.gen, drift, res.spec.onDrift), TRUE)
      BY <2>1, <2>3 DEF RunEffect, Outcomes
    <2> QED BY <1>2, <2>1, <2>2, <2>3 DEF Check
  <1> QED BY <1>1, <1>2

-----------------------------------------------------------------------------
(* Type correctness.                                                       *)

\* The worker's copy between two runs is well typed.
LEMMA NoResType == NoRes \in [spec : Specs, status : Statuses]
  <1>1. SpecsOf({1}) # {}
    <2>1. PICK o \in Actions : TRUE
      BY ConstantsAssumption
    <2>2. [gen |-> 1, suspend |-> FALSE, onDrift |-> o] \in SpecsOf({1})
      BY <2>1 DEF SpecsOf
    <2> QED BY <2>2
  <1>2. (CHOOSE s \in SpecsOf({1}) : TRUE) \in SpecsOf({1})
    BY <1>1
  <1>3. NewStatus \in Statuses
    BY DEF NewStatus, Statuses, AnyDrift
  <1> QED BY <1>2, <1>3 DEF NoRes, SpecsOf, Specs

\* Ending a run with a well-typed status keeps the worker's state well typed.
LEMMA FinishType ==
  ASSUME NEW r \in [spec : Specs, status : Statuses], NEW new \in Statuses,
         NEW b \in BOOLEAN, announced \in AnyDrift, finish(r, new, b)
  PROVE  /\ res' \in [spec : Specs, status : Statuses] /\ again' \in BOOLEAN
         /\ pc' = "write" /\ announced' \in AnyDrift /\ lost' = lost
         /\ res'.spec = r.spec /\ res'.status = new
  BY DEF finish, recordTransitions, Statuses, AnyDrift

\* A failed call is counted.
LEMMA FaultType ==
  ASSUME TypeOK, NEW k, Fault(k)
  PROVE  used' \in [edits : Nat, faults : Nat, crashes : Nat, changes : Nat]
  BY DEF TypeOK, Fault

\* The type invariant is inductive: every call and every event keeps the state
\* of the drift check well typed.
THEOREM TypeCorrect == Spec => []TypeOK
  <1>1. Init => TypeOK
    <2> SUFFICES ASSUME Init PROVE TypeOK
      OBVIOUS
    <2>1. spec \in Specs
      BY DEF Init, SpecsOf, Specs
    <2>2. status \in Statuses
      BY NoResType DEF Init, NoRes
    <2>3. used \in [edits : Nat, faults : Nat, crashes : Nat, changes : Nat]
      BY DEF Init
    <2> QED BY <2>1, <2>2, <2>3, NoResType DEF Init, TypeOK, AnyDrift
  <1>2. TypeOK /\ [Next]_vars => TypeOK'
    <2> SUFFICES ASSUME TypeOK, [Next]_vars PROVE TypeOK'
      OBVIOUS
    <2>1. CASE Start
      <3> DEFINE r == [spec |-> spec, status |-> status]
      <3>1. /\ r \in [spec : Specs, status : Statuses] /\ announced \in AnyDrift
            /\ r.spec = spec /\ r.status = status
        BY DEF TypeOK
      <3>2. SetSuspended(status, spec.gen) \in Statuses
        BY SuspendedType DEF TypeOK, Specs
      <3>3. /\ res' \in [spec : Specs, status : Statuses] /\ again' \in BOOLEAN
            /\ pc' \in {"load", "write"} /\ announced' \in AnyDrift /\ lost' = lost
        <4>1. CASE finish(r, SetSuspended(status, spec.gen), FALSE)
          <5> HIDE DEF r
          <5> QED BY <3>1, <3>2, <4>1, FinishType
        <4>2. CASE res' = r /\ pc' = "load" /\ UNCHANGED <<again, history>>
          BY <3>1, <4>2 DEF TypeOK, history
        <4> QED BY <2>1, <4>1, <4>2 DEF Start
      <3> QED BY <2>1, <3>3 DEF Start, TypeOK, world
    <2>2. CASE LoadTarget \/ Check
      <3>1. RunEffect /\ UNCHANGED <<spec, status, world, queued, timer>>
        BY <2>2, RunSteps
      <3>2. /\ res' \in [spec : Specs, status : Statuses] /\ again' \in BOOLEAN
            /\ pc' \in {"check", "write"} /\ announced' \in AnyDrift /\ lost' = lost
        <4>1. CASE \E new \in Outcomes(res, drift) : finish(res, new, TRUE)
          BY <4>1, OutcomeType, FinishType DEF TypeOK
        <4> QED BY <3>1, <4>1 DEF RunEffect, TypeOK, history
      <3>3. used' \in [edits : Nat, faults : Nat, crashes : Nat, changes : Nat]
        BY <2>2, FaultType DEF LoadTarget, Check, TypeOK
      <3> QED BY <3>1, <3>2, <3>3 DEF TypeOK, world
    <2>3. CASE WriteStatus
      <3>1. used' \in [edits : Nat, faults : Nat, crashes : Nat, changes : Nat]
        BY <2>3, FaultType DEF WriteStatus, TypeOK
      <3>2. status' \in Statuses /\ timer' \in BOOLEAN
        BY <2>3 DEF WriteStatus, TypeOK
      <3> QED BY <2>3, <3>1, <3>2, NoResType DEF WriteStatus, endRun, TypeOK, world, history
    <2>4. CASE TimerFires
      BY <2>4 DEF TimerFires, TypeOK, world, history
    <2>5. CASE Crash
      <3>1. used' \in [edits : Nat, faults : Nat, crashes : Nat, changes : Nat]
        BY <2>5 DEF Crash, TypeOK
      <3> QED BY <2>5, <3>1, NoResType DEF Crash, endRun, TypeOK, world, history
    <2>6. CASE Restart
      BY <2>6 DEF Restart, TypeOK, world, history
    <2>7. CASE EditSpec
      <3>1. used' \in [edits : Nat, faults : Nat, crashes : Nat, changes : Nat]
        BY <2>7 DEF EditSpec, TypeOK
      <3>2. spec' \in Specs /\ queued' \in BOOLEAN
        BY <2>7 DEF EditSpec, TypeOK, Specs
      <3> QED BY <2>7, <3>1, <3>2 DEF EditSpec, TypeOK, world, history
    <2>8. CASE TargetMoves
      BY <2>8 DEF TargetMoves, TypeOK, AnyDrift, history
    <2>9. CASE Alter
      BY <2>9 DEF Alter, TypeOK, history
    <2>10. CASE UNCHANGED vars
      BY <2>10 DEF vars, TypeOK
    <2> QED BY <2>1, <2>2, <2>3, <2>4, <2>5, <2>6, <2>7, <2>8, <2>9, <2>10 DEF Next, Worker
  <1> QED BY <1>1, <1>2, PTL DEF Spec
-----------------------------------------------------------------------------
(* DriftDegradesTheCheck.                                                  *)

\* A status that shows a drift to a tool that waits for its spec is degraded.
Degrades(st, sp) ==
  /\ sp.onDrift = "Fail" /\ ~sp.suspend
  /\ st.obsGen = sp.gen /\ ~st.reconciling
  /\ st.drifted = "True"
  => st.ready = "False" /\ st.stalled

\* The generation identifies the spec, and nothing is observed ahead of it: a
\* status written for an older spec shows nothing to such a tool.
DegradeInv ==
  /\ TypeOK
  /\ status.obsGen <= spec.gen /\ Degrades(status, spec)
  /\ InRun => /\ res.spec.gen <= spec.gen
              /\ res.spec.gen = spec.gen => res.spec = spec
              /\ res.status.obsGen <= res.spec.gen
              /\ Degrades(res.status, res.spec)

\* A run for a spec ends with a status that degrades with the drift.
LEMMA OutcomeDegrades ==
  ASSUME NEW r \in [spec : Specs, status : Statuses], NEW d \in AnyDrift,
         NEW new \in Outcomes(r, d),
         r.status.obsGen <= r.spec.gen, Degrades(r.status, r.spec)
  PROVE  new.obsGen <= r.spec.gen /\ Degrades(new, r.spec)
  <1> DEFINE st == r.status  g == r.spec.gen  o == r.spec.onDrift
  <1>1. /\ st \in Statuses /\ g \in Int /\ st.obsGen <= g
        /\ Degrades(st, r.spec) /\ g = r.spec.gen /\ o = r.spec.onDrift
    BY DEF Specs
  <1>2. new \in {SetTargetNotReady(st, g), SetCheckFailed(st, g, TRUE),
                 SetCheckFailed(st, g, FALSE), SetChecked(st, g), st,
                 SetDrifted(st, g, d, o)}
    BY DEF Outcomes
  <1> HIDE DEF st, g, o
  <1>3. CASE new = SetTargetNotReady(st, g)
    BY <1>1, <1>3 DEF SetTargetNotReady, Degrades, Statuses
  <1>4. CASE new = SetCheckFailed(st, g, TRUE) \/ new = SetCheckFailed(st, g, FALSE)
    <2>1. PICK b \in BOOLEAN : new = SetCheckFailed(st, g, b)
      BY <1>4
    <2>2. new.obsGen = g /\ new.drifted = "Unknown"
      BY <1>1, <2>1 DEF SetCheckFailed, Statuses
    <2> QED BY <1>1, <2>2 DEF Degrades
  <1>5. CASE new = SetChecked(st, g)
    BY <1>1, <1>5 DEF SetChecked, setOutcome, applyReport, Degrades, Statuses
  <1>6. CASE new = st
    BY <1>1, <1>6
  <1>7. CASE new = SetDrifted(st, g, d, o)
    <2>1. new.obsGen = g /\ new.drifted = "True"
      BY <1>1, <1>7 DEF SetDrifted, setOutcome, applyReport, Statuses
    <2>2. o = "Fail" => new.ready = "False" /\ new.stalled
      BY <1>1, <1>7 DEF SetDrifted, setOutcome, applyReport, Statuses
    <2> QED BY <1>1, <2>1, <2>2 DEF Degrades
  <1> QED BY <1>1, <1>2, <1>3, <1>4, <1>5, <1>6, <1>7

\* With onDrift: Fail a tool that waits for the current generation to be
\* reconciled never takes a database known to have drifted for a healthy one.
THEOREM DriftDegrades == Spec => []DriftDegradesTheCheck
  <1>1. Init => (TypeOK => DegradeInv)
    BY DEF Init, DegradeInv, NewStatus, SpecsOf, Degrades, InRun
  <1>2. TypeOK' /\ DegradeInv /\ [Next]_vars => DegradeInv'
    <2> SUFFICES ASSUME TypeOK', DegradeInv, [Next]_vars PROVE DegradeInv'
      OBVIOUS
    <2>0. TypeOK
      BY DEF DegradeInv
    <2>1. CASE Start
      <3> DEFINE r == [spec |-> spec, status |-> status]
                 new == SetSuspended(status, spec.gen)
      <3>1. UNCHANGED <<spec, status>>
        BY <2>1 DEF Start
      <3>2. CASE res' = r /\ pc' = "load"
        BY <2>0, <3>1, <3>2 DEF DegradeInv, InRun, TypeOK, Specs
      <3>3. CASE finish(r, new, FALSE) /\ spec.suspend
        <4>1. pc' = "write" /\ res'.spec = spec /\ res'.status = new
          BY <3>3 DEF finish
        <4>2. new.obsGen = spec.gen
          BY <2>0 DEF TypeOK, SetSuspended, Statuses
        <4>3. Degrades(new, spec)
          BY <3>3 DEF Degrades
        <4> HIDE DEF new
        <4> QED BY <2>0, <3>1, <4>1, <4>2, <4>3 DEF DegradeInv, InRun, TypeOK, Specs
      <3> QED BY <2>1, <3>2, <3>3 DEF Start
    <2>2. CASE LoadTarget \/ Check
      <3>1. RunEffect /\ pc \in {"load", "check"} /\ UNCHANGED <<spec, status>>
        BY <2>2, RunSteps
      <3>2. CASE res' = res
        BY <2>0, <3>1, <3>2 DEF DegradeInv, InRun
      <3>3. ASSUME NEW new \in Outcomes(res, drift), finish(res, new, TRUE)
            PROVE  DegradeInv'
        <4>1. res'.spec = res.spec /\ res'.status = new
          BY <2>0, <3>3 DEF finish, TypeOK
        <4>2. res.status.obsGen <= res.spec.gen /\ Degrades(res.status, res.spec)
          BY <3>1 DEF DegradeInv, InRun
        <4>3. new.obsGen <= res.spec.gen /\ Degrades(new, res.spec)
          BY <2>0, <4>2, OutcomeDegrades DEF TypeOK
        <4> QED BY <3>1, <4>1, <4>3 DEF DegradeInv, InRun
      <3> QED BY <3>1, <3>2, <3>3 DEF RunEffect
    <2>3. CASE WriteStatus
      <3>1. /\ pc = "write" /\ pc' = "idle" /\ spec' = spec
            /\ status' \in {res.status, status}
        BY <2>3 DEF WriteStatus, endRun
      <3> QED BY <2>0, <3>1 DEF DegradeInv, InRun, Degrades, TypeOK, Specs, Statuses
    <2>4. CASE EditSpec
      <3>1. spec'.gen = spec.gen + 1 /\ UNCHANGED <<status, pc, res>>
        BY <2>4 DEF EditSpec
      <3>2. spec.gen \in Nat /\ status.obsGen \in Int /\ res.spec.gen \in Nat
        BY <2>0 DEF TypeOK, Specs, Statuses
      <3> QED BY <2>0, <3>1, <3>2 DEF DegradeInv, InRun, Degrades
    <2>5. CASE Crash
      BY <2>5 DEF Crash, endRun, DegradeInv, InRun
    <2>6. CASE Restart
      BY <2>6 DEF Restart, DegradeInv, InRun
    <2>7. CASE UNCHANGED <<spec, status, pc, res>>
      BY <2>7 DEF DegradeInv, InRun
    <2> QED
      BY <2>1, <2>2, <2>3, <2>4, <2>5, <2>6, <2>7
         DEF Next, Worker, TimerFires, TargetMoves, Alter, vars, world
  <1>3. DegradeInv => DriftDegradesTheCheck
    BY DEF DegradeInv, Degrades, DriftDegradesTheCheck
  <1> QED BY <1>1, <1>2, <1>3, TypeCorrect, PTL DEF Spec

-----------------------------------------------------------------------------
(* DriftIsAnnounced.                                                       *)

\* The drift in a status is the one announced.
Announced(st) == st.drifted = "True" => announced = st.fingerprint

\* A run works on the status it has read, which its own write replaces.
AnnouncedInv ==
  /\ ~lost /\ pc # "write" => Announced(status)
  /\ pc \in {"load", "check"} => res.status = status
  /\ ~lost /\ pc = "write" => Announced(res.status)

\* While no status write is lost whose events were sent, the drift in the status
\* is the one announced last (recordTransitions).
THEOREM DriftAnnounced == Spec => []DriftIsAnnounced
  <1>1. Init => AnnouncedInv
    BY DEF Init, AnnouncedInv, Announced, NewStatus
  <1>2. TypeOK /\ AnnouncedInv /\ [Next]_vars /\ TypeOK' => AnnouncedInv'
    <2> SUFFICES ASSUME TypeOK, AnnouncedInv, [Next]_vars, TypeOK' PROVE AnnouncedInv'
      OBVIOUS
    <2>1. ASSUME NEW r, NEW new, NEW b, finish(r, new, b), ~lost => Announced(r.status)
          PROVE  pc' = "write" /\ (~lost => Announced(res.status))'
      <3>1. pc' = "write" /\ res' = [r EXCEPT !.status = new] /\ lost' = lost
        BY <2>1 DEF finish
      <3>2. ~lost /\ new.drifted = "True" => announced' = new.fingerprint
        BY <2>1 DEF finish, recordTransitions, Announced
      <3> QED BY <3>1, <3>2 DEF Announced
    <2>2. CASE Start
      <3> DEFINE r == [spec |-> spec, status |-> status]
      <3>1. status' = status /\ (~lost => Announced(r.status))
        BY <2>2 DEF Start, AnnouncedInv
      <3>2. CASE finish(r, SetSuspended(status, spec.gen), FALSE)
        <4> HIDE DEF r
        <4> QED BY <2>1, <3>1, <3>2 DEF AnnouncedInv
      <3>3. CASE res' = r /\ pc' = "load" /\ UNCHANGED history
        BY <3>1, <3>3 DEF AnnouncedInv, Announced, history
      <3> QED BY <2>2, <3>2, <3>3 DEF Start, history
    <2>3. CASE LoadTarget \/ Check
      <3>1. RunEffect /\ pc \in {"load", "check"} /\ status' = status
        BY <2>3, RunSteps
      <3>2. ~lost => Announced(res.status)
        BY <3>1 DEF AnnouncedInv
      <3>3. CASE pc' = "check" /\ UNCHANGED <<res, again, history>>
        BY <3>1, <3>3 DEF AnnouncedInv, Announced, history
      <3>4. CASE \E new \in Outcomes(res, drift) : finish(res, new, TRUE)
        BY <2>1, <3>2, <3>4 DEF AnnouncedInv
      <3> QED BY <3>1, <3>3, <3>4 DEF RunEffect
    <2>4. CASE WriteStatus
      BY <2>4 DEF WriteStatus, Fault, endRun, AnnouncedInv, Announced
    <2>5. CASE Crash
      BY <2>5 DEF Crash, endRun, AnnouncedInv, Announced
    <2>6. CASE Restart
      BY <2>6 DEF Restart, AnnouncedInv, Announced, history
    <2>7. CASE UNCHANGED <<status, pc, res, history>>
      BY <2>7 DEF AnnouncedInv, Announced, history
    <2> QED
      BY <2>2, <2>3, <2>4, <2>5, <2>6, <2>7
         DEF Next, Worker, TimerFires, EditSpec, TargetMoves, Alter, vars, world, history
  <1>3. AnnouncedInv => DriftIsAnnounced
    BY DEF AnnouncedInv, Announced, DriftIsAnnounced
  <1> QED BY <1>1, <1>2, <1>3, TypeCorrect, PTL DEF Spec
=============================================================================
