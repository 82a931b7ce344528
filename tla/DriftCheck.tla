----------------------------- MODULE DriftCheck -----------------------------
(***************************************************************************)
(* The AtlasDriftCheck controller: one resource that periodically compares *)
(* the database of an AtlasMigration with the state its version should     *)
(* have, reports the drift in its status and announces changes of it as    *)
(* events.  Unlike the other controllers it never gives up: every run      *)
(* that is not suspended asks for the next one.                            *)
(*                                                                         *)
(* The target is what the controller sees of the AtlasMigration: whether   *)
(* it exists, is reconciling, or is applying (and holds the database       *)
(* lock).  A drift is its fingerprint.  Reads are fresh, delays are not    *)
(* measured.                                                               *)
(***************************************************************************)
EXTENDS Integers

CONSTANTS
  Drifts,       \* Fingerprints of the drifts a database may have.
  NoDrift,      \* The database is what it should be.
  Actions,      \* Subset of {"Report", "Fail"}: spec.onDrift.
  FaultKinds,   \* Which calls may fail.
  MaxEdits,     \* Bound: edits of the spec.
  MaxFaults,    \* Bound: failed calls.
  MaxCrashes,   \* Bound: crashes of the operator.
  MaxChanges    \* Bound: changes of the target and of its database.

ASSUME ConstantsAssumption ==
  /\ NoDrift \notin Drifts
  /\ Actions # {} /\ Actions \subseteq {"Report", "Fail"}
  /\ MaxEdits \in Nat /\ MaxFaults \in Nat /\ MaxCrashes \in Nat /\ MaxChanges \in Nat

VARIABLES
  spec,       \* The spec and generation of the resource.
  status,     \* Its status, in the API server.
  target,     \* The AtlasMigration: "absent", "settled", "reconciling", "applying".
  drift,      \* The drift of its database.
  queued,     \* The resource is in the work queue.
  timer,      \* A delayed requeue is pending.
  pc,         \* The worker: "off" when the operator is down.
  res,        \* The worker's copy of the resource.
  again,      \* Whether Reconcile asks for a delayed requeue.
  announced,  \* History: the drift a reader of the events knows of.
  lost,       \* History: an announced outcome never reached the status.
  used        \* How much of each bound has been used.

vars == <<spec, status, target, drift, queued, timer, pc, res, again,
          announced, lost, used>>

world   == <<target, drift>>
history == <<announced, lost>>

-----------------------------------------------------------------------------
(* Values.                                                                 *)

AnyDrift == Drifts \cup {NoDrift}

Specs == [gen : Nat, suspend : BOOLEAN, onDrift : Actions]

\* The four conditions and the result of the last completed check.
Statuses == [ready : {"Unset", "True", "False"}, reconciling : BOOLEAN,
             stalled : BOOLEAN, drifted : {"Unset", "True", "False", "Unknown"},
             fingerprint : AnyDrift, obsGen : Int]

\* observedGeneration is -1 by default.
NewStatus == [ready |-> "Unset", reconciling |-> FALSE, stalled |-> FALSE,
              drifted |-> "Unset", fingerprint |-> NoDrift, obsGen |-> -1]

SpecsOf(gens) == [gen : gens, suspend : BOOLEAN, onDrift : Actions]
NoRes == [spec |-> CHOOSE s \in SpecsOf({1}) : TRUE, status |-> NewStatus]

Targets == {"absent", "settled", "reconciling", "applying"}

Fault(k) ==
  /\ k \in FaultKinds
  /\ used.faults < MaxFaults
  /\ used' = [used EXCEPT !.faults = @ + 1]

-----------------------------------------------------------------------------
(* The conditions.                                                         *)

setOutcome(st, stalled) ==
  [st EXCEPT !.ready = IF stalled THEN "False" ELSE "True",
             !.reconciling = FALSE, !.stalled = stalled]

applyReport(st, gen, d) == [st EXCEPT !.obsGen = gen, !.fingerprint = d]

SetChecked(st, gen) ==
  [setOutcome(applyReport(st, gen, NoDrift), FALSE) EXCEPT !.drifted = "False"]

SetDrifted(st, gen, d, action) ==
  [setOutcome(applyReport(st, gen, d), action = "Fail") EXCEPT !.drifted = "True"]

\* Mutant: the reason is written as the status of Drifted.
SetCheckFailedReason(st, gen, permanent) ==
  [st EXCEPT !.obsGen = gen, !.ready = "False", !.reconciling = ~permanent,
             !.stalled = permanent, !.drifted = "CheckFailed"]

\* The result of the last completed check is kept, but no longer observed.
SetCheckFailed(st, gen, permanent) ==
  [st EXCEPT !.obsGen = gen, !.ready = "False", !.reconciling = ~permanent,
             !.stalled = permanent, !.drifted = "Unknown"]

\* Mutant: the resource is not shown as reconciling.
SetTargetNotReadyQuiet(st, gen) == [st EXCEPT !.obsGen = gen]

SetTargetNotReady(st, gen) == [st EXCEPT !.obsGen = gen, !.reconciling = TRUE]

SetSuspended(st, gen) == [st EXCEPT !.obsGen = gen, !.reconciling = FALSE]

-----------------------------------------------------------------------------
Init ==
  /\ spec \in SpecsOf({1})
  /\ status = NewStatus
  /\ target \in Targets
  /\ drift \in AnyDrift
  /\ queued = TRUE
  /\ timer = FALSE
  /\ pc = "idle"
  /\ res = NoRes
  /\ again = FALSE
  /\ announced = NoDrift
  /\ lost = FALSE
  /\ used = [edits |-> 0, faults |-> 0, crashes |-> 0, changes |-> 0]

-----------------------------------------------------------------------------
(* The worker.                                                             *)

\* Mutant: a drift that follows another one is not announced.
recordTransitionsFirst(st, new) ==
  announced' = IF st.drifted # "True" /\ new.drifted = "True" THEN new.fingerprint
               ELSE IF st.drifted = "True" /\ new.drifted = "False" THEN NoDrift
               ELSE announced

\* recordTransitions: DriftDetected, DriftChanged or DriftResolved, from the
\* status the run has read to the one it is about to write.
recordTransitions(st, new) ==
  LET detected == st.drifted # "True" /\ new.drifted = "True"
      changed  == /\ st.drifted = "True" /\ new.drifted = "True"
                  /\ st.fingerprint # new.fingerprint
      resolved == st.drifted = "True" /\ new.drifted = "False"
  IN  announced' = IF detected \/ changed THEN new.fingerprint
                   ELSE IF resolved THEN NoDrift ELSE announced

\* The run ends: the events are sent, the deferred status write follows.
finish(r, new, requeue) ==
  /\ res' = [r EXCEPT !.status = new]
  /\ again' = requeue
  /\ pc' = "write"
  /\ recordTransitions(r.status, new)
  /\ UNCHANGED lost

\* Reconcile: a suspended resource is not checked and not woken.
Start ==
  LET r == [spec |-> spec, status |-> status]
  IN  /\ pc = "idle" /\ queued
      /\ queued' = FALSE
      /\ \/ spec.suspend /\ finish(r, SetSuspended(status, spec.gen), FALSE)
         \/ /\ ~spec.suspend /\ res' = r /\ pc' = "load"
            /\ UNCHANGED <<again, history>>
      /\ UNCHANGED <<spec, status, world, timer, used>>

failedCheck(permanent) ==
  finish(res, SetCheckFailed(res.status, res.spec.gen, permanent), TRUE)

\* loadTarget and extractData: a target that is reconciling is left alone.
LoadTarget ==
  /\ pc = "load"
  /\ \/ /\ target = "absent" /\ failedCheck(TRUE) /\ UNCHANGED used
     \/ /\ target \in {"reconciling", "applying"}
        /\ finish(res, SetTargetNotReady(res.status, res.spec.gen), TRUE) /\ UNCHANGED used
     \/ /\ target = "settled" /\ pc' = "check"
        /\ UNCHANGED <<res, again, history, used>>
     \/ Fault("transient") /\ failedCheck(FALSE)
     \/ Fault("permanent") /\ target = "settled" /\ failedCheck(TRUE)
  /\ UNCHANGED <<spec, status, world, queued, timer>>

\* The client, login, whoAmI and `migrate drift`, which needs the database
\* lock; errLocked keeps the previous result, observedGeneration included.
Check ==
  /\ pc = "check"
  /\ \/ /\ target = "applying" /\ finish(res, res.status, TRUE) /\ UNCHANGED used
     \/ Fault("locked") /\ finish(res, res.status, TRUE)
     \/ /\ target # "applying" /\ drift = NoDrift
        /\ finish(res, SetChecked(res.status, res.spec.gen), TRUE) /\ UNCHANGED used
     \/ /\ target # "applying" /\ drift # NoDrift
        /\ finish(res, SetDrifted(res.status, res.spec.gen, drift, res.spec.onDrift), TRUE)
        /\ UNCHANGED used
     \/ Fault("transient") /\ failedCheck(FALSE)
     \/ Fault("permanent") /\ failedCheck(TRUE)
  /\ UNCHANGED <<spec, status, world, queued, timer>>

endRun(step) == pc' = step /\ res' = NoRes /\ again' = FALSE

\* Mutant: a failed write takes the requeue with it.
WriteStatusOrStop ==
  /\ pc = "write"
  /\ \/ status' = res.status /\ timer' = (timer \/ again) /\ UNCHANGED <<lost, used>>
     \/ Fault("write") /\ lost' = TRUE /\ UNCHANGED <<status, timer>>
  /\ endRun("idle")
  /\ UNCHANGED <<spec, world, queued, announced>>

\* The deferred status update; a failure is only logged.
WriteStatus ==
  /\ pc = "write"
  /\ \/ status' = res.status /\ UNCHANGED <<lost, used>>
     \/ Fault("write") /\ lost' = TRUE /\ UNCHANGED status
  /\ timer' = (timer \/ again)
  /\ endRun("idle")
  /\ UNCHANGED <<spec, world, queued, announced>>

Worker == Start \/ LoadTarget \/ Check \/ WriteStatus

-----------------------------------------------------------------------------
(* The work queue and the process.                                         *)

TimerFires ==
  /\ timer /\ timer' = FALSE /\ queued' = TRUE
  /\ UNCHANGED <<spec, status, world, pc, res, again, history, used>>

Crash ==
  /\ pc # "off" /\ used.crashes < MaxCrashes
  /\ endRun("off") /\ queued' = FALSE /\ timer' = FALSE
  /\ lost' = (lost \/ pc = "write")
  /\ used' = [used EXCEPT !.crashes = @ + 1]
  /\ UNCHANGED <<spec, status, world, announced>>

Restart ==
  /\ pc = "off" /\ pc' = "idle" /\ queued' = TRUE
  /\ UNCHANGED <<spec, status, world, timer, res, again, history, used>>

-----------------------------------------------------------------------------
(* The user, the target and other clients of its database.                 *)

\* A new generation passes GenerationChangedPredicate.
EditSpec ==
  /\ used.edits < MaxEdits
  /\ used' = [used EXCEPT !.edits = @ + 1]
  /\ \E s \in BOOLEAN, o \in Actions :
       /\ s # spec.suspend \/ o # spec.onDrift
       /\ spec' = [gen |-> spec.gen + 1, suspend |-> s, onDrift |-> o]
  /\ queued' = (queued \/ pc # "off")
  /\ UNCHANGED <<status, world, timer, pc, res, again, history>>

\* The AtlasMigration is created, deleted, or takes a step; an apply may undo
\* the drift.  The check is not told.
TargetMoves ==
  /\ used.changes < MaxChanges
  /\ used' = [used EXCEPT !.changes = @ + 1]
  /\ target' \in Targets \ {target}
  /\ drift' \in IF target = "applying" THEN {drift, NoDrift} ELSE {drift}
  /\ UNCHANGED <<spec, status, queued, timer, pc, res, again, history>>

\* Someone changes the database behind the operator's back, or back again.
Alter ==
  /\ used.changes < MaxChanges
  /\ used' = [used EXCEPT !.changes = @ + 1]
  /\ drift' \in AnyDrift \ {drift}
  /\ UNCHANGED <<spec, status, target, queued, timer, pc, res, again, history>>

Next ==
  \/ Worker \/ TimerFires \/ Crash \/ Restart
  \/ EditSpec \/ TargetMoves \/ Alter

Spec == Init /\ [][Next]_vars

\* The worker and the queue keep going and the operator is restarted.
Fairness == WF_vars(Worker) /\ WF_vars(TimerFires) /\ WF_vars(Restart)

FairSpec == Spec /\ Fairness

-----------------------------------------------------------------------------
(* Properties.                                                             *)

\* Type invariant.
TypeOK ==
  /\ spec \in Specs /\ status \in Statuses
  /\ target \in Targets /\ drift \in AnyDrift /\ announced \in AnyDrift
  /\ queued \in BOOLEAN /\ timer \in BOOLEAN /\ again \in BOOLEAN /\ lost \in BOOLEAN
  /\ pc \in {"off", "idle", "load", "check", "write"}
  /\ res \in [spec : Specs, status : Statuses]
  /\ used \in [edits : Nat, faults : Nat, crashes : Nat, changes : Nat]

\* onDrift: Fail "also sets Ready=False and Stalled=True, so GitOps tools can
\* treat the check as degraded": a tool that waits for the current generation
\* to be reconciled never sees a known drift as ready.
DriftDegradesTheCheck ==
  /\ spec.onDrift = "Fail" /\ ~spec.suspend
  /\ status.obsGen = spec.gen /\ ~status.reconciling
  /\ status.drifted = "True"
  => status.ready = "False" /\ status.stalled

\* A drift shown in the status has been announced with this fingerprint by
\* DriftDetected or DriftChanged, unless a status write whose events had been
\* sent was lost (recordTransitions runs before the deferred write).
DriftIsAnnounced ==
  ~lost /\ status.drifted = "True" /\ pc \in {"idle", "off"} => announced = status.fingerprint

\* A database shown without drift is one whose drift, if any was announced,
\* has been announced as resolved.
ResolutionIsAnnounced ==
  status.drifted = "False" /\ pc \in {"idle", "off"} => announced = NoDrift

\* What the status shows is the state of the database.
Reported ==
  IF drift = NoDrift THEN status.drifted = "False"
  ELSE status.drifted = "True" /\ status.fingerprint = drift

\* A drift is eventually reported, and so is its end, while the target exists
\* and is not busy, through lost status writes, failed checks and crashes.
DriftIsReported == []<>(spec.suspend \/ target # "settled" \/ Reported)
=============================================================================
