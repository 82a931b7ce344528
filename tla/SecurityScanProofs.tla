------------------------- MODULE SecurityScanProofs -------------------------
(***************************************************************************)
(* The safety properties of SecurityScan, for every period and horizon of  *)
(* the clock and every number of edits, requests, applies, failures and    *)
(* crashes.                                                                *)
(***************************************************************************)
EXTENDS SecurityScan, WellFoundedInduction, TLAPS

\* A nonempty set of numbers with a lower bound has a least element.
LEMMA MinExists ==
  ASSUME NEW s, NEW b \in Int, s # {}, s \subseteq Int, \A x \in s : b <= x
  PROVE  Min(s) \in s /\ \A x \in s : Min(s) <= x
<1> DEFINE t == {n \in Nat : n + b \in s}
<1>1. PICK a \in s : TRUE
  OBVIOUS
<1>2. a - b \in t
  <2>1. a - b \in Nat /\ (a - b) + b = a
    BY <1>1
  <2> QED  BY <1>1, <2>1
<1>3. PICK m \in t : \A y \in t : ~ (<<y, m>> \in OpToRel(<, Nat))
  <2>1. t \subseteq Nat /\ t # {}
    BY <1>2
  <2> HIDE DEF t
  <2> QED  BY <2>1, NatLessThanWellFounded, WFMin
<1>4. \A y \in t : ~ (y < m)
  <2> TAKE y \in t
  <2>1. y \in Nat /\ m \in Nat
    OBVIOUS
  <2> HIDE DEF t
  <2>2. y < m => <<y, m>> \in OpToRel(<, Nat)
    BY <2>1 DEF OpToRel
  <2> QED  BY <1>3, <2>2
<1>5. m + b \in s /\ \A y \in s : m + b <= y
  <2>1. m \in Nat /\ m + b \in s
    OBVIOUS
  <2> SUFFICES ASSUME NEW y \in s PROVE m + b <= y
    BY <2>1
  <2>2. y - b \in Nat /\ (y - b) + b = y
    OBVIOUS
  <2>3. y - b \in t
    BY <2>2
  <2>4. ~ (y - b < m)
    BY <1>4, <2>3
  <2> QED  BY <2>1, <2>2, <2>4
<1> QED  BY <1>5 DEF Min

\* A nonempty set of numbers with an upper bound has a greatest element.
LEMMA MaxExists ==
  ASSUME NEW s, NEW b \in Int, s # {}, s \subseteq Int, \A x \in s : x <= b
  PROVE  Max(s) \in s /\ \A x \in s : x <= Max(s)
<1> DEFINE t == {n \in Int : -n \in s}
<1>1. PICK a \in s : TRUE
  OBVIOUS
<1>2. t # {} /\ t \subseteq Int /\ -b \in Int
  <2>1. -a \in t
    BY <1>1
  <2> QED  BY <2>1
<1>3. \A n \in t : -b <= n
  OBVIOUS
<1>4. Min(t) \in t /\ \A n \in t : Min(t) <= n
  <2> HIDE DEF t
  <2> QED  BY <1>2, <1>3, MinExists
<1>5. -Min(t) \in s
  BY <1>4
<1>6. ASSUME NEW x \in s PROVE x <= -Min(t)
  <2>1. -x \in t
    BY <1>6
  <2>2. Min(t) <= -x /\ Min(t) \in Int
    BY <1>4, <2>1, <1>2
  <2> QED  BY <2>2
<1>7. \E z \in s : \A x \in s : x <= z
  BY <1>5, <1>6
<1>8. \A x, z \in s : x <= z <=> z >= x
  OBVIOUS
<1>9. \E z \in s : \A x \in s : z >= x
  BY <1>7, <1>8
<1>10. Max(s) \in s /\ \A x \in s : Max(s) >= x
  BY <1>9 DEF Max
<1> QED  BY <1>8, <1>10

-----------------------------------------------------------------------------
(* Types.                                                                  *)

\* The types of the bounds in use and of the history, which TypeOK leaves out.
Counts == [edits : Nat, requests : Nat, applies : Nat, creations : Nat, faults : Nat,
           crashes : Nat]
Scans  == [applies : Nat, uid : Nat, request : Nat, at : Times \cup {NoTime}, gen : Nat]

TypeInv == TypeOK /\ used \in Counts /\ ranAt \in Scans /\ covered \in Scans

USE DEF Times, NoTime

\* The walk over the slots ends at a time that has passed.
LEMMA SlotHasPassed ==
  ASSUME NEW from, NEW t \in Times
  PROVE  /\ latestSlotAtOrBefore(from, t) \in Times \cup {NoTime}
         /\ latestSlotAtOrBefore(from, t) <= t
<1> DEFINE s == {x \in slotsAfter(from) : x <= t}
<1>1. s \subseteq Times /\ s \subseteq Int /\ (\A x \in s : x <= t) /\ t \in Int
  BY ConstantsAssumption DEF slotsAfter
<1>2. CASE s = {}
  BY <1>2, ConstantsAssumption DEF latestSlotAtOrBefore
<1>3. CASE s # {}
  <2>1. Max(s) \in s
    <3> HIDE DEF s
    <3> QED  BY <1>1, <1>3, MaxExists
  <2>2. latestSlotAtOrBefore(from, t) \in {Max(s), t}
    BY <1>3 DEF latestSlotAtOrBefore
  <2> DEFINE top == Max(s)
  <2>3. top \in Times /\ top <= t /\ latestSlotAtOrBefore(from, t) \in {top, t}
    BY <1>1, <2>1, <2>2
  <2>4. t <= t
    BY <1>1
  <2> HIDE DEF top
  <2> QED  BY <2>3, <2>4
<1> QED  BY <1>2, <1>3

\* A requeue is for a time of the clock.
LEMMA WakeType ==
  ASSUME NEW sp \in Specs, NEW from \in Times, NEW t \in Times, NEW retry \in BOOLEAN
  PROVE  wake(sp, from, t, retry) \in Results
<1> DEFINE waits == {x - from : x \in (IF sp.sched THEN slotsAfter(from) ELSE {})}
                      \cup {x - from : x \in {y \in {sp.expires} : y > from}}
                      \cup (IF retry THEN {1} ELSE {})
<1> USE ConstantsAssumption
<1>1. sp.expires \in Int /\ from \in Int
  <2> HIDE DEF waits
  <2>1. sp.expires \in Expirations
    BY DEF Specs
  <2>2. Expirations \subseteq Int /\ from \in Int
    OBVIOUS
  <2> QED  BY <2>1, <2>2
<1>2. \A n \in waits : n \in Int /\ 0 <= n
  <2>1. \A x \in slotsAfter(from) : x - from \in Int /\ 0 <= x - from
    BY <1>1 DEF slotsAfter
  <2>2. \A x \in {y \in {sp.expires} : y > from} : x - from \in Int /\ 0 <= x - from
    BY <1>1
  <2> QED  BY <2>1, <2>2
<1>3. CASE waits = {}
  BY <1>3 DEF wake, NoResult, Results
<1>4. CASE waits # {}
  <2> DEFINE m == Min(waits)
  <2>1. m \in waits
    <3> HIDE DEF waits
    <3>1. waits \subseteq Int /\ (\A n \in waits : 0 <= n) /\ 0 \in Int
      BY <1>2
    <3> QED  BY <1>4, <3>1, MinExists
  <2>2. m \in Int /\ 0 <= m
    BY <1>2, <2>1
  <2>3. wake(sp, from, t, retry) = [NoResult EXCEPT !.at = Min({t + m, MaxTime})]
    BY <1>4 DEF wake
  <2> HIDE DEF m, waits
  <2>4. Min({t + m, MaxTime}) \in Times
    <3> DEFINE p == {t + m, MaxTime}
    <3>1. p # {} /\ p \subseteq Int /\ 0 \in Int /\ \A x \in p : 0 <= x
      BY <2>2
    <3>2. Min(p) \in p /\ \A x \in p : Min(p) <= x
      <4> HIDE DEF p
      <4> QED  BY <3>1, MinExists
    <3> QED  BY <3>1, <3>2
  <2> QED  BY <2>3, <2>4 DEF NoResult, Results
<1> QED  BY <1>3, <1>4

\* The delayed requeue that stands is one of those that were asked for.
LEMMA EarliestType ==
  ASSUME NEW a \in Times \cup {NoTime}, NEW b \in Times \cup {NoTime}
  PROVE  earliest({a, b}) \in Times \cup {NoTime}
<1> DEFINE s == {a, b} \ {NoTime}
<1>1. s \subseteq Times /\ s \subseteq Int /\ 0 \in Int /\ \A x \in s : 0 <= x
  BY ConstantsAssumption
<1>2. CASE s = {}
  BY <1>2 DEF earliest
<1>3. CASE s # {}
  <2>1. Min(s) \in s
    <3> HIDE DEF s
    <3> QED  BY <1>1, <1>3, MinExists
  <2> QED  BY <1>1, <1>3, <2>1 DEF earliest
<1> QED  BY <1>2, <1>3

\* What a run writes is a status: every condition keeps the type.
LEMMA ConditionTypes ==
  ASSUME NEW st \in Statuses, NEW g \in Nat
  PROVE  /\ SetFirstVisit(st) \in Statuses /\ SetScanning(st) \in Statuses
         /\ SetScanned(st, g) \in Statuses /\ SetIdle(st, g) \in Statuses
         /\ SetRetrying(st) \in Statuses /\ SetSuspended(st, g) \in Statuses
         /\ \A reason \in {"Invalid", "BackoffLimitExceeded"} :
              SetStalled(st, g, reason) \in Statuses
<1>1. 0 \in 0..MaxFailed
  BY ConstantsAssumption DEF MaxFailed
<1>2. SetFirstVisit(st) \in Statuses /\ SetScanning(st) \in Statuses
  BY DEF SetFirstVisit, SetScanning, Statuses
<1>3. SetScanned(st, g) \in Statuses
  BY <1>1 DEF SetScanned, Statuses
<1>4. SetRetrying(st) \in Statuses /\ SetSuspended(st, g) \in Statuses
  BY DEF SetRetrying, SetSuspended, Statuses
<1>5. \A reason \in {"Invalid", "BackoffLimitExceeded"} : SetStalled(st, g, reason) \in Statuses
  BY DEF SetStalled, Statuses
<1> QED  BY <1>2, <1>3, <1>4, <1>5 DEF SetIdle

\* Closing an attempt keeps the type.
LEMMA AttemptTypes ==
  ASSUME NEW st \in Statuses
  PROVE  /\ closeAttempt(st) \in Statuses
         /\ \A a \in Attempts : [st EXCEPT !.attempt = a] \in Statuses
<1>1. \A a \in Attempts : [st EXCEPT !.attempt = a] \in Statuses
  BY DEF Statuses
<1>2. closeAttempt(st) = [st EXCEPT !.attempt = [@ EXCEPT !.done = TRUE]]
  BY DEF closeAttempt
<1>3. [st.attempt EXCEPT !.done = TRUE] \in Attempts
  BY DEF Statuses, Attempts
<1> QED  BY <1>1, <1>2, <1>3

\* What is observed when a run starts.
LEMMA SnapshotType ==
  ASSUME TypeInv
  PROVE  snapshot(spec, status, now) \in Inputs
<1>1. latestSlotAtOrBefore(anchor(status), now) \in Times \cup {NoTime}
  BY SlotHasPassed DEF TypeInv, TypeOK
<1>2. observed \in Triggers
  BY DEF TypeInv, TypeOK, observed, NoTrigger, Triggers
<1>3. activeWaiver(spec, now) \in BOOLEAN
  BY DEF activeWaiver
<1>4. spec.gen \in Nat /\ request \in Nat
  BY DEF TypeInv, TypeOK, Specs
<1> HIDE DEF Times, NoTime
<1>5. (IF spec.sched THEN latestSlotAtOrBefore(anchor(status), now) ELSE NoTime)
        \in Times \cup {NoTime}
  BY <1>1
<1> QED  BY <1>2, <1>3, <1>4, <1>5 DEF snapshot, Inputs

\* The empty values that a run starts and ends with.
LEMMA NothingTypes ==
  /\ NoInputs \in Inputs /\ NoResult \in Results /\ Requeue \in Results /\ NoRanAt \in Scans
  /\ NewStatus \in Statuses /\ NoRun \in [spec : Specs, status : Statuses, start : Times]
<1> USE ConstantsAssumption
<1>1. NoInputs \in Inputs
  BY DEF NoInputs, Inputs, NoTrigger, Triggers
<1>2. NoResult \in Results /\ Requeue \in Results /\ NoRanAt \in Scans
  BY DEF NoResult, Results, Requeue, NoRanAt, Scans
<1>3. NewStatus \in Statuses
  <2>1. 0 \in 0..MaxFailed
    BY DEF MaxFailed
  <2>2. [inputs |-> NoInputs, done |-> TRUE] \in Attempts
    BY <1>1 DEF Attempts
  <2> QED  BY <2>1, <2>2 DEF NewStatus, Statuses, NoTrigger, Triggers
<1>4. NoRun.spec \in Specs
  <2> DEFINE S == [gen : {0}, suspend : {FALSE}, config : Configs, sched : Scheduled,
                   expires : Expirations]
  <2>1. PICK c \in Configs, d \in Scheduled, e \in Expirations : TRUE
    OBVIOUS
  <2>2. [gen |-> 0, suspend |-> FALSE, config |-> c, sched |-> d, expires |-> e] \in S
    BY <2>1
  <2>3. (CHOOSE s \in S : TRUE) \in S
    BY <2>2
  <2>4. \A s \in S : s \in Specs
    <3>1. [gen : {0}, suspend : {FALSE}, config : Configs, sched : Scheduled,
           expires : Expirations] \subseteq Specs
      <4>1. {0} \subseteq Nat /\ {FALSE} \subseteq BOOLEAN
        OBVIOUS
      <4> QED  BY <4>1, Zenon DEF Specs
    <3> QED  BY <3>1
  <2> QED  BY <2>3, <2>4 DEF NoRun
<1>5. NoRun.status = NewStatus /\ NoRun.start = 0
      /\ NoRun = [spec |-> NoRun.spec, status |-> NoRun.status, start |-> NoRun.start]
  BY DEF NoRun
<1>6. 0 \in Times
  OBVIOUS
<1>7. NoRun \in [spec : Specs, status : Statuses, start : Times]
  <2> HIDE DEF Times
  <2> QED  BY <1>3, <1>4, <1>5, <1>6
<1> QED  BY <1>1, <1>2, <1>3, <1>7

\* A run that starts with the status it read.
NewRun(st) == [spec |-> spec, status |-> st, start |-> now]

\* The types of what a step of the worker writes down.
RunTypes ==
  /\ run' \in [spec : Specs, status : Statuses, start : Times]
  /\ snap' \in Inputs /\ result' \in Results /\ pc' \in Steps

LEMMA StartTypes ==
  ASSUME TypeInv, Start
  PROVE  RunTypes
<1> DEFINE sn == snapshot(spec, status, now)
           opened == [status EXCEPT !.attempt = [inputs |-> sn, done |-> FALSE]]
<1>1. spec \in Specs /\ status \in Statuses /\ now \in Times /\ spec.gen \in Nat
      /\ snap \in Inputs
  BY DEF TypeInv, TypeOK, Specs
<1>2. sn \in Inputs
  BY SnapshotType
<1>3. opened \in Statuses /\ closeAttempt(status) \in Statuses
  <2>1. [inputs |-> sn, done |-> FALSE] \in Attempts
    <3> HIDE DEF sn
    <3> QED  BY <1>2 DEF Attempts
  <2> QED  BY <1>1, <2>1, AttemptTypes
<1>4. wake(spec, now, now, FALSE) \in Results
  BY <1>1, WakeType
<1> HIDE DEF sn, opened
<1>5. ASSUME NEW st \in Statuses, NEW r \in Results,
             run' = NewRun(st), result' = r, pc' = "write", snap' = NoInputs
      PROVE  RunTypes
  <2> HIDE DEF Times, NoTime
  <2> QED  BY <1>1, <1>5, NothingTypes DEF RunTypes, NewRun, Steps
<1>6. ASSUME NEW st \in Statuses,
             run' = NewRun(st), result' = NoResult, pc' = "open", snap' = sn
      PROVE  RunTypes
  <2> HIDE DEF Times, NoTime
  <2> QED  BY <1>1, <1>2, <1>6, NothingTypes DEF RunTypes, NewRun, Steps
<1>7. SetScanning(opened) \in Statuses
  BY <1>1, <1>3, ConditionTypes
<1>8. \/ \E st \in Statuses, r \in Results :
            run' = NewRun(st) /\ result' = r /\ pc' = "write" /\ snap' = NoInputs
      \/ \E st \in Statuses :
            run' = NewRun(st) /\ result' = NoResult /\ pc' = "open" /\ snap' = sn
  <2> HIDE DEF Times, NoTime
  <2>1. SetFirstVisit(status) \in Statuses /\ SetSuspended(closeAttempt(status), spec.gen) \in Statuses
        /\ SetStalled(closeAttempt(status), spec.gen, "Invalid") \in Statuses
        /\ SetIdle(closeAttempt(status), spec.gen) \in Statuses
    BY <1>1, <1>3, ConditionTypes
  <2>2. CASE pc' = "open"
    BY <2>2, <1>3, <1>7 DEF Start, NewRun, opened, sn
  <2>3. CASE pc' # "open"
    BY <2>1, <2>3, <1>1, <1>3, <1>4, NothingTypes DEF Start, NewRun
  <2> QED  BY <2>2, <2>3
<1> QED  BY <1>5, <1>6, <1>8

\* A failed scan ends with a status and a requeue.
LEMMA FailTypes ==
  ASSUME TypeInv
  PROVE  failedStatus \in Statuses /\ wake(run.spec, run.start, now, failedStatus.stalled = "no") \in Results
<1> DEFINE old == run.status
           more == [old EXCEPT !.failed = IF @ < MaxFailed THEN @ + 1 ELSE @]
           st == closeAttempt(more)
<1>1. run.spec \in Specs /\ old \in Statuses /\ run.start \in Times /\ now \in Times
      /\ run.spec.gen \in Nat
  BY DEF TypeInv, TypeOK, Specs
<1>2. more \in Statuses
  <2>1. \A n \in 0..MaxFailed : (IF n < MaxFailed THEN n + 1 ELSE n) \in 0..MaxFailed
    BY ConstantsAssumption DEF MaxFailed
  <2>2. old.failed \in 0..MaxFailed
    BY <1>1 DEF Statuses
  <2>3. more.failed = (IF old.failed < MaxFailed THEN old.failed + 1 ELSE old.failed)
    BY <1>1 DEF Statuses
  <2> HIDE DEF old, Times, NoTime
  <2>4. \A n \in 0..MaxFailed : [old EXCEPT !.failed = n] \in Statuses
    BY <1>1 DEF Statuses
  <2>5. more = [old EXCEPT !.failed = IF old.failed < MaxFailed THEN old.failed + 1 ELSE old.failed]
    OBVIOUS
  <2> QED  BY <2>1, <2>2, <2>4, <2>5
<1>3. st \in Statuses
  BY <1>2, AttemptTypes
<1>4. failedStatus \in {st, [SetStalled(st, run.spec.gen, "BackoffLimitExceeded")
                              EXCEPT !.compliant = "Stale"], SetRetrying(st)}
  BY DEF failedStatus
<1> HIDE DEF st
<1>5. SetRetrying(st) \in Statuses /\ SetStalled(st, run.spec.gen, "BackoffLimitExceeded") \in Statuses
  BY <1>1, <1>3, ConditionTypes
<1>6. \A x \in Statuses : [x EXCEPT !.compliant = "Stale"] \in Statuses
  BY DEF Statuses
<1>7. failedStatus \in Statuses
  BY <1>3, <1>4, <1>5, <1>6
<1>8. (failedStatus.stalled = "no") \in BOOLEAN
  OBVIOUS
<1> QED  BY <1>1, <1>7, <1>8, WakeType

\* A commit records a time that has passed, and the watermarks of the snapshot.
LEMMA CommitTypes ==
  ASSUME TypeInv
  PROVE  committed \in Statuses
<1> DEFINE slot == latestSlotAtOrBefore(anchor(run.status), now)
           old == closeAttempt(run.status)
           kept == IF ~run.spec.sched THEN NoTime ELSE IF slot # NoTime THEN slot ELSE old.slot
<1>1. old \in Statuses /\ snap \in Inputs /\ now \in Times
  BY AttemptTypes DEF TypeInv, TypeOK
<1>2. slot \in Times \cup {NoTime}
  BY <1>1, SlotHasPassed
<1>3. old.slot \in Times \cup {NoTime}
  BY <1>1 DEF Statuses
<1> HIDE DEF Times, NoTime, slot, old
<1>4. kept \in Times \cup {NoTime}
  BY <1>2, <1>3
<1>5. committed = [old EXCEPT !.request = snap.request, !.trigger = snap.trigger,
                              !.waived = snap.waived, !.success = now,
                              !.compliant = "Graded", !.slot = kept]
  BY DEF committed, old, slot
<1>6. snap.request \in Nat /\ snap.trigger \in Triggers /\ snap.waived \in BOOLEAN
  BY <1>1 DEF Inputs
<1> HIDE DEF kept
<1> QED  BY <1>1, <1>4, <1>5, <1>6 DEF Statuses

\* Every step of the worker keeps the types of the run.
LEMMA WorkerTypes ==
  ASSUME TypeInv, Worker
  PROVE  RunTypes /\ ranAt' \in Scans
<1>1. /\ spec \in Specs /\ status \in Statuses /\ now \in Times /\ spec.gen \in Nat
      /\ run \in [spec : Specs, status : Statuses, start : Times]
      /\ snap \in Inputs /\ result \in Results /\ ranAt \in Scans /\ used \in Counts
      /\ run.spec \in Specs /\ run.status \in Statuses /\ run.start \in Times
      /\ run.spec.gen \in Nat
  BY DEF TypeInv, TypeOK, Specs
<1>2. CASE Start
  BY <1>1, <1>2, StartTypes DEF Start, history
<1> HIDE DEF Times, NoTime
<1>3. CASE StartFails
  BY <1>1, <1>3, NothingTypes DEF StartFails, RunTypes, Steps, history
<1>4. CASE OpenAttempt
  BY <1>1, <1>4, NothingTypes DEF OpenAttempt, RunTypes, Steps, history
<1>5. ASSUME NEW st \in Statuses, NEW r \in Results, finish(st, r), snap' = snap
      PROVE  RunTypes
  BY <1>1, <1>5 DEF finish, RunTypes, Steps
<1>6. CASE Scan
  <2>1. CASE run.spec.config # "badConfig" /\ pc' = "store" /\ UNCHANGED run
    <3>1. RunTypes
      BY <1>1, <1>6, <2>1 DEF Scan, RunTypes, Steps, finish, fail
    <3>2. [applies |-> used.applies, uid |-> used.creations, request |-> used.requests,
           at |-> now, gen |-> run.spec.gen] \in Scans
      BY <1>1 DEF Scans, Counts
    <3> QED  BY <1>1, <1>6, <2>1, <3>1, <3>2 DEF Scan, fail, finish
  <2>2. CASE finish(SetStalled(closeAttempt(run.status), run.spec.gen, "Invalid"),
                    wake(run.spec, run.start, now, FALSE)) /\ UNCHANGED ranAt
    BY <1>1, <1>5, <1>6, <2>2, AttemptTypes, ConditionTypes, WakeType DEF Scan
  <2>3. CASE fail /\ UNCHANGED ranAt
    BY <1>1, <1>5, <1>6, <2>3, FailTypes DEF Scan, fail
  <2> QED  BY <1>6, <2>1, <2>2, <2>3 DEF Scan
<1>7. CASE StoreReport
  <2>1. CASE fail
    BY <1>1, <1>5, <1>7, <2>1, FailTypes DEF StoreReport, fail
  <2>2. CASE finish(SetScanned(committed, run.spec.gen),
                    IF lapsed(run.spec, snap, now) THEN Requeue
                    ELSE wake(run.spec, now, now, FALSE))
    <3>1. SetScanned(committed, run.spec.gen) \in Statuses
      BY <1>1, CommitTypes, ConditionTypes
    <3>2. wake(run.spec, now, now, FALSE) \in Results /\ Requeue \in Results
      BY <1>1, WakeType, NothingTypes
    <3> QED  BY <1>1, <1>5, <1>7, <2>2, <3>1, <3>2 DEF StoreReport
  <2> QED  BY <1>7, <2>1, <2>2 DEF StoreReport
<1>8. CASE WriteStatus
  BY <1>1, <1>8, NothingTypes DEF WriteStatus, RunTypes, Steps, endRun
<1> QED  BY <1>2, <1>3, <1>4, <1>6, <1>7, <1>8 DEF Worker

LEMMA InitTypes == Init => TypeInv
<1> SUFFICES ASSUME Init PROVE TypeInv
  OBVIOUS
<1>1. spec \in Specs
  <2>1. {1} \subseteq Nat /\ {FALSE} \subseteq BOOLEAN /\ Configs \ {"invalid", "badConfig"} \subseteq Configs
    OBVIOUS
  <2>2. [gen : {1}, suspend : {FALSE}, config : Configs \ {"invalid", "badConfig"},
         sched : Scheduled, expires : Expirations] \subseteq Specs
    BY <2>1, Zenon DEF Specs
  <2> QED  BY <2>2 DEF Init
<1>2. trigger \in Triggers /\ known \in Triggers /\ trigger.uid = 1
  BY DEF Init, Triggers
<1>3. now \in Times /\ wakeAt \in Times \cup {NoTime}
  BY ConstantsAssumption DEF Init
<1>4. used \in Counts
  BY <1>2 DEF Init, Counts
<1> HIDE DEF Times, NoTime
<1> QED  BY <1>1, <1>2, <1>3, <1>4, NothingTypes DEF Init, TypeInv, TypeOK, Steps

LEMMA NextTypes == TypeInv /\ [Next]_vars => TypeInv'
<1> SUFFICES ASSUME TypeInv, [Next]_vars PROVE TypeInv'
  OBVIOUS
<1>1. /\ spec \in Specs /\ status \in Statuses /\ now \in Times /\ spec.gen \in Nat
      /\ request \in Nat /\ trigger \in Triggers /\ known \in Triggers /\ allowed \in BOOLEAN
      /\ queued \in BOOLEAN /\ wakeAt \in Times \cup {NoTime} /\ pc \in Steps
      /\ run \in [spec : Specs, status : Statuses, start : Times]
      /\ run.status \in Statuses
      /\ snap \in Inputs /\ result \in Results /\ ranAt \in Scans /\ covered \in Scans
      /\ reportOf \in {"status", "run", "lost"} /\ used \in Counts
      /\ result.again \in BOOLEAN /\ result.at \in Times \cup {NoTime}
  BY DEF TypeInv, TypeOK, Specs, Results
<1>2. \A k : Fault(k) => used' \in Counts
  BY <1>1 DEF Fault, Counts
<1> DEFINE Rest == /\ spec' \in Specs /\ request' \in Nat /\ status' \in Statuses
                   /\ trigger' \in Triggers /\ known' \in Triggers /\ allowed' \in BOOLEAN
                   /\ now' \in Times /\ queued' \in BOOLEAN
                   /\ wakeAt' \in Times \cup {NoTime} /\ covered' \in Scans
                   /\ reportOf' \in {"status", "run", "lost"} /\ used' \in Counts
<1>3. CASE Worker
  <2>0. earliest({wakeAt, result.at}) \in Times \cup {NoTime}
    BY <1>1, EarliestType
  <2> HIDE DEF Times, NoTime
  <2>1. Rest
    <3>1. CASE Start
      BY <1>1, <3>1 DEF Start, resource, history
    <3>2. CASE StartFails
      BY <1>1, <1>2, <3>2 DEF StartFails, resource, history
    <3>3. CASE OpenAttempt
      BY <1>1, <1>2, <3>3 DEF OpenAttempt, history
    <3>4. CASE Scan
      BY <1>1, <1>2, <3>4 DEF Scan, resource
    <3>5. CASE StoreReport
      BY <1>1, <1>2, <3>5 DEF StoreReport, resource
    <3>6. CASE WriteStatus
      BY <1>1, <1>2, <2>0, <3>6 DEF WriteStatus
    <3> QED  BY <1>3, <3>1, <3>2, <3>3, <3>4, <3>5, <3>6 DEF Worker
  <2>2. RunTypes /\ ranAt' \in Scans
    BY <1>3, WorkerTypes
  <2> QED  BY <2>1, <2>2 DEF RunTypes, TypeInv, TypeOK
<1> DEFINE SameRun == UNCHANGED <<run, snap, result, ranAt>>
<1>4. ASSUME Rest, SameRun \/ endRun("off"), pc' \in Steps PROVE TypeInv'
  <2> HIDE DEF Times, NoTime
  <2> QED  BY <1>1, <1>4, NothingTypes DEF TypeInv, TypeOK, endRun
<1>5. CASE Tick
  <2>1. now' \in Times
    BY <1>1, <1>5, ConstantsAssumption DEF Tick
  <2> HIDE DEF Times, NoTime
  <2> QED  BY <1>1, <1>4, <1>5, <2>1 DEF Tick, resource, history
<1> HIDE DEF Times
<1>6. CASE TimerFires
  BY <1>1, <1>4, <1>6 DEF TimerFires, resource, history
<1>7. CASE Crash
  <2>1. used' \in Counts
    BY <1>1, <1>7 DEF Crash, Counts
  <2>2. pc' = "off" /\ endRun("off")
    BY <1>7 DEF Crash, endRun
  <2> QED  BY <1>1, <1>4, <1>7, <2>1, <2>2 DEF Crash, resource, Steps
<1>8. CASE Restart
  BY <1>1, <1>4, <1>8 DEF Restart, history, Steps
<1>9. CASE EditSpec
  <2>1. used' \in Counts
    BY <1>1, <1>9 DEF EditSpec, Counts
  <2>2. spec' \in Specs
    <3>1. PICK s \in BOOLEAN, c \in Configs, d \in Scheduled, e \in Expirations :
            spec' = [gen |-> spec.gen + 1, suspend |-> s, config |-> c, sched |-> d, expires |-> e]
      BY <1>9 DEF EditSpec
    <3>2. spec.gen + 1 \in Nat
      BY <1>1
    <3> QED  BY <3>1, <3>2 DEF Specs
  <2> QED  BY <1>1, <1>4, <1>9, <2>1, <2>2 DEF EditSpec, Enqueued, history
<1>10. CASE Annotate
  <2>1. used' \in Counts /\ request' \in Nat
    BY <1>1, <1>10 DEF Annotate, Counts
  <2> QED  BY <1>1, <1>4, <1>10, <2>1 DEF Annotate, Enqueued, history
<1>11. CASE TriggerApplies \/ TriggerDeleted \/ TriggerCreated
  <2>1. used' \in Counts /\ trigger' \in Triggers
    BY <1>1, <1>11 DEF TriggerApplies, TriggerDeleted, TriggerCreated, Counts, Triggers, NoTrigger
  <2> QED  BY <1>1, <1>4, <1>11, <2>1
           DEF TriggerApplies, TriggerDeleted, TriggerCreated, TriggerMoves, history
<1>12. CASE InformerDelivers
  BY <1>1, <1>4, <1>12 DEF InformerDelivers, history
<1>13. CASE UNCHANGED vars
  BY <1>1, <1>4, <1>13 DEF vars, resource, history
<1> QED  BY <1>3, <1>5, <1>6, <1>7, <1>8, <1>9, <1>10, <1>11, <1>12, <1>13 DEF Next

\* Type correctness of every reachable state.
THEOREM TypeCorrect == Spec => []TypeOK
<1>1. Init => TypeInv  BY InitTypes
<1>2. TypeInv /\ [Next]_vars => TypeInv'  BY NextTypes
<1>3. TypeInv => TypeOK  BY DEF TypeInv
<1> QED  BY <1>1, <1>2, <1>3, PTL DEF Spec

-----------------------------------------------------------------------------
(* Watermarks.                                                             *)

\* The request and the trigger state that a scan could have seen.
Seen(req, trg, scan) == req <= scan.request /\ trg.rev <= scan.applies /\ trg.uid <= scan.uid

\* What a scan made now would see.
Present == [applies |-> used.applies, uid |-> used.creations, request |-> used.requests]

\* The scan that the next status write publishes, or the one that stands.
Published == IF reportOf = "run" THEN ranAt ELSE covered

\* The recorded slot had passed when the last scan succeeded.
SlotIsPast(st) == st.slot <= st.success /\ st.success <= now

Working == pc \in {"open", "scan", "store", "write"}

\* Every observation was made before the scan that commits it, and what is
\* written belongs to the scan that is published with it.
SeenInv ==
  /\ Seen(request, trigger, Present)
  /\ pc \in {"open", "scan"} => Seen(snap.request, snap.trigger, Present)
  /\ pc = "store" => Seen(snap.request, snap.trigger, ranAt)
  /\ Seen(status.request, status.trigger, covered)
  /\ Working => Seen(run.status.request, run.status.trigger, Published)
  /\ reportOf = "run" => pc = "write"
  /\ SlotIsPast(status)
  /\ Working => SlotIsPast(run.status)

\* A run that does not commit keeps the watermarks.
SameMarks(old, new) ==
  new.request = old.request /\ new.trigger = old.trigger /\ new.slot = old.slot
  /\ new.success = old.success

LEMMA MarksOfConditions ==
  ASSUME NEW st \in Statuses, NEW g
  PROVE  /\ SameMarks(st, SetFirstVisit(st)) /\ SameMarks(st, SetScanning(st))
         /\ SameMarks(st, SetScanned(st, g)) /\ SameMarks(st, SetIdle(st, g))
         /\ SameMarks(st, SetRetrying(st)) /\ SameMarks(st, SetSuspended(st, g))
         /\ \A reason : SameMarks(st, SetStalled(st, g, reason))
         /\ SameMarks(st, closeAttempt(st))
         /\ \A a : SameMarks(st, [st EXCEPT !.attempt = a])
         /\ \A n : SameMarks(st, [st EXCEPT !.failed = n])
         /\ \A x : SameMarks(st, [st EXCEPT !.compliant = x])
  BY DEF SetFirstVisit, SetScanning, SetScanned, SetIdle, SetRetrying, SetSuspended,
         SetStalled, closeAttempt, SameMarks, Statuses

\* A run starts with the watermarks of the status it read.
LEMMA StartKeepsMarks ==
  ASSUME TypeInv, Start
  PROVE  SameMarks(status, run'.status)
<1> DEFINE sn == snapshot(spec, status, now)
           opened == [status EXCEPT !.attempt = [inputs |-> sn, done |-> FALSE]]
           closed == closeAttempt(status)
<1>1. status \in Statuses /\ spec.gen \in Nat
  BY DEF TypeInv, TypeOK, Specs
<1>2. opened \in Statuses /\ closed \in Statuses
  <2>1. sn \in Inputs
    BY SnapshotType
  <2> HIDE DEF sn, Times, NoTime
  <2>2. [inputs |-> sn, done |-> FALSE] \in Attempts
    BY <2>1 DEF Attempts
  <2> QED  BY <1>1, <2>2, AttemptTypes
<1>3. SameMarks(status, status) /\ SameMarks(status, opened) /\ SameMarks(status, closed)
      /\ SameMarks(status, SetFirstVisit(status))
  <2> HIDE DEF Times, NoTime
  <2> QED  BY <1>1, MarksOfConditions DEF SameMarks
<1>4. SameMarks(opened, SetScanning(opened)) /\ SameMarks(closed, SetSuspended(closed, spec.gen))
      /\ SameMarks(closed, SetStalled(closed, spec.gen, "Invalid"))
      /\ SameMarks(closed, SetIdle(closed, spec.gen))
  <2> HIDE DEF opened, closed
  <2> QED  BY <1>1, <1>2, MarksOfConditions
<1>5. run'.status \in {status, opened, closed, SetFirstVisit(status), SetScanning(opened),
                       SetSuspended(closed, spec.gen), SetStalled(closed, spec.gen, "Invalid"),
                       SetIdle(closed, spec.gen)}
  <2> HIDE DEF Times, NoTime, sn
  <2>1. \E st \in {status, opened, closed, SetFirstVisit(status), SetScanning(opened),
                  SetSuspended(closed, spec.gen), SetStalled(closed, spec.gen, "Invalid"),
                  SetIdle(closed, spec.gen)} : run' = NewRun(st)
    BY Zenon DEF Start, NewRun, sn
  <2> QED  BY <2>1 DEF NewRun
<1> HIDE DEF opened, closed
<1> QED  BY <1>3, <1>4, <1>5 DEF SameMarks

\* A failed scan keeps the watermarks.
LEMMA FailKeepsMarks ==
  ASSUME TypeInv
  PROVE  SameMarks(run.status, failedStatus)
         /\ SameMarks(run.status, SetStalled(closeAttempt(run.status), run.spec.gen, "Invalid"))
<1> DEFINE old == run.status
           more == [old EXCEPT !.failed = IF @ < MaxFailed THEN @ + 1 ELSE @]
           st == closeAttempt(more)
           late == SetStalled(st, run.spec.gen, "BackoffLimitExceeded")
<1>1. old \in Statuses /\ run.spec.gen \in Nat
  BY DEF TypeInv, TypeOK, Specs
<1> HIDE DEF Times, NoTime
<1>2. SameMarks(old, more)
  BY <1>1 DEF SameMarks, Statuses
<1>3. failedStatus \in {st, [late EXCEPT !.compliant = "Stale"], SetRetrying(st)}
  BY DEF failedStatus
<1>4. SameMarks(more, st)
  BY DEF SameMarks, closeAttempt
<1>5. SameMarks(st, SetRetrying(st)) /\ SameMarks(st, [late EXCEPT !.compliant = "Stale"])
  BY DEF SameMarks, SetRetrying, SetStalled
<1>6. SameMarks(old, SetStalled(closeAttempt(old), run.spec.gen, "Invalid"))
  <2>1. closeAttempt(old) \in Statuses
    BY <1>1, AttemptTypes
  <2> QED  BY <1>1, <2>1, MarksOfConditions DEF SameMarks
<1> HIDE DEF st, more, late
<1>7. SameMarks(old, failedStatus)
  BY <1>2, <1>3, <1>4, <1>5 DEF SameMarks
<1> QED  BY <1>6, <1>7

\* A commit covers what its snapshot saw, and a slot that has passed.
LEMMA CommitMarks ==
  ASSUME TypeInv, SlotIsPast(run.status)
  PROVE  LET new == SetScanned(committed, run.spec.gen)
         IN  new.request = snap.request /\ new.trigger = snap.trigger /\ SlotIsPast(new)
<1> DEFINE slot == latestSlotAtOrBefore(anchor(run.status), now)
           old == closeAttempt(run.status)
           new == SetScanned(committed, run.spec.gen)
<1>1. old \in Statuses /\ run.status \in Statuses /\ committed \in Statuses /\ now \in Times
      /\ run.spec.gen \in Nat
  BY AttemptTypes, CommitTypes DEF TypeInv, TypeOK, Specs
<1>2. slot \in Times \cup {NoTime} /\ slot <= now /\ now \in Int
  BY <1>1, SlotHasPassed, ConstantsAssumption
<1>3. old.slot <= now
  <2>1. old.slot = run.status.slot
    BY <1>1, MarksOfConditions DEF SameMarks
  <2>2. run.status.slot \in Int /\ run.status.success \in Int
    BY <1>1, ConstantsAssumption DEF Statuses
  <2> QED  BY <1>2, <2>1, <2>2 DEF SlotIsPast
<1>4. SameMarks(committed, new)
  BY <1>1, MarksOfConditions
<1>5. committed.request = snap.request /\ committed.trigger = snap.trigger
      /\ committed.success = now
      /\ committed.slot = (IF ~run.spec.sched THEN NoTime
                           ELSE IF slot # NoTime THEN slot ELSE old.slot)
  <2> HIDE DEF Times, NoTime
  <2> QED  BY <1>1 DEF committed, Statuses
<1>6. committed.slot <= now /\ now <= now
  <2>1. NoTime <= now
    BY <1>1, ConstantsAssumption
  <2> HIDE DEF slot, old
  <2> QED  BY <1>2, <1>3, <1>5, <2>1
<1> HIDE DEF new
<1>7. new.request = snap.request /\ new.trigger = snap.trigger /\ SlotIsPast(new)
  BY <1>4, <1>5, <1>6 DEF SameMarks, SlotIsPast
<1> QED  BY <1>7 DEF new

\* What is present when a run starts has been applied or requested before it.
LEMMA SnapshotIsSeen ==
  ASSUME TypeInv, SeenInv
  PROVE  Seen(snapshot(spec, status, now).request, snapshot(spec, status, now).trigger, Present)
<1>1. /\ snapshot(spec, status, now).request = request
      /\ snapshot(spec, status, now).trigger = observed
  BY DEF snapshot
<1>2. used \in Counts
  BY DEF TypeInv
<1>3. 0 <= used.applies /\ 0 <= used.creations
  BY <1>2 DEF Counts
<1> QED  BY <1>1, <1>3 DEF SeenInv, Seen, Present, observed, NoTrigger

\* The invariant holds after a step of the worker.
LEMMA SeenWorker ==
  ASSUME TypeInv, SeenInv, Worker
  PROVE  SeenInv'
<1> USE DEF SeenInv, Seen, Present, Published, SlotIsPast, Working
<1>1. /\ status \in Statuses /\ run.status \in Statuses /\ used \in Counts
      /\ snap \in Inputs /\ spec.gen \in Nat /\ run.spec.gen \in Nat
      /\ trigger \in Triggers /\ request \in Nat
      /\ \A st : [run EXCEPT !.status = st].status = st
  BY DEF TypeInv, TypeOK, Specs
<1>2. \A k : Fault(k) => /\ used'.requests = used.requests /\ used'.applies = used.applies
                         /\ used'.creations = used.creations
  BY <1>1 DEF Fault, Counts
<1> HIDE DEF Times, NoTime
<1>3. CASE Start
  <2>1. UNCHANGED <<request, trigger, status, covered, ranAt, reportOf, used, now>>
    BY <1>3 DEF Start, resource, history
  <2>2. SameMarks(status, run'.status)
    BY <1>3, StartKeepsMarks
  <2>3. pc' \in {"open", "write"} /\ reportOf # "run"
    BY <1>3 DEF Start
  <2>4. pc' = "open" => snap' = snapshot(spec, status, now)
    BY <1>3 DEF Start
  <2> HIDE DEF Start
  <2>5. Seen(request', trigger', Present')
    BY <2>1
  <2>6. pc' = "open" => Seen(snap'.request, snap'.trigger, Present')
    BY <2>1, <2>4, SnapshotIsSeen
  <2>7. Seen(run'.status.request, run'.status.trigger, covered')
    BY <2>1, <2>2 DEF SameMarks
  <2>8. SlotIsPast(status)' /\ SlotIsPast(run.status)'
    BY <2>1, <2>2 DEF SameMarks
  <2> QED  BY <2>1, <2>3, <2>5, <2>6, <2>7, <2>8
<1>4. CASE StartFails
  <2>1. /\ UNCHANGED <<request, trigger, status, covered, ranAt, reportOf, now>>
        /\ run'.status = status /\ pc' = "write" /\ pc = "idle"
    BY <1>4 DEF StartFails, resource, history
  <2>2. /\ used'.requests = used.requests /\ used'.applies = used.applies
        /\ used'.creations = used.creations
    BY <1>2, <1>4 DEF StartFails
  <2> QED  BY <2>1, <2>2
<1>5. CASE OpenAttempt
  <2>1. UNCHANGED <<request, trigger, covered, ranAt, reportOf, now, run, snap>>
        /\ pc' \in {"scan", "write"} /\ pc = "open" /\ status' \in {status, run.status}
    BY <1>5 DEF OpenAttempt, history
  <2>2. /\ used'.requests = used.requests /\ used'.applies = used.applies
        /\ used'.creations = used.creations
    BY <1>2, <1>5 DEF OpenAttempt
  <2> QED  BY <2>1, <2>2
<1>6. ASSUME NEW st, SameMarks(run.status, st), run'.status = st, pc' = "write",
             pc \in {"scan", "store"}, UNCHANGED <<request, trigger, status, covered, ranAt, reportOf, now>>,
             used'.requests = used.requests, used'.applies = used.applies,
             used'.creations = used.creations
      PROVE  SeenInv'
  BY <1>6 DEF SameMarks
<1>7. CASE Scan
  <2>1. /\ UNCHANGED <<request, trigger, status, covered, reportOf, now, snap>> /\ pc = "scan"
    BY <1>7 DEF Scan, resource
  <2>2. /\ used'.requests = used.requests /\ used'.applies = used.applies
        /\ used'.creations = used.creations
    BY <1>2, <1>7 DEF Scan
  <2>3. CASE pc' = "write"
    <3>1. UNCHANGED ranAt /\ run'.status \in
            {failedStatus, SetStalled(closeAttempt(run.status), run.spec.gen, "Invalid")}
      BY <1>1, <1>7, <2>3 DEF Scan, fail, finish
    <3> QED  BY <1>6, <2>1, <2>2, <2>3, <3>1, FailKeepsMarks
  <2>4. CASE pc' = "store"
    <3>1. UNCHANGED run /\ ranAt' = [applies |-> used.applies, uid |-> used.creations,
                     request |-> used.requests, at |-> now, gen |-> run.spec.gen]
      BY <1>7, <2>4 DEF Scan, fail, finish
    <3> QED  BY <2>1, <2>2, <2>4, <3>1
  <2>5. pc' \in {"write", "store"}
    BY <1>7 DEF Scan, fail, finish
  <2> QED  BY <2>3, <2>4, <2>5
<1>8. CASE StoreReport
  <2>1. /\ UNCHANGED <<request, trigger, status, covered, ranAt, now, snap>> /\ pc = "store"
        /\ pc' = "write"
    BY <1>8 DEF StoreReport, resource, fail, finish
  <2>2. /\ used'.requests = used.requests /\ used'.applies = used.applies
        /\ used'.creations = used.creations
    BY <1>2, <1>8 DEF StoreReport
  <2>3. CASE reportOf' = "run"
    <3>1. run'.status = SetScanned(committed, run.spec.gen)
      BY <1>1, <1>8, <2>1, <2>3 DEF StoreReport, finish, SeenInv
    <3> DEFINE new == SetScanned(committed, run.spec.gen)
    <3>2. new.request = snap.request /\ new.trigger = snap.trigger /\ new.slot <= new.success
          /\ new.success <= now
      BY <2>1, CommitMarks
    <3> HIDE DEF new
    <3>3. run'.status = new
      BY <3>1 DEF new
    <3> QED  BY <2>1, <2>2, <2>3, <3>2, <3>3
  <2>4. CASE reportOf' # "run"
    <3>1. run'.status = failedStatus /\ UNCHANGED reportOf
      BY <1>1, <1>8, <2>4 DEF StoreReport, fail, finish
    <3> QED  BY <1>6, <2>1, <2>2, <3>1, FailKeepsMarks
  <2> QED  BY <2>3, <2>4
<1>9. CASE WriteStatus
  <2>1. UNCHANGED <<request, trigger, now>> /\ pc = "write" /\ pc' = "idle" /\ reportOf' # "run"
    BY <1>9 DEF WriteStatus, endRun
  <2>2. /\ used'.requests = used.requests /\ used'.applies = used.applies
        /\ used'.creations = used.creations
    BY <1>2, <1>9 DEF WriteStatus
  <2>3. \/ status' = run.status /\ covered' = Published
        \/ UNCHANGED <<status, covered>>
    BY <1>9 DEF WriteStatus
  <2> QED  BY <2>1, <2>2, <2>3
<1> QED  BY <1>3, <1>4, <1>5, <1>7, <1>8, <1>9 DEF Worker

LEMMA SeenNext == TypeInv /\ SeenInv /\ [Next]_vars => SeenInv'
<1> SUFFICES ASSUME TypeInv, SeenInv, [Next]_vars PROVE SeenInv'
  OBVIOUS
<1> USE DEF SeenInv, Seen, Present, Published, SlotIsPast, Working
<1>1. /\ status \in Statuses /\ run.status \in Statuses /\ used \in Counts
      /\ snap \in Inputs /\ trigger \in Triggers /\ request \in Nat /\ now \in Int
      /\ status.success \in Int /\ run.status.success \in Int
  BY ConstantsAssumption DEF TypeInv, TypeOK, Statuses
<1>2. CASE Worker
  BY <1>2, SeenWorker
<1>3. CASE Tick
  <2>1. now' = now + 1 /\ UNCHANGED <<request, trigger, status, pc, run, snap, ranAt, covered,
                                     reportOf, used>>
    BY <1>3 DEF Tick, resource, history
  <2> QED  BY <1>1, <2>1
<1> HIDE DEF Times, NoTime
<1>4. CASE TimerFires \/ Restart \/ EditSpec \/ InformerDelivers \/ UNCHANGED vars
  <2>1. /\ UNCHANGED <<request, trigger, status, run, snap, ranAt, covered, reportOf, now>>
        /\ used'.requests = used.requests /\ used'.applies = used.applies
        /\ used'.creations = used.creations /\ (pc' = pc \/ (pc' = "idle" /\ pc = "off"))
    BY <1>1, <1>4 DEF TimerFires, Restart, EditSpec, InformerDelivers, Enqueued, vars, resource,
                      history, Counts
  <2> QED  BY <2>1
<1>5. CASE Crash
  <2>1. /\ UNCHANGED <<request, trigger, status, covered, now>> /\ pc' = "off"
        /\ used'.requests = used.requests /\ used'.applies = used.applies
        /\ used'.creations = used.creations /\ reportOf' # "run"
    BY <1>1, <1>5 DEF Crash, endRun, resource, Counts
  <2> QED  BY <2>1
<1>6. CASE Annotate
  <2>1. /\ UNCHANGED <<trigger, status, run, snap, ranAt, covered, reportOf, now, pc>>
        /\ used'.requests >= used.requests /\ used'.applies = used.applies
        /\ used'.creations = used.creations /\ request' <= used'.requests
        /\ used.requests \in Nat /\ used'.requests \in Nat
    BY <1>1, <1>6 DEF Annotate, Enqueued, history, Counts
  <2>2. snap.request \in Nat
    BY <1>1 DEF Inputs
  <2> QED  BY <1>1, <2>1, <2>2
<1>7. CASE TriggerApplies \/ TriggerDeleted \/ TriggerCreated
  <2>1. /\ UNCHANGED <<request, status, run, snap, ranAt, covered, reportOf, now, pc>>
        /\ used'.requests = used.requests /\ used'.applies >= used.applies
        /\ used'.creations >= used.creations
        /\ trigger'.rev <= used'.applies /\ trigger'.uid <= used'.creations
    BY <1>1, <1>7 DEF TriggerApplies, TriggerDeleted, TriggerCreated, TriggerMoves, history,
                      Counts, Triggers, NoTrigger
  <2>2. used.applies \in Nat /\ used.creations \in Nat /\ used'.applies \in Nat
        /\ used'.creations \in Nat
    BY <1>1, <1>7 DEF TriggerApplies, TriggerDeleted, TriggerCreated, Counts
  <2>3. snap.trigger.rev \in Nat /\ snap.trigger.uid \in Nat
    BY <1>1 DEF Inputs, Triggers
  <2> QED  BY <2>1, <2>2, <2>3
<1> QED  BY <1>2, <1>3, <1>4, <1>5, <1>6, <1>7 DEF Next

LEMMA SeenInit == Init => SeenInv
<1> SUFFICES ASSUME Init PROVE SeenInv
  OBVIOUS
<1>1. /\ request = 0 /\ trigger = [uid |-> 1, rev |-> 0] /\ status = NewStatus
      /\ covered = NoRanAt /\ pc = "idle" /\ reportOf = "status" /\ now = 0
      /\ used.requests = 0 /\ used.applies = 0 /\ used.creations = 1
  BY DEF Init
<1> QED  BY <1>1 DEF SeenInv, Seen, Present, SlotIsPast, Working, NewStatus, NoTrigger, NoRanAt

\* A watermark never covers what the last successful scan did not see, however
\* edits, requests, applies, failures and crashes fall between its steps.
THEOREM OnlySeenIsCovered == Spec => []NothingCoveredUnseen
<1>1. Init => TypeInv /\ SeenInv
  BY InitTypes, SeenInit
<1>2. TypeInv /\ SeenInv /\ [Next]_vars => (TypeInv /\ SeenInv)'
  BY NextTypes, SeenNext
<1>3. SeenInv => NothingCoveredUnseen
  BY DEF SeenInv, Seen, SlotIsPast, NothingCoveredUnseen
<1> QED  BY <1>1, <1>2, <1>3, PTL DEF Spec

-----------------------------------------------------------------------------
(* Ready.                                                                  *)

\* A status that claims the current generation stands on a scan of it; one that
\* calls it invalid does so because no scan of it is possible.
Claims(st, scan) ==
  /\ st.obsGen <= spec.gen
  /\ st.ready = "True" => st.stalled = "no"
  /\ st.obsGen = spec.gen /\ st.stalled = "Invalid" => spec.config = "invalid"
  /\ st.obsGen = spec.gen /\ st.stalled = "no" /\ ~spec.suspend
       => scan.gen = spec.gen /\ st.compliant = "Graded"

\* The run's copy of the spec is the current one, or one of an older generation.
Older(sp) == sp.gen <= spec.gen /\ (sp.gen = spec.gen => sp = spec)

ReadyInv ==
  /\ allowed
  /\ spec.gen >= 1
  /\ Claims(status, covered)
  /\ Working => /\ Claims(run.status, Published)
                /\ Older(run.spec) /\ run.status.obsGen <= run.spec.gen
  /\ pc \in {"open", "scan", "store"} => ~run.spec.suspend /\ run.spec.config # "invalid"
  /\ pc = "store" => ranAt.gen = run.spec.gen

\* A run starts with a status that claims no more than the one it read, or
\* with one of the generation it read.
LEMMA StartClaims ==
  ASSUME TypeInv, ReadyInv, Start
  PROVE  Claims(run'.status, covered) /\ run'.status.obsGen <= spec.gen
<1> DEFINE sn == snapshot(spec, status, now)
           opened == [status EXCEPT !.attempt = [inputs |-> sn, done |-> FALSE]]
           closed == closeAttempt(status)
<1>1. status \in Statuses /\ spec.gen \in Nat /\ Claims(status, covered) /\ status.obsGen \in Nat
      /\ allowed
  BY DEF TypeInv, TypeOK, Specs, Statuses, ReadyInv
<1> HIDE DEF Times, NoTime, sn
<1>3. Claims(opened, covered) /\ Claims(closed, covered) /\ Claims(SetFirstVisit(status), covered)
      /\ Claims(SetScanning(opened), covered)
  BY <1>1 DEF Claims, Statuses, closeAttempt, SetFirstVisit, SetScanning
<1>4. closed.stalled = status.stalled /\ closed.obsGen = status.obsGen
      /\ closed.compliant = status.compliant /\ closed.ready = status.ready
  BY <1>1 DEF Statuses, closeAttempt
<1>5. ASSUME spec.suspend PROVE Claims(SetSuspended(closed, spec.gen), covered)
  <2>1. closed \in Statuses
    BY <1>1, AttemptTypes
  <2> HIDE DEF closed
  <2> QED  BY <1>1, <1>4, <1>5, <2>1 DEF Claims, Statuses, SetSuspended
<1>6. ASSUME Invalid(spec) PROVE Claims(SetStalled(closed, spec.gen, "Invalid"), covered)
  <2>1. closed \in Statuses
    BY <1>1, AttemptTypes
  <2>2. spec.config = "invalid"
    BY <1>1, <1>6 DEF Invalid
  <2> HIDE DEF closed
  <2> QED  BY <1>1, <1>4, <2>1, <2>2 DEF Claims, Statuses, SetStalled
<1>7. ASSUME status.stalled = "no", ~Due(spec, status, sn), ~spec.suspend
      PROVE  Claims(SetIdle(closed, spec.gen), covered)
  <2>1. closed \in Statuses
    BY <1>1, AttemptTypes
  <2>2. status.obsGen = spec.gen
    BY <1>7 DEF Due
  <2> HIDE DEF closed
  <2> QED  BY <1>1, <1>4, <1>7, <2>1, <2>2 DEF Claims, Statuses, SetIdle, SetScanned
<1> HIDE DEF opened, closed
<1>8. \E st : run' = NewRun(st) /\ Claims(st, covered)
  <2>1. CASE ~status.visited
    <3>1. run' = NewRun(SetFirstVisit(status))
      BY <2>1, Zenon DEF Start, NewRun
    <3> QED  BY <1>3, <3>1
  <2>2. CASE spec.suspend /\ status.visited
    <3>1. run' = NewRun(SetSuspended(closed, spec.gen))
      BY <2>2, Zenon DEF Start, NewRun, closed
    <3> QED  BY <1>5, <2>2, <3>1
  <2>3. CASE ~spec.suspend /\ status.visited /\ Invalid(spec)
    <3>1. run' = NewRun(SetStalled(closed, spec.gen, "Invalid"))
      BY <2>3, Zenon DEF Start, NewRun, closed
    <3> QED  BY <1>6, <2>3, <3>1
  <2>4. CASE ~spec.suspend /\ status.visited /\ ~Invalid(spec)
    <3>1. CASE ~Due(spec, status, sn)
      <4>1. run' = NewRun(IF status.stalled = "no" THEN SetIdle(closed, spec.gen) ELSE closed)
        BY <2>4, <3>1, Zenon DEF Start, NewRun, closed, sn
      <4> QED  BY <1>3, <1>7, <2>4, <3>1, <4>1
    <3>2. CASE Due(spec, status, sn)
      <4>1. run' \in {NewRun(status), NewRun(opened), NewRun(SetScanning(opened))}
        BY <2>4, <3>2, Zenon DEF Start, NewRun, opened, sn
      <4> QED  BY <1>1, <1>3, <4>1
    <3> QED  BY <3>1, <3>2
  <2> QED  BY <2>1, <2>2, <2>3, <2>4
<1> QED  BY <1>8 DEF NewRun, Claims

\* A failed scan claims no more than before: only a stalled generation that can
\* be scanned is retried, and an exhausted one stays stalled.
LEMMA FailClaims ==
  ASSUME TypeInv, ReadyInv, NEW scan, Claims(run.status, scan), Older(run.spec),
         run.status.obsGen <= run.spec.gen, run.spec.config # "invalid"
  PROVE  Claims(failedStatus, scan) /\ failedStatus.obsGen <= run.spec.gen
<1> DEFINE old == run.status
           st == closeAttempt([old EXCEPT !.failed = IF @ < MaxFailed THEN @ + 1 ELSE @])
<1>1. old \in Statuses /\ run.spec.gen \in Nat /\ spec.gen \in Nat /\ old.obsGen \in Nat
  BY DEF TypeInv, TypeOK, Specs, Statuses
<1> HIDE DEF Times, NoTime
<1>2. st.stalled = old.stalled /\ st.obsGen = old.obsGen /\ st.compliant = old.compliant
      /\ st.ready = old.ready
  BY <1>1 DEF Statuses, closeAttempt
<1>3. /\ SetRetrying(st).ready = "False" /\ SetRetrying(st).stalled = "no"
      /\ SetRetrying(st).obsGen = old.obsGen /\ SetRetrying(st).compliant = old.compliant
  BY <1>1 DEF Statuses, closeAttempt, SetRetrying
<1> DEFINE late == [SetStalled(st, run.spec.gen, "BackoffLimitExceeded")
                    EXCEPT !.compliant = "Stale"]
<1>4. /\ late.ready = "False" /\ late.stalled = "BackoffLimitExceeded"
      /\ late.obsGen = run.spec.gen
  BY <1>1 DEF Statuses, closeAttempt, SetStalled
<1>5. \/ failedStatus = st
      \/ failedStatus = late
      \/ failedStatus = SetRetrying(st) /\ st.stalled # "BackoffLimitExceeded"
  BY Zenon DEF failedStatus
<1>6. old.stalled \in {"no", "Invalid", "BackoffLimitExceeded"}
  BY <1>1 DEF Statuses
<1>7. old.obsGen = spec.gen => old.stalled # "Invalid" \/ spec.config = "invalid"
  BY DEF Claims
<1> HIDE DEF st, late
<1>8. Claims(st, scan)
  BY <1>2 DEF Claims
<1>9. Claims(late, scan)
  BY <1>1, <1>4 DEF Claims, Older
<1> DEFINE again == SetRetrying(st)
<1>10. ASSUME st.stalled # "BackoffLimitExceeded" PROVE Claims(again, scan)
  <2> HIDE DEF again
  <2>1. again.ready = "False" /\ again.stalled = "no" /\ again.obsGen = old.obsGen
        /\ again.compliant = old.compliant
    BY <1>3 DEF again
  <2>2. CASE old.stalled = "no"
    BY <2>1, <2>2 DEF Claims
  <2>3. CASE old.stalled = "Invalid"
    <3>1. old.obsGen # spec.gen
      <4>1. SUFFICES ASSUME old.obsGen = spec.gen PROVE FALSE
        OBVIOUS
      <4>2. run.spec = spec /\ spec.config = "invalid"
        BY <1>1, <1>7, <2>3, <4>1 DEF Older
      <4> QED  BY <4>2
    <3> QED  BY <2>1, <3>1 DEF Claims
  <2> QED  BY <1>2, <1>6, <1>10, <2>2, <2>3
<1>11. failedStatus.obsGen <= run.spec.gen
  BY <1>1, <1>2, <1>3, <1>4, <1>5
<1> QED  BY <1>5, <1>8, <1>9, <1>10, <1>11

\* No generation is rejected by the scan itself, or by the flags of a new process.
NothingElseInvalid == "badConfig" \notin Configs /\ FlagMayChange = FALSE

LEMMA ReadyWorker ==
  ASSUME TypeInv, SeenInv, ReadyInv, Worker, NothingElseInvalid
  PROVE  ReadyInv'
<1> USE DEF ReadyInv, Published, Working
<1>1. /\ status \in Statuses /\ run.status \in Statuses /\ spec.gen \in Nat /\ run.spec.gen \in Nat
      /\ run.spec.config \in Configs
      /\ \A st : [run EXCEPT !.status = st].status = st /\ [run EXCEPT !.status = st].spec = run.spec
  BY DEF TypeInv, TypeOK, Specs
<1>2. reportOf = "run" => pc = "write"
  BY DEF SeenInv
<1> HIDE DEF Times, NoTime
<1>3. \A st, scan : UNCHANGED spec => (Claims(st, scan))' = Claims(st', scan')
  BY DEF Claims
<1>4. CASE Start
  <2>1. UNCHANGED <<spec, status, allowed, covered, ranAt, reportOf>> /\ reportOf # "run"
    BY <1>2, <1>4 DEF Start, resource, history
  <2>2. run'.spec = spec
    <3>1. \E st : run' = NewRun(st)
      BY <1>4, Zenon DEF Start, NewRun
    <3> QED  BY <3>1 DEF NewRun
  <2>3. pc' \in {"open", "write"} /\ (pc' = "open" => ~spec.suspend /\ ~Invalid(spec))
    BY <1>4 DEF Start
  <2>4. Claims(run'.status, covered) /\ run'.status.obsGen <= spec.gen
    BY <1>4, StartClaims
  <2> HIDE DEF Start
  <2> QED  BY <1>1, <2>1, <2>2, <2>3, <2>4 DEF Claims, Older, Invalid
<1>5. CASE StartFails
  <2>1. UNCHANGED <<spec, status, allowed, covered, ranAt, reportOf>> /\ reportOf # "run"
        /\ run'.spec = spec /\ run'.status = status /\ pc' = "write"
    BY <1>2, <1>5 DEF StartFails, resource, history
  <2> QED  BY <1>1, <2>1 DEF Claims, Older
<1>6. CASE OpenAttempt
  <2>1. UNCHANGED <<spec, allowed, covered, ranAt, reportOf, run>> /\ reportOf # "run"
        /\ pc' \in {"scan", "write"} /\ pc = "open" /\ status' \in {status, run.status}
    BY <1>2, <1>6 DEF OpenAttempt, history
  <2> QED  BY <2>1 DEF Claims, Older
<1>7. ASSUME UNCHANGED <<spec, status, allowed, covered, ranAt, reportOf>>, reportOf # "run",
             run'.status = failedStatus, run'.spec = run.spec, pc' = "write", pc \in {"scan", "store"}
      PROVE  ReadyInv'
  <2>1. Claims(failedStatus, covered) /\ failedStatus.obsGen <= run.spec.gen
    BY <1>7, FailClaims
  <2> QED  BY <1>7, <2>1 DEF Claims, Older
<1>8. CASE Scan
  <2>1. UNCHANGED <<spec, status, allowed, covered, reportOf>> /\ pc = "scan" /\ reportOf # "run"
    BY <1>2, <1>8 DEF Scan, resource
  <2>2. run.spec.config # "badConfig"
    BY <1>1 DEF NothingElseInvalid
  <2>3. \/ pc' = "store" /\ UNCHANGED run /\ ranAt'.gen = run.spec.gen
        \/ fail /\ UNCHANGED ranAt
    <3>1. CASE run.spec.config = "badConfig"
      BY <2>2, <3>1
    <3>2. CASE fail /\ UNCHANGED ranAt
      BY <3>2
    <3>3. CASE UNCHANGED run /\ pc' = "store"
               /\ ranAt' = [applies |-> used.applies, uid |-> used.creations,
                            request |-> used.requests, at |-> now, gen |-> run.spec.gen]
      BY <3>3
    <3> QED  BY <1>8, <3>1, <3>2, <3>3, Zenon DEF Scan
  <2>4. CASE pc' = "store" /\ UNCHANGED run /\ ranAt'.gen = run.spec.gen
    BY <2>1, <2>4 DEF Claims, Older
  <2>5. CASE fail /\ UNCHANGED ranAt
    BY <1>1, <1>7, <2>1, <2>5 DEF fail, finish
  <2> QED  BY <2>3, <2>4, <2>5
<1>9. CASE StoreReport
  <2>1. UNCHANGED <<spec, status, allowed, covered, ranAt>> /\ pc = "store" /\ reportOf # "run"
    BY <1>2, <1>9 DEF StoreReport, resource
  <2>2. CASE fail /\ UNCHANGED reportOf
    BY <1>1, <1>7, <2>1, <2>2 DEF fail, finish
  <2>3. CASE /\ reportOf' = "run" /\ run'.status = SetScanned(committed, run.spec.gen)
             /\ run'.spec = run.spec /\ pc' = "write"
    <3> DEFINE new == SetScanned(committed, run.spec.gen)
    <3>1. new.obsGen = run.spec.gen /\ new.ready = "True" /\ new.stalled = "no"
          /\ new.compliant = "Graded"
      <4>1. committed \in Statuses
        BY CommitTypes
      <4>2. committed.compliant = "Graded"
        BY <1>1, AttemptTypes DEF committed, Statuses
      <4> QED  BY <4>1, <4>2 DEF SetScanned, Statuses
    <3> HIDE DEF new
    <3>2. run'.status = new
      BY <2>3 DEF new
    <3> QED  BY <1>1, <2>1, <2>3, <3>1, <3>2 DEF Claims, Older
  <2>4. \/ fail /\ UNCHANGED reportOf
        \/ /\ reportOf' = "run" /\ run'.status = SetScanned(committed, run.spec.gen)
           /\ run'.spec = run.spec /\ pc' = "write"
    BY <1>1, <1>9 DEF StoreReport, finish
  <2> QED  BY <2>2, <2>3, <2>4
<1>10. CASE WriteStatus
  <2>1. UNCHANGED <<spec, allowed>> /\ pc = "write" /\ pc' = "idle" /\ reportOf' # "run"
    BY <1>10 DEF WriteStatus, endRun
  <2>2. \/ status' = run.status /\ covered' = Published
        \/ UNCHANGED <<status, covered>>
    BY <1>10 DEF WriteStatus
  <2> QED  BY <2>1, <2>2 DEF Claims
<1> QED  BY <1>4, <1>5, <1>6, <1>8, <1>9, <1>10 DEF Worker

LEMMA ReadyNext ==
  ASSUME NothingElseInvalid
  PROVE  TypeInv /\ SeenInv /\ ReadyInv /\ [Next]_vars => ReadyInv'
<1> SUFFICES ASSUME TypeInv, SeenInv, ReadyInv, [Next]_vars PROVE ReadyInv'
  OBVIOUS
<1> USE DEF ReadyInv, Published, Working
<1>1. /\ status \in Statuses /\ run.status \in Statuses /\ spec.gen \in Nat /\ run.spec.gen \in Nat
      /\ status.obsGen \in Nat /\ run.status.obsGen \in Nat
  BY DEF TypeInv, TypeOK, Specs, Statuses
<1>2. reportOf = "run" => pc = "write"
  BY DEF SeenInv
<1>3. CASE Worker
  BY <1>3, ReadyWorker
<1> HIDE DEF Times, NoTime
<1>4. CASE \/ Tick \/ TimerFires \/ Annotate \/ TriggerApplies \/ TriggerDeleted \/ TriggerCreated
           \/ InformerDelivers \/ UNCHANGED vars
  <2>1. UNCHANGED <<spec, status, allowed, pc, run, ranAt, covered, reportOf>>
    BY <1>4 DEF Tick, TimerFires, Annotate, TriggerApplies, TriggerDeleted, TriggerCreated,
                TriggerMoves, InformerDelivers, Enqueued, vars, resource, history
  <2> QED  BY <2>1 DEF Claims, Older
<1>5. CASE Crash
  <2>1. UNCHANGED <<spec, status, allowed, covered>> /\ pc' = "off"
    BY <1>5 DEF Crash, endRun, resource
  <2> QED  BY <2>1 DEF Claims
<1>6. CASE Restart
  <2>1. UNCHANGED <<spec, status, covered>> /\ pc' = "idle" /\ allowed' = allowed
    BY <1>6 DEF Restart, history, NothingElseInvalid
  <2> QED  BY <2>1 DEF Claims
<1>7. CASE EditSpec
  <2>1. spec'.gen = spec.gen + 1
        /\ UNCHANGED <<status, allowed, pc, run, ranAt, covered, reportOf>>
    BY <1>7 DEF EditSpec, Enqueued, history
  <2> QED  BY <1>1, <2>1 DEF Claims, Older
<1> QED  BY <1>3, <1>4, <1>5, <1>6, <1>7 DEF Next

LEMMA ReadyInit == Init => ReadyInv
<1> SUFFICES ASSUME Init PROVE ReadyInv
  OBVIOUS
<1>1. spec.gen = 1 /\ status = NewStatus /\ pc = "idle" /\ allowed = TRUE
  BY DEF Init
<1> QED  BY <1>1 DEF ReadyInv, Claims, NewStatus, Working

\* Ready=True with a current observedGeneration stands on a successful scan of
\* that generation whose verdict still stands, through edits, requests,
\* failures and crashes, when only its spec can make a generation invalid.
THEOREM ReadyIsScanned == NothingElseInvalid => (Spec => []ReadyReflectsSpec)
<1> SUFFICES ASSUME NothingElseInvalid PROVE Spec => []ReadyReflectsSpec
  OBVIOUS
<1>1. Init => TypeInv /\ SeenInv /\ ReadyInv
  BY InitTypes, SeenInit, ReadyInit
<1>2. TypeInv /\ SeenInv /\ ReadyInv /\ [Next]_vars => (TypeInv /\ SeenInv /\ ReadyInv)'
  BY NextTypes, SeenNext, ReadyNext
<1>3. ReadyInv => ReadyReflectsSpec
  BY DEF ReadyInv, Claims, ReadyReflectsSpec
<1> QED  BY <1>1, <1>2, <1>3, PTL DEF Spec
=============================================================================
