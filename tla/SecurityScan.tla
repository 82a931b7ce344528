---------------------------- MODULE SecurityScan ----------------------------
(***************************************************************************)
(* The AtlasSecurityScan controller: one resource that scans a database on *)
(* a schedule, after the applies of a trigger resource, on request, and    *)
(* when a waiver lapses.  A run writes the status twice, when the attempt  *)
(* opens and when it ends, and stores the report in between.  What made    *)
(* the scan due is observed when it starts (the snapshot) and recorded in  *)
(* the status, as watermarks, only when it succeeds.                       *)
(*                                                                         *)
(* Time is a clock of coarse ticks; slots of the schedule are the          *)
(* multiples of Period.  A request is the number of the annotation value   *)
(* (0: no annotation).  The trigger resource may be deleted and created    *)
(* again; the informer that announces it may lag, and is asked whether it  *)
(* exists.  Reads of the scan resource itself are fresh.                   *)
(***************************************************************************)
EXTENDS Integers, FiniteSets, FiniteSetsExt

CONSTANTS
  Period,         \* Ticks between two slots.
  MaxSlotSteps,   \* maxSlotSteps: slots that are looked at one by one.
  BackoffLimit,   \* spec.backoffLimit
  Configs,        \* Subset of {"ok", "invalid", "badConfig", "custom"}, see Invalid.
  FlagMayChange,  \* A restart may change the operator's allowCustomConfig.
  Relists,        \* The informer may announce a replaced trigger as an update.
  Scheduled,      \* Subset of BOOLEAN: whether spec.schedule is set.
  Expirations,    \* Expiry times of the waiver; NoTime: there is none.
  FaultKinds,     \* Which calls may fail.
  MaxTime,        \* Bound: the last tick of the clock.
  MaxEdits,       \* Bound: edits of the spec and deletions of the trigger.
  MaxRequests,    \* Bound: scan requests.
  MaxApplies,     \* Bound: applies of the trigger.
  MaxFaults,      \* Bound: failed calls.
  MaxCrashes      \* Bound: crashes of the operator.

Times  == 0..MaxTime
NoTime == -1
MaxFailed == BackoffLimit + 1   \* The counter saturates here.

ASSUME ConstantsAssumption ==
  /\ Period \in Nat \ {0} /\ MaxSlotSteps \in Nat /\ BackoffLimit \in Nat
  /\ Configs # {} /\ Configs \subseteq {"ok", "invalid", "badConfig", "custom"}
  /\ FlagMayChange \in BOOLEAN /\ Relists \in BOOLEAN
  /\ Scheduled # {} /\ Scheduled \subseteq BOOLEAN
  /\ Expirations # {} /\ Expirations \subseteq Times \cup {NoTime}
  /\ MaxTime \in Nat /\ MaxEdits \in Nat /\ MaxRequests \in Nat
  /\ MaxApplies \in Nat /\ MaxFaults \in Nat /\ MaxCrashes \in Nat

VARIABLES
  spec,      \* The spec and generation of the resource.
  request,   \* Its annotation scan-requested-at.
  status,    \* Its status, in the API server.
  trigger,   \* The trigger resource: its uid (0: absent) and applied revision.
  known,     \* The trigger as the informer has it.
  allowed,   \* The operator's flag allowCustomConfig.
  now,       \* The clock.
  queued,    \* The resource is in the work queue.
  wakeAt,    \* When a delayed requeue fires, or NoTime.
  pc,        \* The worker: "off" when the operator is down.
  run,       \* The worker's copy of the resource.
  snap,      \* The snapshot of the run.
  result,    \* What Reconcile returns: an immediate requeue or a time.
  ranAt,     \* History: what was current when the CLI ran.
  covered,   \* History: ranAt of the last successful scan, and its generation.
  reportOf,  \* History: the scan that the report describes, see StoreReport.
  used       \* How much of each bound has been used.

vars == <<spec, request, status, trigger, known, allowed, now, queued, wakeAt, pc, run, snap,
          result, ranAt, covered, reportOf, used>>

resource == <<spec, request, status, trigger, known, allowed>>
history  == <<ranAt, covered, reportOf>>

-----------------------------------------------------------------------------
(* Values.                                                                 *)

Specs == [gen : Nat, suspend : BOOLEAN, config : Configs, sched : Scheduled,
          expires : Expirations]

Triggers  == [uid : Nat, rev : Nat]
NoTrigger == [uid |-> 0, rev |-> 0]

Inputs == [gen : Nat, request : Nat, trigger : Triggers,
           slot : Times \cup {NoTime}, waived : BOOLEAN]
NoInputs == [gen |-> 0, request |-> 0, trigger |-> NoTrigger, slot |-> NoTime, waived |-> FALSE]

Attempts == [inputs : Inputs, done : BOOLEAN]

\* The conditions Ready and Stalled, the last attempt and the watermarks.
Statuses ==
  [visited : BOOLEAN, compliant : {"NotScanned", "Graded", "Stale"}, ready : {"Unknown", "True", "False"},
   stalled : {"no", "Invalid", "BackoffLimitExceeded"}, obsGen : Nat,
   attempt : Attempts, failed : 0..MaxFailed, success : Times \cup {NoTime},
   request : Nat, trigger : Triggers, slot : Times \cup {NoTime}, waived : BOOLEAN]

NewStatus ==
  [visited |-> FALSE, compliant |-> "NotScanned", ready |-> "Unknown", stalled |-> "no", obsGen |-> 0,
   attempt |-> [inputs |-> NoInputs, done |-> TRUE], failed |-> 0,
   success |-> NoTime, request |-> 0, trigger |-> NoTrigger, slot |-> NoTime,
   waived |-> FALSE]

NoRun   == [spec |-> CHOOSE s \in [gen : {0}, suspend : {FALSE}, config : Configs,
                                   sched : Scheduled, expires : Expirations] : TRUE,
            status |-> NewStatus, start |-> 0]
NoRanAt == [applies |-> 0, uid |-> 0, request |-> 0, at |-> NoTime, gen |-> 0]

\* ctrl.Result: an error, or a short delay, requeues at once; at is RequeueAfter.
Results  == [again : BOOLEAN, at : Times \cup {NoTime}]
NoResult == [again |-> FALSE, at |-> NoTime]
Requeue  == [again |-> TRUE, at |-> NoTime]

Steps == {"off", "idle", "open", "scan", "store", "write"}

-----------------------------------------------------------------------------
(* The schedule and the waiver.                                            *)

slotsAfter(from) == {t \in Times : t % Period = 0 /\ t > from}

\* The last slot after from that is not after t, or NoTime.  When there are
\* more than MaxSlotSteps the walk ends and t itself is taken.
latestSlotAtOrBefore(from, t) ==
  LET s == {x \in slotsAfter(from) : x <= t}
  IN  CASE s = {} -> NoTime
        [] s # {} /\ Cardinality(s) <= MaxSlotSteps -> Max(s)
        [] OTHER -> t

\* The last covered slot, or before the first one the last success, or the
\* creation (time 0).
anchor(st) ==
  CASE st.slot # NoTime -> st.slot
    [] st.slot = NoTime /\ st.success # NoTime -> st.success
    [] OTHER -> 0

activeWaiver(sp, t) == sp.expires > t

\* The earliest of the next slot, the expiry of the waiver and the retry,
\* computed as of the time from and counted from t.  Past the horizon of the
\* clock there are no slots; a retry is never dropped.
wake(sp, from, t, retry) ==
  LET waits == {x - from : x \in (IF sp.sched THEN slotsAfter(from) ELSE {})}
                 \cup {x - from : x \in {y \in {sp.expires} : y > from}}
                 \cup (IF retry THEN {1} ELSE {})
  IN  IF waits = {} THEN NoResult ELSE [NoResult EXCEPT !.at = Min({t + Min(waits), MaxTime})]

\* Mutant: expiries before the completion of the scan are not looked for.
lapsedNever(sp, snp, t) == FALSE

\* The waiver lapsed while the scan ran.
lapsed(sp, snp, t) == snp.waived # activeWaiver(sp, t)

\* validate: what no scan can fix.  A custom atlas.hcl needs the operator's flag.
Invalid(sp) ==
  \/ sp.config = "invalid"
  \/ sp.config = "custom" /\ ~allowed

\* A trigger that the informer does not have is left out; otherwise its state
\* is read from the API server.
observed == IF known.uid = 0 THEN NoTrigger ELSE trigger

\* Everything that can make a scan due; its hash is the record itself.
snapshot(sp, st, t) ==
  [gen |-> sp.gen, request |-> request, trigger |-> observed,
   slot |-> IF sp.sched THEN latestSlotAtOrBefore(anchor(st), t) ELSE NoTime,
   waived |-> activeWaiver(sp, t)]

\* pendingTriggers: by uid and revision.
pendingTrigger(st, sn) == sn.trigger.uid # 0 /\ sn.trigger # st.trigger

\* Mutant: a new generation does not make a scan due.
DueNoSpec(sp, st, sn) ==
  \/ st.success = NoTime
  \/ sn.request # 0 /\ sn.request # st.request
  \/ pendingTrigger(st, sn)
  \/ sn.slot # NoTime /\ (st.slot = NoTime \/ sn.slot > st.slot)
  \/ sn.waived # st.waived

\* dueCheck: the scan is due for one of the five triggers.
Due(sp, st, sn) ==
  \/ st.success = NoTime \/ sp.gen # st.obsGen
  \/ sn.request # 0 /\ sn.request # st.request
  \/ pendingTrigger(st, sn)
  \/ sn.slot # NoTime /\ (st.slot = NoTime \/ sn.slot > st.slot)
  \/ sn.waived # st.waived

\* Mutant: an attempt that a crash interrupted counts too.
repeatedOpen(st, sn) ==
  st.stalled = "BackoffLimitExceeded" /\ st.attempt.inputs = sn

\* Once retries are exhausted, one finished attempt per distinct inputs.
repeated(st, sn) ==
  st.stalled = "BackoffLimitExceeded" /\ st.attempt.done /\ st.attempt.inputs = sn

-----------------------------------------------------------------------------
(* The conditions.                                                         *)

SetFirstVisit(st) == [st EXCEPT !.visited = TRUE]

SetScanning(st) == IF st.success = NoTime THEN [st EXCEPT !.ready = "Unknown"] ELSE st

SetScanned(st, gen) ==
  [st EXCEPT !.ready = "True", !.stalled = "no", !.obsGen = gen, !.failed = 0]

SetIdle(st, gen) == SetScanned(st, gen)

SetRetrying(st) == [st EXCEPT !.ready = "False", !.stalled = "no"]

\* Mutant: the reason is written as the status of Ready.
SetStalledReason(st, gen, reason) ==
  [st EXCEPT !.ready = reason, !.stalled = reason, !.obsGen = gen]

SetStalled(st, gen, reason) ==
  [st EXCEPT !.ready = "False", !.stalled = reason, !.obsGen = gen]

SetSuspended(st, gen) == [st EXCEPT !.stalled = "no", !.obsGen = gen]

closeAttempt(st) == [st EXCEPT !.attempt.done = TRUE]

Fault(k) ==
  /\ k \in FaultKinds
  /\ used.faults < MaxFaults
  /\ used' = [used EXCEPT !.faults = @ + 1]

-----------------------------------------------------------------------------
Init ==
  /\ spec \in [gen : {1}, suspend : {FALSE}, config : Configs \ {"invalid", "badConfig"},
               sched : Scheduled, expires : Expirations]
  /\ request = 0
  /\ status = NewStatus
  /\ trigger = [uid |-> 1, rev |-> 0] /\ known = trigger
  /\ allowed = TRUE
  /\ now = 0
  /\ queued = TRUE
  /\ wakeAt = NoTime
  /\ pc = "idle"
  /\ run = NoRun
  /\ snap = NoInputs
  /\ result = NoResult
  /\ ranAt = NoRanAt
  /\ covered = NoRanAt
  /\ reportOf = "status"
  /\ used = [edits |-> 0, requests |-> 0, applies |-> 0, creations |-> trigger.uid,
             faults |-> 0, crashes |-> 0]

-----------------------------------------------------------------------------
(* The worker.                                                             *)

\* The run ends with the given status and result; the deferred write follows.
finish(st, r) ==
  run' = [run EXCEPT !.status = st] /\ result' = r /\ pc' = "write"

triggerVanished == known.uid # 0 /\ trigger.uid = 0

\* Reconcile up to the first status write.  A suspended or invalid resource
\* gets no timer; when nothing is due an open attempt is closed; a stalled one
\* makes one finished attempt per distinct inputs.
Start ==
  LET sp == spec
      st == status
      sn == snapshot(sp, st, now)
      ends(s, r) == /\ run' = [spec |-> sp, status |-> s, start |-> now]
                    /\ result' = r /\ pc' = "write" /\ snap' = NoInputs
      opened == [st EXCEPT !.attempt = [inputs |-> sn, done |-> FALSE]]
      usable == st.visited /\ ~sp.suspend /\ ~Invalid(sp) /\ ~triggerVanished
  IN  /\ pc = "idle" /\ queued
      /\ queued' = FALSE
      /\ \/ ~st.visited /\ ends(SetFirstVisit(st), Requeue)
         \/ /\ st.visited /\ sp.suspend
            /\ ends(SetSuspended(closeAttempt(st), sp.gen), NoResult)
         \/ /\ st.visited /\ ~sp.suspend /\ Invalid(sp)
            /\ ends(SetStalled(closeAttempt(st), sp.gen, "Invalid"), NoResult)
         \/ /\ usable /\ ~Due(sp, st, sn)
            /\ ends(IF st.stalled = "no" THEN SetIdle(closeAttempt(st), sp.gen)
                    ELSE closeAttempt(st), wake(sp, now, now, FALSE))
         \/ /\ usable /\ Due(sp, st, sn) /\ repeated(st, sn)
            /\ ends(st, wake(sp, now, now, FALSE))
         \/ /\ usable /\ Due(sp, st, sn) /\ ~repeated(st, sn)
            /\ run' = [spec |-> sp, start |-> now, status |->
                         IF st.stalled = "no" /\ (st.success = NoTime \/ sp.gen # st.obsGen)
                         THEN SetScanning(opened) ELSE opened]
            /\ snap' = sn /\ pc' = "open" /\ result' = NoResult
      /\ UNCHANGED <<resource, now, wakeAt, history, used>>

\* snapshot may fail to read the trigger, or find that one the informer has is
\* gone: the error is returned.
StartFails ==
  /\ pc = "idle" /\ queued
  /\ \/ Fault("snapshot")
     \/ triggerVanished /\ UNCHANGED used
  /\ status.visited /\ ~spec.suspend /\ ~Invalid(spec)
  /\ run' = [spec |-> spec, status |-> status, start |-> now]
  /\ result' = Requeue /\ pc' = "write" /\ queued' = FALSE
  /\ UNCHANGED <<resource, now, wakeAt, snap, history>>

\* The attempt is recorded before the scan; an error is returned (and the
\* deferred write tries again).
OpenAttempt ==
  /\ pc = "open"
  /\ \/ status' = run.status /\ pc' = "scan" /\ UNCHANGED <<result, used>>
     \/ Fault("write") /\ pc' = "write" /\ result' = Requeue /\ UNCHANGED status
  /\ UNCHANGED <<spec, request, trigger, known, allowed, now, queued, wakeAt, run, snap, history>>

\* fail: retried until the limit; a stalled resource does not move.
failedStatus ==
  LET st == closeAttempt([run.status EXCEPT !.failed = IF @ < MaxFailed THEN @ + 1 ELSE @])
  IN  CASE st.stalled = "BackoffLimitExceeded" -> st
        [] st.stalled # "BackoffLimitExceeded" /\ BackoffLimit > 0 /\ st.failed > BackoffLimit ->
             [SetStalled(st, run.spec.gen, "BackoffLimitExceeded") EXCEPT !.compliant = "Stale"]
        [] OTHER -> SetRetrying(st)

fail ==
  finish(failedStatus,
         wake(run.spec, run.start, now, failedStatus.stalled = "no"))

\* extractData, login and `security scan`: the target is scanned as it is now,
\* the configuration is rejected for good (stall), or the call fails.
Scan ==
  /\ pc = "scan"
  /\ \/ /\ run.spec.config # "badConfig" /\ pc' = "store"
        /\ ranAt' = [applies |-> used.applies, uid |-> used.creations,
                     request |-> used.requests, at |-> now, gen |-> run.spec.gen]
        /\ UNCHANGED <<run, result, used>>
     \/ /\ run.spec.config = "badConfig" /\ UNCHANGED <<ranAt, used>>
        /\ finish(SetStalled(closeAttempt(run.status), run.spec.gen, "Invalid"),
                  wake(run.spec, run.start, now, FALSE))
     \/ Fault("scan") /\ fail /\ UNCHANGED ranAt
  /\ UNCHANGED <<resource, now, queued, wakeAt, snap, covered, reportOf>>

\* Mutant: the watermarks are read again when the scan ends.
committedFresh ==
  [closeAttempt(run.status) EXCEPT
     !.request = request, !.trigger = trigger, !.waived = snap.waived,
     !.success = now, !.compliant = "Graded",
     !.slot = IF run.spec.sched THEN latestSlotAtOrBefore(anchor(run.status), now) ELSE NoTime]

\* The watermarks come from the snapshot.  A slot that passed while the scan
\* ran is covered by it; without one the last slot stays.
committed ==
  LET slot == latestSlotAtOrBefore(anchor(run.status), now)
  IN  [closeAttempt(run.status) EXCEPT
         !.request = snap.request, !.trigger = snap.trigger,
         !.waived = snap.waived, !.success = now, !.compliant = "Graded",
         !.slot = IF ~run.spec.sched THEN NoTime
                  ELSE IF slot # NoTime THEN slot ELSE @]

\* storeReport, then everything the final status write will publish.  The
\* report is ahead of the status until that write.
StoreReport ==
  /\ pc = "store"
  /\ \/ /\ reportOf' = "run" /\ UNCHANGED used
        /\ finish(SetScanned(committed, run.spec.gen),
                  IF lapsed(run.spec, snap, now) THEN Requeue
                  ELSE wake(run.spec, now, now, FALSE))
     \/ Fault("store") /\ fail /\ UNCHANGED reportOf
  /\ UNCHANGED <<resource, now, queued, wakeAt, snap, ranAt, covered>>

endRun(step) ==
  pc' = step /\ run' = NoRun /\ snap' = NoInputs /\ result' = NoResult /\ ranAt' = NoRanAt

\* The delaying queue keeps one entry, the earliest.
earliest(times) == IF times \ {NoTime} = {} THEN NoTime ELSE Min(times \ {NoTime})

\* The deferred write; its error is returned, which requeues the resource.
WriteStatus ==
  /\ pc = "write"
  /\ \/ /\ status' = run.status /\ UNCHANGED used
        /\ queued' = (queued \/ result.again)
        /\ wakeAt' = earliest({wakeAt, result.at})
        /\ covered' = IF reportOf = "run" THEN ranAt ELSE covered
        /\ reportOf' = IF reportOf = "run" THEN "status" ELSE reportOf
     \/ /\ Fault("write") /\ queued' = TRUE
        /\ reportOf' = IF reportOf = "run" THEN "lost" ELSE reportOf
        /\ UNCHANGED <<status, wakeAt, covered>>
  /\ endRun("idle")
  /\ UNCHANGED <<spec, request, trigger, known, allowed, now>>

Worker == Start \/ StartFails \/ OpenAttempt \/ Scan \/ StoreReport \/ WriteStatus

-----------------------------------------------------------------------------
(* The clock, the work queue and the process.                              *)

Tick ==
  /\ now < MaxTime /\ now' = now + 1
  /\ UNCHANGED <<resource, queued, wakeAt, pc, run, snap, result, history, used>>

TimerFires ==
  /\ wakeAt # NoTime /\ wakeAt <= now
  /\ wakeAt' = NoTime /\ queued' = TRUE
  /\ UNCHANGED <<resource, now, pc, run, snap, result, history, used>>

Crash ==
  /\ pc # "off" /\ used.crashes < MaxCrashes
  /\ endRun("off") /\ queued' = FALSE /\ wakeAt' = NoTime
  /\ reportOf' = IF reportOf = "run" THEN "lost" ELSE reportOf
  /\ used' = [used EXCEPT !.crashes = @ + 1]
  /\ UNCHANGED <<resource, now, covered>>

\* The flags of the new process may be others; its informers list everything.
Restart ==
  /\ pc = "off" /\ pc' = "idle" /\ queued' = TRUE
  /\ known' = trigger
  /\ allowed' \in (IF FlagMayChange THEN BOOLEAN ELSE {allowed})
  /\ UNCHANGED <<spec, request, status, trigger, now, wakeAt, run, snap, result, history, used>>

-----------------------------------------------------------------------------
(* The user: an edit or an annotation is an event that the predicates      *)
(* pass, so it enqueues the resource.                                      *)

Enqueued ==
  /\ queued' = (queued \/ pc # "off")
  /\ UNCHANGED <<status, trigger, known, allowed, now, wakeAt, pc, run, snap, result, history>>

\* Any edit is a new generation, also one of a field that is not told apart here
\* (the target, the policy).
EditSpec ==
  /\ used.edits < MaxEdits
  /\ used' = [used EXCEPT !.edits = @ + 1]
  /\ \E s \in BOOLEAN, c \in Configs, d \in Scheduled, e \in Expirations :
       spec' = [gen |-> spec.gen + 1, suspend |-> s, config |-> c, sched |-> d, expires |-> e]
  /\ UNCHANGED request
  /\ Enqueued

\* The annotation is set to a new value, or removed.
Annotate ==
  /\ \/ /\ used.requests < MaxRequests
        /\ request' = used.requests + 1
        /\ used' = [used EXCEPT !.requests = @ + 1]
     \/ request # 0 /\ request' = 0 /\ UNCHANGED used
  /\ UNCHANGED spec
  /\ Enqueued

-----------------------------------------------------------------------------
(* The trigger resource.  Its changes reach the operator by the informer.  *)

TriggerMoves ==
  UNCHANGED <<spec, request, status, known, allowed, now, queued, wakeAt, pc, run, snap,
              result, history>>

\* It applies a change.
TriggerApplies ==
  /\ trigger.uid # 0 /\ used.applies < MaxApplies
  /\ used' = [used EXCEPT !.applies = @ + 1]
  /\ trigger' = [trigger EXCEPT !.rev = used.applies + 1]
  /\ TriggerMoves

\* It is deleted.
TriggerDeleted ==
  /\ trigger.uid # 0 /\ used.edits < MaxEdits
  /\ used' = [used EXCEPT !.edits = @ + 1]
  /\ trigger' = NoTrigger
  /\ TriggerMoves

\* It is created (again), and has deployed nothing yet or the same as before.
TriggerCreated ==
  /\ trigger.uid = 0
  /\ used' = [used EXCEPT !.creations = @ + 1]
  /\ \E rev \in {0, used.applies} : trigger' = [uid |-> used.creations + 1, rev |-> rev]
  /\ TriggerMoves

\* revisionChanged: updates by revision, creations that carry one.
revisionChanged(old, new) ==
  IF new.uid = old.uid THEN new.rev # old.rev ELSE new.uid # 0 /\ new.rev # 0

\* The informer catches up.  A replaced trigger is a deletion and a creation, or
\* after a relist one update.
InformerDelivers ==
  /\ pc # "off" /\ known # trigger /\ known' = trigger
  /\ \/ queued' = (queued \/ revisionChanged(known, trigger))
     \/ /\ Relists /\ known.uid # 0 /\ trigger.uid # 0
        /\ queued' = (queued \/ known.rev # trigger.rev)
  /\ UNCHANGED <<spec, request, status, trigger, allowed, now, wakeAt, pc, run, snap, result,
                 history, used>>

Next ==
  \/ Worker \/ Tick \/ TimerFires \/ Crash \/ Restart
  \/ EditSpec \/ Annotate
  \/ TriggerApplies \/ TriggerDeleted \/ TriggerCreated \/ InformerDelivers

Spec == Init /\ [][Next]_vars

\* The worker, the queue and the informer keep going, time passes, and the
\* operator is restarted.  Nothing is assumed of users, triggers or failures.
Fairness ==
  WF_vars(Worker) /\ WF_vars(Tick) /\ WF_vars(TimerFires) /\ WF_vars(Restart)
  /\ WF_vars(InformerDelivers)

FairSpec == Spec /\ Fairness

-----------------------------------------------------------------------------
(* Properties.                                                             *)

\* Type invariant.
TypeOK ==
  /\ spec \in Specs /\ request \in Nat /\ status \in Statuses
  /\ trigger \in Triggers /\ known \in Triggers /\ allowed \in BOOLEAN /\ now \in Times
  /\ queued \in BOOLEAN /\ wakeAt \in Times \cup {NoTime}
  /\ pc \in Steps
  /\ run \in [spec : Specs, status : Statuses, start : Times]
  /\ snap \in Inputs
  /\ result \in Results
  /\ reportOf \in {"status", "run", "lost"}

\* A watermark never covers what the last successful scan did not see: the
\* recorded request and apply had been made when its CLI run looked at the
\* database, and its slot had passed when it completed.
NothingCoveredUnseen ==
  /\ status.request <= covered.request
  /\ status.trigger.rev <= covered.applies /\ status.trigger.uid <= covered.uid
  /\ status.slot <= status.success

\* Ready=True for the current generation means that the last successful scan was
\* one of this generation, and that its verdict still stands.
ReadyReflectsSpec ==
  status.ready = "True" /\ status.obsGen = spec.gen /\ ~spec.suspend
    => covered.gen = spec.gen /\ status.compliant = "Graded"

\* What is to be covered.  A trigger that is deleted, or has deployed nothing,
\* is not announced: the one that was observed before stands.
announced(old) ==
  [snapshot(spec, status, now) EXCEPT !.trigger = IF @.rev = 0 THEN old.trigger ELSE @]

\* No scan is due, or none can be made: the resource is suspended or invalid,
\* or has used up its retries and the one attempt its inputs earned.
Settled ==
  \/ spec.suspend \/ Invalid(spec) \/ spec.config = "badConfig"
  \/ known = trigger /\ ~Due(spec, status, announced(status))
  \/ /\ status.stalled = "BackoffLimitExceeded" /\ known = trigger
     /\ status.attempt.done
     /\ status.attempt.inputs = announced(status.attempt.inputs)

\* Every slot, apply, request, spec change and lapsed waiver is eventually
\* covered by a successful scan, whatever crashes, fails or changes meanwhile.
EverythingIsCovered == []<>Settled

AtRest == pc = "idle" /\ ~queued /\ wakeAt = NoTime

\* When nothing is going on, the report holds the findings of the last
\* successful scan, as reportRef says.
ReportIsOfLastScan == AtRest => reportOf = "status"

\* A generation that can be scanned is, or has used up its retries: a change of
\* the operator's flags needs no edit of the resource.
ValidIsScanned ==
  []<>(\/ spec.suspend \/ Invalid(spec) \/ spec.config = "badConfig"
       \/ covered.gen = spec.gen /\ status.stalled # "Invalid"
       \/ status.stalled = "BackoffLimitExceeded")

\* The slots up to the one that an attempt was due for.
slotsIn(inputs) == {t \in slotsAfter(0) : t <= inputs.slot}

\* Once retries are exhausted, a finished attempt is made again only when a
\* request, an apply, an edit, a waiver or a slot is new, and never because of
\* the time that passed.
AttemptIsEarned ==
  [][pc = "idle" /\ pc' = "open" /\ status.stalled = "BackoffLimitExceeded"
     /\ status.attempt.done
     => LET old == status.attempt.inputs
        IN  \/ [snap' EXCEPT !.slot = NoTime] # [old EXCEPT !.slot = NoTime]
            \/ slotsIn(snap') # slotsIn(old)]_vars
=============================================================================
