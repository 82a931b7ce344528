--------------------------- MODULE PendingTracker ---------------------------
(***************************************************************************)
(* How often an AtlasSchema asks whether its plan was approved.  Approval  *)
(* in Atlas Cloud sends no event to Kubernetes: the resource polls, with a *)
(* delay that pendingTracker derives from the time it has been waiting on  *)
(* the same plan.  A run that does not see the plan is retried after a     *)
(* delay of another kind, or not at all.  Time is in units of which Retry  *)
(* make retryDuration; a poll takes no time, and a timer that is due fires *)
(* before time passes.                                                     *)
(***************************************************************************)
EXTENDS Integers, FiniteSets, FiniteSetsExt

CONSTANTS
  Retry,         \* retryDuration
  MaxDelay,      \* maxPendingDuration
  BackoffLimit,  \* spec.backoffLimit; 0 is no limit.
  Horizon,       \* Bound: the last instant.
  MaxReplans,    \* Bound: plans that are replaced while they are pending.
  MaxEvents,     \* Bound: runs that something else than the timer starts.
  MaxErrors,     \* Bound: runs that do not see the plan.
  MaxRestarts    \* Bound: restarts of the operator.

\* Both durations are positive.
ConstantsOK ==
  /\ Retry \in Nat \ {0} /\ MaxDelay \in Nat \ {0} /\ Horizon \in Nat
  /\ BackoffLimit \in Nat

Never   == -1   \* No requeue is in the queue.
NoEntry == [key |-> 0, since |-> 0]

VARIABLES
  time,        \* The clock.
  entry,       \* The tracker's entry for the resource, or NoEntry.
  plan,        \* The pending plan in Atlas Cloud.
  approvedAt,  \* When it was approved, or -1.
  picked,      \* A run has seen the approval.
  next,        \* When the delayed requeue fires, or Never.
  reason,      \* The reason of the Ready condition.
  failedRuns,  \* status.failed
  polls,       \* History: polls by timer since the entry was made.
  waits,       \* History: the plan the last poll found and since when it is pending.
  late,        \* History: what runs that did not see the plan have added to its wait.
  trackUsed    \* How much of each bound has been used.

vars == <<time, entry, plan, approvedAt, picked, next, reason, failedRuns, polls, waits, late,
          trackUsed>>

approved == approvedAt # -1
spend(k, limit) ==
  trackUsed[k] < limit /\ trackUsed' = [trackUsed EXCEPT ![k] = @ + 1]

Init ==
  /\ time = 0 /\ entry = NoEntry /\ plan = 1 /\ approvedAt = -1 /\ picked = FALSE
  /\ next = 0 /\ reason = "Reconciling" /\ failedRuns = 0
  /\ polls = 0 /\ waits = NoEntry /\ late = 0
  /\ trackUsed = [replans |-> 0, events |-> 0, errors |-> 0, restarts |-> 0]

-----------------------------------------------------------------------------
(* The tracker.                                                            *)

\* The values of the loop that doubles the delay.
doubled(n) ==
  LET delay[k \in 0..n] == IF k = 0 THEN Retry ELSE 2 * delay[k - 1] IN delay[n]

\* The first value that is no less than what has elapsed, or than the cap.
firstDoubled(elapsed) ==
  Min({d \in {doubled(k) : k \in 0..MaxDelay} : d >= elapsed \/ d >= MaxDelay})

\* Mutant: the cap only ends the doubling.
requeueDelayUncapped(elapsed) == firstDoubled(elapsed)

requeueDelay(elapsed) == Min({firstDoubled(elapsed), MaxDelay})

\* Mutant: every poll makes a new entry.
waitingAnew(key) == [key |-> key, since |-> time]

\* The entry that delay leaves: a new one for a new plan.
waitingOn(key) ==
  IF entry # NoEntry /\ entry.key = key THEN entry ELSE [key |-> key, since |-> time]

-----------------------------------------------------------------------------
(* The runs.                                                               *)

Due == ~picked /\ next # Never /\ next <= time

\* A requeue after a delay; of two in the queue the earlier one counts.
requeueAfter(delay) ==
  IF Due \/ next = Never THEN time + delay ELSE Min({next, time + delay})

\* The plan is pending: its URL goes to the status, and is the tracker's key.
FindsPending(byTimer) ==
  LET e == waitingOn(plan)
  IN  /\ ~picked /\ ~approved
      /\ entry' = e /\ reason' = "ApprovalPending"
      /\ next' = requeueAfter(requeueDelay(time - e.since))
      /\ polls' = (IF entry # NoEntry /\ entry.key = plan THEN polls ELSE 0)
                  + (IF byTimer THEN 1 ELSE 0)
      /\ waits' = IF waits.key = plan THEN waits ELSE [key |-> plan, since |-> time]
      /\ late' = 0
      /\ UNCHANGED <<time, plan, approvedAt, picked, failedRuns>>

\* The approved plan is applied: the resource is ready and no longer tracked.
\* What becomes of an apply that fails is the subject of AtlasSchema.
PicksUp ==
  /\ ~picked /\ approved
  /\ picked' = TRUE /\ entry' = NoEntry /\ next' = Never /\ reason' = "Applied"
  /\ UNCHANGED <<time, plan, approvedAt, failedRuns, polls, waits, late>>

\* A run ends before it has looked at the plan.  The reason is no longer
\* ApprovalPending, so the resource is forgotten.
EndsEarly(why) ==
  /\ ~picked /\ spend("errors", MaxErrors)
  /\ reason' = why /\ entry' = NoEntry /\ polls' = 0
  /\ UNCHANGED <<time, plan, approvedAt, picked, waits>>

\* What a plan waits for is extended by the delay, unless a requeue that is
\* already in the queue comes first.  Where none was left it starts over.
Requeues(delay) ==
  /\ next' = requeueAfter(delay)
  /\ late' = IF ~Due /\ next # Never THEN late
             ELSE delay + (IF ~approved THEN 0
                           ELSE IF next = Never THEN time - approvedAt ELSE late)

\* No requeue: one that is in the queue, of an earlier run, stays there.
GivesUp == next' = (IF Due THEN Never ELSE next) /\ late' = late

IsExceedBackoffLimit(n) == BackoffLimit > 0 /\ n > BackoffLimit

\* resultErr: a transient error.  It is retried after backoffDelayAt(failed), the
\* count of all failed runs since the resource was ready, up to the limit.
FailsEarly ==
  /\ EndsEarly("ReadSchema") /\ failedRuns' = failedRuns + 1
  /\ IF IsExceedBackoffLimit(failedRuns') THEN GivesUp ELSE Requeues(Retry * failedRuns')

\* resultCLIErr: the plans cannot be listed, or there are several.  The error is
\* not transient, so there is no retry, whatever the limit.
ListingFails ==
  EndsEarly("ListingPlans") /\ failedRuns' = failedRuns + 1 /\ GivesUp

\* resultPending: the dev database is not ready.  This is not a failed run.
DevDBNotReady ==
  EndsEarly("GettingDevDB") /\ failedRuns' = failedRuns /\ Requeues(Retry)

TimerRun == Due /\ (FindsPending(TRUE) \/ PicksUp) /\ UNCHANGED trackUsed

\* An edit, or a change of a referenced object, starts a run as well.
EventRun ==
  /\ ~Due /\ spend("events", MaxEvents)
  /\ FindsPending(FALSE) \/ PicksUp

\* The state is kept in memory, and every resource is enqueued at the start.
OperatorRestarts ==
  /\ ~picked /\ spend("restarts", MaxRestarts)
  /\ entry' = NoEntry /\ polls' = 0 /\ next' = time
  /\ late' = IF next = Never /\ approved THEN time - approvedAt ELSE late
  /\ UNCHANGED <<time, plan, approvedAt, picked, reason, failedRuns, waits>>

-----------------------------------------------------------------------------
(* Time and the reviewer.                                                  *)

Passes ==
  /\ time < Horizon /\ (next = Never \/ next > time)
  /\ time' = time + 1
  /\ UNCHANGED <<entry, plan, approvedAt, picked, next, reason, failedRuns, polls, waits, late,
                 trackUsed>>

Approved ==
  /\ ~approved /\ waits # NoEntry /\ approvedAt' = time
  /\ UNCHANGED <<time, entry, plan, picked, next, reason, failedRuns, polls, waits, late,
                 trackUsed>>

\* The plan is replaced by one with another URL.
Replanned ==
  /\ ~approved /\ waits # NoEntry /\ spend("replans", MaxReplans) /\ plan' = plan + 1
  /\ UNCHANGED <<time, entry, approvedAt, picked, next, reason, failedRuns, polls, waits, late>>

Next ==
  \/ TimerRun \/ EventRun
  \/ FailsEarly \/ ListingFails \/ DevDBNotReady
  \/ OperatorRestarts \/ Passes \/ Approved \/ Replanned

Spec == Init /\ [][Next]_vars

-----------------------------------------------------------------------------
(* Properties.                                                             *)

\* The longest delay of a plan that has been pending for so long.
longestDelay(elapsed) == Min({MaxDelay, Max({Retry, 2 * elapsed})})

\* The last run was not retried: the plans could not be listed, or the limit was
\* exceeded.
gaveUp ==
  \/ reason = "ListingPlans"
  \/ reason = "ReadSchema" /\ IsExceedBackoffLimit(failedRuns)

\* Unless the operator gave up on the resource, and until something starts it
\* again, an approved plan is picked up within MaxDelay, the longest a user waits,
\* and within twice the time the plan had been waiting for its approval.  Runs that
\* did not see the plan add their delays, also one that was waited out when it was
\* approved; those that gave up, the time until the resource was started again.
PickedUpInTime ==
  approved /\ ~picked =>
    IF next = Never THEN gaveUp
    ELSE time - approvedAt <= late + longestDelay(approvedAt - waits.since)

\* The delays that a wait of so long has room for.
roomFor(elapsed) ==
  Cardinality({k \in 0..Horizon : doubled(k) <= Min({elapsed, MaxDelay})}) + elapsed \div MaxDelay

\* Polling is cheap: their number grows with the logarithm of the time on one
\* plan, and once the delay has reached its cap by one in each MaxDelay.
PollsAreFew ==
  entry # NoEntry => polls <= 1 + roomFor(time - entry.since)
=============================================================================
