--------------------------- MODULE ResourceStatus ---------------------------
(***************************************************************************)
(* The status subresource that AtlasMigration and AtlasSchema share: the   *)
(* three conditions (Ready, Reconciling, Stalled), the failure counter and *)
(* the payload of the last successful deployment.  The two Go types define *)
(* the same methods; the operators below take the status and the           *)
(* generation of the resource and return the new status.                   *)
(***************************************************************************)
EXTENDS Integers

CONSTANT
  MaxFailed       \* Bound: the failure counter saturates here.

ASSUME MaxFailedAssumption == MaxFailed \in Nat \ {0}

\* Reasons that describe waiting, not failing (reason.go, isFailedReason).
WaitReasons == {"Reconciling", "GettingDevDB", "ApprovalPending"}

isFailedReason(reason) == reason \notin WaitReasons

\* No condition has been set yet: len(Status.Conditions) == 0.
NewStatus(payload) ==
  [visited     |-> FALSE,
   ready       |-> FALSE,
   reconciling |-> FALSE,
   stalled     |-> FALSE,
   reason      |-> "Reconciling",
   failed      |-> 0,
   obsGen      |-> 0,
   applied     |-> payload]

SetReconciling(st, gen) ==
  [st EXCEPT !.visited = TRUE, !.ready = FALSE, !.reconciling = TRUE,
             !.stalled = FALSE, !.reason = "Reconciling",
             !.failed = 0, !.obsGen = gen]

\* SetReady replaces the whole status by the given payload.
SetReady(payload, gen) ==
  [visited     |-> TRUE,
   ready       |-> TRUE,
   reconciling |-> FALSE,
   stalled     |-> FALSE,
   reason      |-> "Applied",
   failed      |-> 0,
   obsGen      |-> gen,
   applied     |-> payload]

IncrementFailed(n) == IF n < MaxFailed THEN n + 1 ELSE n

\* A failed reason stalls the resource and counts; a waiting one keeps the
\* counter and reports the resource as still reconciling.
SetNotReady(st, gen, reason) ==
  [st EXCEPT !.visited = TRUE, !.ready = FALSE,
             !.reconciling = ~isFailedReason(reason),
             !.stalled = isFailedReason(reason),
             !.reason = reason,
             !.failed = IF isFailedReason(reason) THEN IncrementFailed(@) ELSE @,
             !.obsGen = gen]

\* A limit of 0 never gives up.
IsExceedBackoffLimit(st, limit) == limit # 0 /\ st.failed > limit
=============================================================================
