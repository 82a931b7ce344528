--------------------------- MODULE ResourceWatcher ---------------------------
(***************************************************************************)
(* The map from a ConfigMap or Secret to the resources that refer to it.   *)
(* A resource registers at the end of each of its runs (watchRefs), after  *)
(* the object was read; an event of the object enqueues the resources that *)
(* are registered then.  The map lives in the process and is not guarded:  *)
(* workers of different resources and the informers use it at once.        *)
(***************************************************************************)
EXTENDS Naturals

CONSTANTS
  Objects,        \* The ConfigMaps (or Secrets).
  Dependents,     \* The resources of one controller.
  Unwatched,      \* Objects referred to by a field that watchRefs skips.
  MaxObjectChanges, \* Bound: changes of each object.
  MaxRefEdits,    \* Bound: edits of a reference.
  MaxRestarts     \* Bound: restarts of the operator.

VARIABLES
  watched,    \* The map of the watcher.
  version,    \* The version of each object, as the informer has it.
  ref,        \* The object each resource refers to.
  awaits,     \* The resources in the work queue.
  at,         \* Where the worker of each resource is.
  seen,       \* The object and the version its last (or current) run read.
  existing,   \* Watch: the registrations it has read.
  raced,      \* History: resources whose registration met another one.
  watchUsed   \* How much of each bound has been used.

vars == <<watched, version, ref, awaits, at, seen, existing, raced, watchUsed>>

Nothing == [object |-> "none", version |-> 0]
Sights  == {Nothing} \cup [object : Objects, version : Nat]

Init ==
  /\ watched = [o \in Objects |-> {}]
  /\ version = [o \in Objects |-> 0]
  /\ ref \in [Dependents -> Objects]
  /\ awaits = Dependents
  /\ at = [d \in Dependents |-> "idle"]
  /\ seen = [d \in Dependents |-> Nothing]
  /\ existing = [d \in Dependents |-> {}]
  /\ raced = {}
  /\ watchUsed = [edits |-> 0, restarts |-> 0]

-----------------------------------------------------------------------------
(* The runs.                                                               *)

\* Reconcile reads the resource and the object it refers to.
ReadRef(d) ==
  /\ at[d] = "idle" /\ d \in awaits
  /\ awaits' = awaits \ {d}
  /\ seen' = [seen EXCEPT ![d] = [object |-> ref[d], version |-> version[ref[d]]]]
  /\ at' = [at EXCEPT ![d] = "run"]
  /\ UNCHANGED <<watched, version, ref, existing, raced, watchUsed>>

\* Watch, up to the append; a resource that is registered returns.
BeginWatch(d) ==
  LET o == seen[d].object
      known == o \in Unwatched \/ d \in watched[o]
  IN  /\ at[d] = "run"
      /\ existing' = [existing EXCEPT ![d] = watched[o]]
      /\ at' = [at EXCEPT ![d] = IF known THEN "idle" ELSE "append"]
      /\ raced' = IF known THEN raced \ {d} ELSE raced
      /\ UNCHANGED <<watched, version, ref, awaits, seen, watchUsed>>

\* Mutant: the registrations made before are replaced.
EndWatchAlone(d) ==
  /\ at[d] = "append" /\ at' = [at EXCEPT ![d] = "idle"]
  /\ watched' = [watched EXCEPT ![seen[d].object] = {d}]
  /\ raced' = raced \ {d}
  /\ UNCHANGED <<version, ref, awaits, seen, existing, watchUsed>>

Appending(d) == {e \in Dependents \ {d} : at[e] = "append"}

\* The append and the assignment.  Two at once are a data race: the later one
\* drops what it had not read, and a write of the map may be lost altogether.
\* (The Go runtime may also notice and end the process: see OperatorRestarts.)
EndWatch(d) ==
  LET o == seen[d].object
      written == [watched EXCEPT ![o] = existing[d] \cup {d}]
  IN  /\ at[d] = "append" /\ at' = [at EXCEPT ![d] = "idle"]
      /\ IF Appending(d) = {}
         THEN watched' = written
         ELSE watched' \in {written, watched}
      /\ raced' = IF Appending(d) = {} /\ watched[o] \subseteq existing[d]
                  THEN raced \ {d}
                  ELSE raced \cup {d} \cup Appending(d) \cup (watched[o] \ existing[d])
      /\ UNCHANGED <<version, ref, awaits, seen, existing, watchUsed>>

-----------------------------------------------------------------------------
(* The informers and the process.                                          *)

\* Mutant: the handler reads the first registration only.
handleEventFirst(o) ==
  IF watched[o] = {} THEN awaits
  ELSE awaits \cup {CHOOSE d \in watched[o] : TRUE}

\* The queue after an event of the object: every registered resource is in it.
handleEvent(o) == awaits \cup watched[o]

\* Create, Update or Delete of the object reaches the operator.
ObjectChanges(o) ==
  /\ version[o] < MaxObjectChanges
  /\ version' = [version EXCEPT ![o] = @ + 1]
  /\ awaits' = handleEvent(o)
  /\ UNCHANGED <<watched, ref, at, seen, existing, raced, watchUsed>>

\* The informer replays an update of every object, every ten hours.
Resync ==
  /\ awaits' = UNION {handleEvent(o) : o \in Objects}
  /\ UNCHANGED <<watched, version, ref, at, seen, existing, raced, watchUsed>>

\* The resource is edited to refer to another object, which enqueues it.
RefEdited(d) ==
  /\ watchUsed.edits < MaxRefEdits
  /\ watchUsed' = [watchUsed EXCEPT !.edits = @ + 1]
  /\ \E o \in Objects \ {ref[d]} : ref' = [ref EXCEPT ![d] = o]
  /\ awaits' = awaits \cup {d}
  /\ UNCHANGED <<watched, version, at, seen, existing, raced>>

\* A crash, of which the race on the map is one cause.  Every registration is
\* forgotten and every resource is enqueued.
OperatorRestarts ==
  /\ watchUsed.restarts < MaxRestarts
  /\ watchUsed' = [watchUsed EXCEPT !.restarts = @ + 1]
  /\ watched' = [o \in Objects |-> {}] /\ awaits' = Dependents
  /\ at' = [d \in Dependents |-> "idle"]
  /\ UNCHANGED <<version, ref, seen, existing, raced>>

Worker(d) == ReadRef(d) \/ BeginWatch(d) \/ EndWatch(d)

Next ==
  \/ \E d \in Dependents : Worker(d) \/ RefEdited(d)
  \/ \E o \in Objects : ObjectChanges(o)
  \/ Resync \/ OperatorRestarts

Spec == Init /\ [][Next]_vars

\* Workers keep going and the informer resyncs; nothing is assumed of users.
Fairness == WF_vars(Resync) /\ \A d \in Dependents : WF_vars(Worker(d))
FairSpec == Spec /\ Fairness

\* Without the resync, which comes ten hours later.
PromptSpec == Spec /\ \A d \in Dependents : WF_vars(Worker(d))

-----------------------------------------------------------------------------
(* Properties.                                                             *)

\* A resource at rest is registered with the object it read last, unless its
\* registration met another one in the map.
RegisteredAtRest ==
  \A d \in Dependents :
    at[d] = "idle" /\ d \notin awaits \cup raced /\ seen[d].object \in Objects \ Unwatched
      => d \in watched[seen[d].object]

UpToDate(d) == seen[d] = [object |-> ref[d], version |-> version[ref[d]]]
Arrived(d) == UpToDate(d) \/ d \in raced \/ ref[d] \in Unwatched

\* Every change of an object reaches every resource that refers to it, also a
\* change between the read and the registration, an edited reference and a
\* restart, unless two registrations met.
EveryChangeArrives ==
  \A d \in Dependents : <>[]Arrived(d)

\* What the comments promise: a change of a watched object triggers a
\* reconciliation.
ChangesTrigger == \A d \in Dependents : <>[]UpToDate(d)
=============================================================================
