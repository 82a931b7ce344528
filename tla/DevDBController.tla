--------------------------- MODULE DevDBController ---------------------------
(***************************************************************************)
(* devDBReconciler with several owners.  The Deployment is named after its *)
(* owner without the owner's kind, so an AtlasSchema and an AtlasMigration *)
(* of one name share it.  devURL and cleanUp are sequences of requests:    *)
(* the Deployment is read from the informer's cache, an Update of an       *)
(* outdated copy conflicts, pods are listed in a call of their own, and    *)
(* the CLI uses the URL until the run ends.                                *)
(***************************************************************************)
EXTENDS Integers, FiniteSets

CONSTANTS
  Owners,       \* The resources of one name.
  Lazy,         \* Those that ask only when they have changes (AtlasMigration).
  MayPrewarm,   \* Those that may be set to keep it warm (prewarmDevDB).
  Foreign,      \* Those whose target is of another engine.
  BackoffLimit, \* spec.backoffLimit of each.
  DevFaults,    \* Calls that may fail: "get", "update", "list", "delete".
  MaxDevFaults, \* Bound: failed calls.
  MaxChanges,   \* Bound: changes of what an owner has to do.
  MaxDeletions, \* Bound: deleted owners.
  MaxDevCrashes \* Bound: crashes of the operator.

NoOne == "no one"
engine(o) == IF o \in Foreign THEN "other" ELSE "usual"
Engines == {"usual", "other"}

ConstantsOK ==
  /\ Lazy \subseteq Owners /\ MayPrewarm \subseteq Owners /\ Foreign \subseteq Owners
  /\ NoOne \notin Owners /\ BackoffLimit \in Nat
  /\ {MaxDevFaults, MaxChanges, MaxDeletions, MaxDevCrashes} \subseteq Nat

VARIABLES
  deployment, \* The Deployment in the API server, replicas -1: none.
  pod,        \* Its pod: "none", "starting" or "ready".
  dying,      \* The engine of an earlier pod that still is listed as ready.
  cached,     \* The replicas of the informer's copy ...
  current,    \* ... and whether that copy is of the current version.
  prewarmed,  \* The owners with prewarmEnabled.
  alive,      \* The owners that have not been deleted.
  ready,      \* Those whose status says Ready.
  changes,    \* Those that have changes to deploy.
  requeued,   \* Those in the work queue, at once or after a delay.
  step,       \* Where the worker of each owner is.
  url,        \* The pod its URL names: "live", "dying" or "dead".
  failed,     \* status.failed of each.
  interrupted,\* History: owners whose database went away under the CLI.
  skipped,    \* History: the last clean-up that was called for did not happen.
  devUsed     \* How much of each bound has been used.

kubernetes == <<deployment, pod, dying, cached, current>>
resources  == <<prewarmed, alive, ready, changes, requeued, failed>>
workers    == <<step, url>>
devHistory == <<interrupted, skipped>>
vars == <<kubernetes, resources, workers, devHistory, devUsed>>

Absent == [replicas |-> -1, engine |-> "usual", owner |-> NoOne]

Fault(k) ==
  /\ k \in DevFaults /\ devUsed.faults < MaxDevFaults
  /\ devUsed' = [devUsed EXCEPT !.faults = @ + 1]

Init ==
  /\ deployment = Absent /\ pod = "none" /\ dying = "none"
  /\ cached = -1 /\ current = TRUE
  /\ prewarmed \in SUBSET MayPrewarm
  /\ alive = Owners /\ ready = {} /\ changes = Owners /\ requeued = Owners
  /\ step = [o \in Owners |-> "idle"] /\ url = [o \in Owners |-> "none"]
  /\ failed = [o \in Owners |-> 0]
  /\ interrupted = {} /\ skipped = FALSE
  /\ devUsed = [faults |-> 0, changes |-> 0, deletions |-> 0, crashes |-> 0]

-----------------------------------------------------------------------------
(* The pods, as Kubernetes runs them.                                      *)

\* The pod is replaced or removed: one that is ready is listed for a while.
PodStops(next) ==
  /\ pod' = next
  /\ dying' = IF pod = "ready" THEN deployment.engine ELSE dying
  /\ url' = [o \in Owners |-> IF url[o] = "live" THEN "dying" ELSE url[o]]

\* The status of the Deployment changes too, hence its version.
PodStarts ==
  /\ pod = "starting" /\ pod' = "ready" /\ current' = FALSE
  /\ UNCHANGED <<deployment, dying, cached, resources, workers, devHistory, devUsed>>

PodGone ==
  /\ dying # "none" /\ dying' = "none"
  /\ url' = [o \in Owners |-> IF url[o] = "dying" THEN "dead" ELSE url[o]]
  /\ UNCHANGED <<deployment, pod, cached, current, resources, step, devHistory, devUsed>>

\* The informer of Deployments catches up.
InformerDelivers ==
  /\ ~current /\ current' = TRUE /\ cached' = deployment.replicas
  /\ UNCHANGED <<deployment, pod, dying, resources, workers, devHistory, devUsed>>

-----------------------------------------------------------------------------
(* devURL.                                                                 *)

\* A run begins.  An AtlasMigration with nothing pending needs no database.
Runs(o) ==
  /\ step[o] = "idle" /\ o \in requeued \cap alive
  /\ o \in Lazy => o \in changes

\* resultPending: not ready, and asked again after retryDuration.  The run of an
\* owner that has been deleted finds nothing.
Waits(o) ==
  /\ ready' = ready \ {o} /\ requeued' = (requeued \cup {o}) \cap alive
  /\ step' = [step EXCEPT ![o] = "idle"]
  /\ UNCHANGED <<prewarmed, alive, changes, failed, devHistory>>

CreateDeployment(o) ==
  /\ Runs(o) /\ cached = -1 /\ Waits(o)
  /\ IF deployment = Absent
     THEN /\ deployment' = [replicas |-> 1, engine |-> engine(o), owner |-> o]
          /\ pod' = "starting" /\ current' = FALSE
     ELSE UNCHANGED <<deployment, pod, current>>   \* AlreadyExists
  /\ UNCHANGED <<dying, cached, url, devUsed>>

\* Mutant: a Deployment that was scaled down is taken for a running one.
ScaleUpNever(o) ==
  /\ Runs(o) /\ cached = 0 /\ Waits(o)
  /\ UNCHANGED <<kubernetes, url, devUsed>>

ScaleUp(o) ==
  /\ Runs(o) /\ cached = 0 /\ Waits(o)
  /\ \/ /\ current
        /\ deployment' = [deployment EXCEPT !.replicas = 1]
        /\ pod' = "starting" /\ current' = FALSE /\ UNCHANGED devUsed
     \/ /\ \/ ~current /\ UNCHANGED devUsed        \* Conflict
           \/ Fault("update")
        /\ UNCHANGED <<deployment, pod, current>>
  /\ UNCHANGED <<dying, cached, url>>

GetFails(o) ==
  /\ Runs(o) /\ Fault("get") /\ Waits(o)
  /\ UNCHANGED <<kubernetes, url>>

FindDeployment(o) ==
  /\ Runs(o) /\ cached = 1
  /\ requeued' = requeued \ {o} /\ step' = [step EXCEPT ![o] = "list"]
  /\ UNCHANGED <<kubernetes, prewarmed, alive, ready, changes, failed, url, devHistory, devUsed>>

\* readyPod: any listed pod of the engine whose condition says ready, also one
\* that is being deleted.
PodsFor(o) ==
  {u \in {"live", "dying"} :
     \/ u = "live"  /\ pod = "ready" /\ deployment.engine = engine(o)
     \/ u = "dying" /\ dying = engine(o)}

ListPods(o) ==
  /\ step[o] = "list"
  /\ \/ \E u \in PodsFor(o) :
          /\ url' = [url EXCEPT ![o] = u] /\ step' = [step EXCEPT ![o] = "use"]
          /\ UNCHANGED <<resources, devHistory, devUsed>>
     \/ PodsFor(o) = {} /\ Waits(o) /\ UNCHANGED <<url, devUsed>>
     \/ Fault("list") /\ Waits(o) /\ UNCHANGED url
  /\ UNCHANGED kubernetes

-----------------------------------------------------------------------------
(* The rest of the run: the CLI, the status, and cleanUp.                  *)

\* The run ends ready: its status is written before it cleans up.  A change
\* that came while it ran is left to the next run.
EndsReady(o) ==
  /\ ready' = ready \cup {o}
  /\ changes' = IF step[o] = "use" /\ o \in requeued THEN changes ELSE changes \ {o}
  /\ failed' = [failed EXCEPT ![o] = 0]
  /\ interrupted' = interrupted \ {o}
  /\ step' = [step EXCEPT ![o] = "clean"] /\ url' = [url EXCEPT ![o] = "none"]
  /\ UNCHANGED <<kubernetes, prewarmed, alive, skipped, devUsed>>

\* Mutant: a run that needed no database does not clean up.
NothingToDoKeeps(o) ==
  /\ step[o] = "idle" /\ o \in requeued \cap alive \cap Lazy /\ o \notin changes
  /\ requeued' = requeued \ {o} /\ ready' = ready \cup {o}
  /\ UNCHANGED <<kubernetes, prewarmed, alive, changes, failed, workers, devHistory, devUsed>>

NothingToDo(o) ==
  /\ step[o] = "idle" /\ o \in requeued \cap alive \cap Lazy /\ o \notin changes
  /\ requeued' = requeued \ {o}
  /\ EndsReady(o)

CLISucceeds(o) ==
  /\ step[o] = "use" /\ url[o] # "dead"
  /\ EndsReady(o) /\ UNCHANGED requeued

\* The database is gone.  AtlasMigration retries, AtlasSchema retries an
\* inspection (resultErr) and not an apply (resultCLIErr).
CLIFails(o) ==
  /\ step[o] = "use" /\ url[o] = "dead"
  /\ ready' = ready \ {o} /\ interrupted' = interrupted \cup {o}
  /\ failed' = [failed EXCEPT ![o] = IF @ > BackoffLimit THEN @ ELSE @ + 1]
  /\ \E retried \in (IF o \in Lazy THEN {TRUE} ELSE BOOLEAN) :
       requeued' = IF retried /\ failed'[o] <= BackoffLimit
                   THEN (requeued \cup {o}) \cap alive ELSE requeued
  /\ step' = [step EXCEPT ![o] = "idle"] /\ url' = [url EXCEPT ![o] = "none"]
  /\ UNCHANGED <<kubernetes, prewarmed, alive, changes, skipped, devUsed>>

\* Mutant: a server-side apply in place of the Update, which has no version to
\* conflict on and creates what is missing.
ScaleDownApplies(o) ==
  /\ o \notin prewarmed /\ UNCHANGED devUsed /\ skipped' = FALSE
  /\ IF cached = 1
     THEN deployment' = [deployment EXCEPT !.replicas = 0] /\ PodStops("none") /\ current' = FALSE
     ELSE UNCHANGED <<deployment, pod, dying, url, current>>

\* cleanUp without prewarm: the copy says there is nothing to do, or the
\* Deployment is scaled down, unless the copy is outdated or a call fails.
ScaleDown(o) ==
  /\ o \notin prewarmed
  /\ \/ /\ current /\ UNCHANGED devUsed
        /\ IF cached = 1
           THEN /\ deployment' = [deployment EXCEPT !.replicas = 0]
                /\ PodStops("none") /\ current' = FALSE
           ELSE UNCHANGED <<deployment, pod, dying, url, current>>
        /\ skipped' = FALSE
     \/ /\ \/ ~current /\ UNCHANGED devUsed
           \/ Fault("get") \/ Fault("update")
        /\ skipped' = (skipped \/ deployment.replicas = 1)
        /\ UNCHANGED <<deployment, pod, dying, url, current>>

\* cleanUp with prewarm: the pods are deleted, the Deployment replaces them.
DeletePods(o) ==
  /\ o \in prewarmed
  /\ \/ /\ deployment.replicas = 1 /\ PodStops("starting")
        /\ UNCHANGED devUsed /\ current' = FALSE
     \/ /\ \/ deployment.replicas # 1 /\ UNCHANGED devUsed
           \/ Fault("delete")
        /\ UNCHANGED <<pod, dying, url, current>>
  /\ UNCHANGED <<deployment, skipped>>

CleanUp(o) ==
  /\ step[o] = "clean" /\ step' = [step EXCEPT ![o] = "idle"]
  /\ ScaleDown(o) \/ DeletePods(o)
  /\ UNCHANGED <<cached, resources, interrupted>>

Worker(o) ==
  \/ CreateDeployment(o) \/ ScaleUp(o) \/ GetFails(o) \/ FindDeployment(o)
  \/ ListPods(o) \/ NothingToDo(o) \/ CLISucceeds(o) \/ CLIFails(o) \/ CleanUp(o)

-----------------------------------------------------------------------------
(* The owners and the process.                                             *)

\* An owner is edited, or what it has to do disappears.
OwnerChanges(o) ==
  /\ o \in alive /\ devUsed.changes < MaxChanges
  /\ devUsed' = [devUsed EXCEPT !.changes = @ + 1]
  /\ changes' \in {changes \cup {o}, changes \ {o}}
  /\ requeued' = requeued \cup {o}
  /\ UNCHANGED <<kubernetes, prewarmed, alive, ready, failed, workers, devHistory>>

\* SetControllerReference: the Deployment goes with the owner that created it.
\* A run in progress goes on; no other will follow to clean up.
OwnerDeleted(o) ==
  /\ o \in alive /\ devUsed.deletions < MaxDeletions
  /\ devUsed' = [devUsed EXCEPT !.deletions = @ + 1]
  /\ alive' = alive \ {o} /\ requeued' = requeued \ {o}
  /\ IF deployment.owner = o
     THEN /\ deployment' = Absent /\ PodStops("none") /\ current' = FALSE
          /\ UNCHANGED skipped
     ELSE /\ UNCHANGED <<deployment, pod, dying, url, current>>
          /\ skipped' = (skipped \/ o \notin ready)
  /\ UNCHANGED <<cached, prewarmed, ready, changes, failed, step, interrupted>>

\* The operator crashes and starts again: its cache is filled and every
\* resource is enqueued.
OperatorRestarts ==
  /\ devUsed.crashes < MaxDevCrashes
  /\ devUsed' = [devUsed EXCEPT !.crashes = @ + 1]
  /\ step' = [o \in Owners |-> "idle"] /\ url' = [o \in Owners |-> "none"]
  /\ requeued' = alive /\ cached' = deployment.replicas /\ current' = TRUE
  /\ UNCHANGED <<deployment, pod, dying, prewarmed, alive, ready, changes, failed, devHistory>>

Next ==
  \/ \E o \in Owners : Worker(o) \/ OwnerChanges(o) \/ OwnerDeleted(o)
  \/ PodStarts \/ PodGone \/ InformerDelivers \/ OperatorRestarts

Spec == Init /\ [][Next]_vars

\* Workers keep going, Kubernetes runs the pods it is asked for and the informer
\* catches up.  Nothing is assumed of users, failures and crashes.
Fairness ==
  /\ \A o \in Owners : WF_vars(Worker(o))
  /\ WF_vars(PodStarts) /\ WF_vars(PodGone) /\ WF_vars(InformerDelivers)

FairSpec == Spec /\ Fairness

-----------------------------------------------------------------------------
(* Properties.                                                             *)

\* What the requests amount to is what DevDBService promises.
Service ==
  INSTANCE DevDBService WITH
    database <- [replicas |-> deployment.replicas, pod |-> pod]

ImplementsService == Service!Spec

AtRest == requeued = {} /\ \A o \in Owners : step[o] = "idle"

\* When every owner is ready and none works, no database is left running,
\* unless the clean-up of the last one was lost (and only reported as an event)
\* or its owner was deleted before it could.
NothingLeftRunning ==
  AtRest /\ alive \subseteq ready /\ prewarmed = {} /\ ~skipped => deployment.replicas # 1

Served(o) == o \notin alive \/ o \in interrupted \/ o \in ready \ changes

\* Every owner eventually has what it asked for, whatever the others do to the
\* shared database, except one whose database went away under its CLI.
EveryOwnerIsServed ==
  \A o \in Owners : <>[]Served(o)

\* The same without the exception.
CleanUpIsReliable ==
  AtRest /\ alive \subseteq ready /\ prewarmed = {} => deployment.replicas # 1

\* A URL never names a pod that is on its way out.
UrlNamesTheLivePod ==
  [][\A o \in Owners : url[o] = "none" => url'[o] # "dying"]_vars

\* Only another owner takes the database from a run.
AloneIsNeverInterrupted == Cardinality(Owners) = 1 => interrupted = {}
=============================================================================
