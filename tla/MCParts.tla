------------------------------ MODULE MCParts ------------------------------
(***************************************************************************)
(* One instance of each of the operator's shared parts, for TLC.  The      *)
(* parts do not interact in these modules: a behaviour is one of a single  *)
(* part, chosen at the start; the others keep the values of their          *)
(* variables.  Where a part has proofs, the instance is one of the module  *)
(* of its proofs, so that its theorems hold of the instance that TLC       *)
(* checks (OperatorPartsProofs).                                           *)
(***************************************************************************)
EXTENDS Integers, Sequences, TLC

CONSTANTS
  Owners, Lazy, MayPrewarm, Foreign, BackoffLimit, DevFaults,
  MaxDevFaults, MaxChanges, MaxDeletions, MaxDevCrashes,
  Objects, Dependents, Unwatched, MaxObjectChanges, MaxRefEdits, MaxRestarts,
  Retry, MaxDelay, Horizon, MaxReplans, MaxEvents, MaxErrors,
  Ids, Extensions, Ranks, MaxFindings,
  Uses, SchemaConfigs, ScanConfigs

VARIABLES
  part,
  deployment, pod, dying, cached, current, prewarmed, alive, ready, changes,
  requeued, step, url, failed, interrupted, skipped, devUsed,
  watched, version, ref, awaits, at, seen, existing, raced, watchUsed,
  time, entry, plan, approvedAt, picked, next, reason, failedRuns, polls, waits, late, trackUsed,
  found, waivers, failOn, graded,
  use, given, config, desired, policy, devURL, target, file, stage

DevDBs   == INSTANCE DevDBControllerProofs
Watchers == INSTANCE ResourceWatcher
Trackers == INSTANCE PendingTrackerProofs
Gradings == INSTANCE ScanGrading
Merges   == INSTANCE HclMergeProofs

\* The assumptions of the parts' theorems.
ASSUME PartsConstants == DevDBs!ConstantsOK /\ Trackers!ConstantsOK /\ Gradings!ConstantsOK
                         /\ Merges!ConstantsOK

devDBVars   == <<deployment, pod, dying, cached, current, prewarmed, alive, ready, changes,
                 requeued, step, url, failed, interrupted, skipped, devUsed>>
watcherVars == <<watched, version, ref, awaits, at, seen, existing, raced, watchUsed>>
trackerVars == <<time, entry, plan, approvedAt, picked, next, reason, failedRuns, polls, waits,
                 late, trackUsed>>
gradingVars == <<found, waivers, failOn, graded>>
mergeVars   == <<use, given, config, desired, policy, devURL, target, file, stage>>

vars == <<part, devDBVars, watcherVars, trackerVars, gradingVars, mergeVars>>

Off == "off"

\* The liveness properties of these two are evaluated in every state.
DevDBOff   == prewarmed = {} /\ DevDBs!Init
WatcherOff == ref = [d \in Dependents |-> CHOOSE o \in Objects : TRUE] /\ Watchers!Init

TrackerOff ==
  /\ time = Off /\ entry = Off /\ plan = Off /\ approvedAt = Off /\ picked = Off
  /\ next = Off /\ reason = Off /\ failedRuns = Off /\ polls = Off /\ waits = Off /\ late = Off
  /\ trackUsed = Off
GradingOff == found = Off /\ waivers = Off /\ failOn = Off /\ graded = Off
MergeOff ==
  /\ use = Off /\ given = Off /\ config = Off /\ desired = Off /\ policy = Off
  /\ devURL = Off /\ target = Off /\ file = Off /\ stage = Off

Init ==
  \/ part = "dev database" /\ DevDBs!Init /\ WatcherOff /\ TrackerOff /\ GradingOff /\ MergeOff
  \/ part = "watcher"  /\ Watchers!Init /\ DevDBOff /\ TrackerOff /\ GradingOff /\ MergeOff
  \/ part = "tracker"  /\ Trackers!Init /\ DevDBOff /\ WatcherOff /\ GradingOff /\ MergeOff
  \/ part = "grading"  /\ Gradings!Init /\ DevDBOff /\ WatcherOff /\ TrackerOff /\ MergeOff
  \/ part = "merge"    /\ Merges!Init /\ DevDBOff /\ WatcherOff /\ TrackerOff /\ GradingOff

Next ==
  /\ part' = part
  /\ \/ /\ part = "dev database" /\ DevDBs!Next
        /\ UNCHANGED <<watcherVars, trackerVars, gradingVars, mergeVars>>
     \/ /\ part = "watcher" /\ Watchers!Next
        /\ UNCHANGED <<devDBVars, trackerVars, gradingVars, mergeVars>>
     \/ /\ part = "tracker" /\ Trackers!Next
        /\ UNCHANGED <<devDBVars, watcherVars, gradingVars, mergeVars>>
     \/ /\ part = "grading" /\ Gradings!Next
        /\ UNCHANGED <<devDBVars, watcherVars, trackerVars, mergeVars>>
     \/ /\ part = "merge" /\ Merges!Next
        /\ UNCHANGED <<devDBVars, watcherVars, trackerVars, gradingVars>>

Spec == Init /\ [][Next]_vars

\* The fairness of the two parts that have liveness properties.
FairSpec ==
  /\ Spec
  /\ \A o \in Owners : WF_devDBVars(part = "dev database" /\ DevDBs!Worker(o))
  /\ WF_devDBVars(part = "dev database" /\ DevDBs!PodStarts)
  /\ WF_devDBVars(part = "dev database" /\ DevDBs!PodGone)
  /\ WF_devDBVars(part = "dev database" /\ DevDBs!InformerDelivers)
  /\ \A d \in Dependents : WF_watcherVars(part = "watcher" /\ Watchers!Worker(d))
  /\ WF_watcherVars(part = "watcher" /\ Watchers!Resync)

-----------------------------------------------------------------------------
(* The configurations that TLC looks at: at most one env block that may be *)
(* the one that runs and one of another name, in either order, and a block *)
(* outside them.                                                           *)

None == [x \in {} |-> x]
Blocks(type, attrs, blocks) == [type : {type}, label : {""}, attrs : attrs, blocks : blocks]
NoneOr(S) == {<<>>} \cup {<<b>> : b \in S}

Subfunctions(f) == {[n \in s |-> f[n]] : s \in SUBSET DOMAIN f}

Lints ==
  Blocks("lint", {None, "review" :> "ALWAYS"},
         NoneOr(Blocks("destructive", {None, "error" :> "true", "error" :> "false"}, {<<>>})))
GlobalLint ==
  Blocks("lint", {"review" :> "ALWAYS"}, {<<b>> : b \in Blocks("destructive", {"error" :> "true"}, {<<>>})})
Securities ==
  Blocks("security", {None, "fail_on" :> "level"},
         NoneOr(Blocks("cve", {"ignore" :> "ids", "other" :> "x"}, {<<>>})))

Labels == {[label |-> "run", name |-> None], [label |-> "", name |-> "name" :> "atlas.env"],
           [label |-> "", name |-> "name" :> "another"]}
Envs(attrs, blocks) ==
  {[type |-> "env", label |-> l.label, attrs |-> l.name @@ a, blocks |-> b] :
     l \in Labels, a \in attrs, b \in NoneOr(blocks)}
Other == [type |-> "env", label |-> "other", attrs |-> [dev |-> "other", exclude |-> "other"],
          blocks |-> <<>>]

Configs(envs, outside) ==
  {[type |-> "file", label |-> "", attrs |-> None, blocks |-> e \o o] : o \in NoneOr(outside),
     e \in {<<>>, <<Other>>} \cup UNION {{<<x>>, <<x, Other>>, <<Other, x>>} : x \in envs}}

AnySchemaConfig ==
  Configs(Envs(Subfunctions([dev |-> "config", src |-> "config", for_each |-> "config"]), Lints),
          GlobalLint)
AnyScanConfig == Configs(Envs(Subfunctions([exclude |-> "config"]), Securities), Securities)

-----------------------------------------------------------------------------
(* The properties of the parts, each of its own behaviours.                *)

\* DevDBController: a database that nobody uses is stopped.
NothingLeftRunning == part = "dev database" => DevDBs!NothingLeftRunning
\* DevDBController: the requests amount to the calls of DevDBService.
Service == INSTANCE DevDBService WITH
  database <- IF part = "dev database" THEN [replicas |-> deployment.replicas, pod |-> pod]
              ELSE [replicas |-> -1, pod |-> "none"]
ImplementsService  == Service!Spec
\* DevDBController: every owner gets what it asked for.
EveryOwnerIsServed ==
  \A o \in Owners : <>[](part = "dev database" => DevDBs!Served(o))
\* ResourceWatcher: a resource at rest is registered with what it read.
RegisteredAtRest   == part = "watcher" => Watchers!RegisteredAtRest
\* ResourceWatcher: every change reaches those that refer to the object.
EveryChangeArrives ==
  \A d \in Dependents : <>[](part = "watcher" => Watchers!Arrived(d))
\* PendingTracker: an approved plan is picked up in time, or given up on.
PickedUpInTime     == part = "tracker" => Trackers!PickedUpInTime
\* PendingTracker: polls get rarer.
PollsAreFew        == part = "tracker" => Trackers!PollsAreFew
\* ScanGrading: Compliant is about the findings of the report.
VerdictIsOfTheReport == part = "grading" => Gradings!VerdictIsOfTheReport
\* ScanGrading: the summary tells of every finding once.
SummaryIsComplete    == part = "grading" => Gradings!SummaryIsComplete
\* HclMerge: the custom configuration does not grade the scan.
PolicyIsTheResources == part = "merge" => Merges!PolicyIsTheResources
\* HclMerge: what the helpers see is in the rendered file.
HelpersSeeTheFile    == part = "merge" => Merges!HelpersSeeTheFile
\* HclMerge: a connected resource runs with a review policy.
ConnectedIsReviewed  == part = "merge" => Merges!ConnectedIsReviewed
\* HclMerge: the same, in whatever order the env blocks are.
AnyOrderIsReviewed   == part = "merge" => Merges!AnyOrderIsReviewed
\* HclMerge: data.Policy.Lint is there when it is read.
AlwaysIsReadable     == part = "merge" => Merges!AlwaysIsReadable
=============================================================================
