--------------------------- MODULE AtlasMigration ---------------------------
(***************************************************************************)
(* The AtlasMigration controller: one resource, its target databases, the  *)
(* Secret that keeps the last deployed directory, the work queue and the   *)
(* worker that reconciles it.  The worker takes one step per call that     *)
(* leaves the process (API server, Atlas CLI, dev database), so user       *)
(* edits, informer deliveries and crashes fall between any two of them.    *)
(*                                                                         *)
(* A migration directory is a linear history: directory n holds the files  *)
(* 1..n, and a database at n has the revisions 1..n.  The observed hash is *)
(* the target and the directory it is computed from.                       *)
(***************************************************************************)
EXTENDS ResourceStatus, DevDB

CONSTANTS
  Targets,        \* Databases that spec.url may name.
  NoTarget,       \* The target of an empty observed hash.
  DirKinds,       \* Subset of {"local", "configMap", "remote"}.
  Flows,          \* protectedFlows.migrateDown values a user may set.
  BackoffLimit,   \* spec.backoffLimit
  ManagedDevDB,   \* FALSE: spec.devURL is set, no dev database is started.
  Prewarm,        \* Whether dev databases are kept warm (cleanUp).
  FreshReads,     \* TRUE: the informer cache is never behind the API server.
  FaultKinds,     \* Which calls may fail.
  MaxVersion,     \* Bound: number of migration files.
  MaxEdits,       \* Bound: edits of the resource and of its ConfigMap.
  MaxFaults,      \* Bound: failed calls.
  MaxCrashes      \* Bound: crashes of the operator.

Files == 0..MaxVersion
NoDir == -1

AllFlows == [allow : BOOLEAN, autoApprove : BOOLEAN]

ASSUME ConstantsAssumption ==
  /\ Targets # {} /\ DirKinds # {} /\ Flows # {}
  /\ NoTarget \notin Targets
  /\ DirKinds \subseteq {"local", "configMap", "remote"}
  /\ Flows \subseteq AllFlows
  /\ BackoffLimit \in Nat /\ BackoffLimit < MaxFailed
  /\ ManagedDevDB \in BOOLEAN /\ Prewarm \in BOOLEAN /\ FreshReads \in BOOLEAN
  /\ MaxVersion \in Nat /\ MaxEdits \in Nat
  /\ MaxFaults \in Nat /\ MaxCrashes \in Nat

VARIABLES
  object,    \* The AtlasMigration in the API server: spec and status.
  cfgMap,    \* The directory held by the referenced ConfigMap.
  cache,     \* The informer's copy of object.
  cfgCache,  \* The informer's copy of cfgMap.
  dirState,  \* The directory in the "latest" Secret, or NoDir.
  db,        \* Revisions applied to each target.
  devDB,     \* The dev database (module DevDB).
  queued,    \* The resource is in the work queue.
  timer,     \* A delayed requeue is pending.
  watching,  \* configMapWatcher knows the ConfigMap (kept in memory).
  pc,        \* The worker: "off" when the operator is down.
  res,       \* The worker's copy of the resource.
  data,      \* migrationData extracted by the worker.
  seen,      \* Applied revisions reported by migrate status.
  result,    \* What Reconcile returns: "none", "requeue" or "after".
  used       \* How much of each bound has been used.

vars == <<object, cfgMap, cache, cfgCache, dirState, db, devDB, queued, timer,
          watching, pc, res, data, seen, result, used>>

api    == <<object, cfgMap, cache, cfgCache>>
queue  == <<queued, timer, watching>>
locals == <<res, data, seen, result>>

-----------------------------------------------------------------------------
(* Values.                                                                 *)

Hashes  == [target : Targets, files : Files]
NoHash  == [target |-> NoTarget, files |-> 0]
Payload == [hash : Hashes \cup {NoHash}, version : Files]
NoPayload == [hash |-> NoHash, version |-> 0]

SpecsOf(gens) == [gen : gens, kind : DirKinds, target : Targets, files : Files,
                  flows : Flows]
Specs == SpecsOf(Nat)

Reasons == WaitReasons \cup
  {"Applied", "ReadingMigrationData", "WhoAmI", "Migrating",
   "StoringDirState", "DriftDetected", "ProtectedFlowError", "PlanRejected"}

Statuses == [visited : BOOLEAN, ready : BOOLEAN, reconciling : BOOLEAN,
             stalled : BOOLEAN, reason : Reasons, failed : 0..MaxFailed,
             obsGen : Nat, applied : Payload]

Resources == [spec : Specs, status : Statuses]

Data == [hash : Hashes, down : BOOLEAN, latest : Files \cup {NoDir}]

\* The worker's variables between two runs.
NoRes  == [spec |-> CHOOSE s \in SpecsOf({1}) : TRUE, status |-> NewStatus(NoPayload)]
NoData == [hash |-> CHOOSE h \in Hashes : TRUE, down |-> FALSE, latest |-> NoDir]

Steps == {"off", "idle", "extract", "connect", "status", "changes",
          "down", "apply", "store", "write", "cleanup"}

\* The directory the resource asks for: a local directory and the tag of a
\* remote one are part of the spec, a ConfigMap is an object of its own.
Desired(spec, cm) == IF spec.kind = "configMap" THEN cm ELSE spec.files

Hash(spec, cm) == [target |-> spec.target, files |-> Desired(spec, cm)]

\* A call of kind k fails.
Fault(k) ==
  /\ k \in FaultKinds
  /\ used.faults < MaxFaults
  /\ used' = [used EXCEPT !.faults = @ + 1]

-----------------------------------------------------------------------------
Init ==
  /\ object \in [spec : SpecsOf({1}),
                 status : {NewStatus(NoPayload)}]
  /\ cfgMap = object.spec.files
  /\ cache = object
  /\ cfgCache = cfgMap
  /\ dirState = NoDir
  /\ db = [t \in Targets |-> 0]
  /\ devDB = NoDeployment
  /\ queued = TRUE
  /\ timer = FALSE
  /\ watching = FALSE
  /\ pc = "idle"
  /\ res = NoRes
  /\ data = NoData
  /\ seen = 0
  /\ result = "none"
  /\ used = [edits |-> 0, faults |-> 0, crashes |-> 0]

-----------------------------------------------------------------------------
(* The worker.  How a step of the reconcile ends: *)

\* resultErr: report the failure; retry later unless the limit is exceeded.
resultErr(reason) ==
  LET st == SetNotReady(res.status, res.spec.gen, reason)
  IN  /\ res' = [res EXCEPT !.status = st]
      /\ result' = IF IsExceedBackoffLimit(st, BackoffLimit) THEN "none" ELSE "after"
      /\ pc' = "write"
      /\ UNCHANGED <<data, seen>>

\* Mutant: the resource is not polled.
resultPendingNoRequeue(reason) ==
  /\ res' = [res EXCEPT !.status = SetNotReady(@, res.spec.gen, reason)]
  /\ result' = "none"
  /\ pc' = "write"
  /\ UNCHANGED <<data, seen>>

\* resultPending: report what the resource waits for and poll.
resultPending(reason) ==
  /\ res' = [res EXCEPT !.status = SetNotReady(@, res.spec.gen, reason)]
  /\ result' = "after"
  /\ pc' = "write"
  /\ UNCHANGED <<data, seen>>

\* errRequeue, and the first visit: revoke readiness and come back at once.
requeueReconciling(r) ==
  /\ res' = [r EXCEPT !.status = SetReconciling(@, r.spec.gen)]
  /\ result' = "requeue"
  /\ pc' = "write"

\* The deployment is done: SetReady with the version now applied.
markReady(version) ==
  /\ res' = [res EXCEPT !.status =
               SetReady([hash |-> data.hash, version |-> version], res.spec.gen)]
  /\ pc' = "store"
  /\ UNCHANGED <<data, seen, result>>

\* The worker forgets everything at the end of a run.
endRun(step) ==
  pc' = step /\ res' = NoRes /\ data' = NoData /\ seen' = 0 /\ result' = "none"

proceed(step) == pc' = step /\ UNCHANGED <<res, data, seen, result>>

\* Reconcile: get the resource; on the first visit only create the conditions.
Start ==
  LET r == IF FreshReads THEN object ELSE cache
  IN  /\ pc = "idle" /\ queued
      /\ queued' = FALSE
      /\ IF ~r.status.visited
           THEN requeueReconciling(r)
           ELSE res' = r /\ pc' = "extract" /\ result' = "none"
      /\ UNCHANGED <<api, dirState, db, devDB, timer, watching, data, seen, used>>

\* The protected flows that extractMigrationData rejects.
InvalidFlows(spec) ==
  /\ spec.flows.allow
  /\ spec.flows.autoApprove <=> spec.kind = "remote"

\* Mutant: protectedFlows is not read.
extractMigrationDataUnprotected(spec, cm) ==
  [hash   |-> Hash(spec, cm),
   down   |-> TRUE,
   latest |-> IF spec.kind = "remote" THEN NoDir ELSE dirState]

\* extractMigrationData for the worker's copy of the resource.
extractMigrationData(spec, cm) ==
  [hash   |-> Hash(spec, cm),
   down   |-> spec.flows.allow /\ (spec.kind = "remote" \/ spec.flows.autoApprove),
   latest |-> IF spec.kind = "remote" THEN NoDir ELSE dirState]

\* Mutants: the check is lost, or looks at the database URL only.
IsHashModifiedNever(st, hash) == FALSE
IsHashModifiedTarget(st, hash) == hash.target # st.applied.hash.target

IsHashModified(st, hash) == hash # st.applied.hash

\* Readiness is revoked before any heavy job when the hash has changed.
ExtractData ==
  LET cm == IF FreshReads THEN cfgMap ELSE cfgCache
      d  == extractMigrationData(res.spec, cm)
  IN  /\ pc = "extract"
      /\ \/ /\ InvalidFlows(res.spec)
            /\ resultErr("ProtectedFlowError") /\ UNCHANGED used
         \/ Fault("extract") /\ resultErr("ReadingMigrationData")
         \/ /\ ~InvalidFlows(res.spec)
            /\ res.status.ready /\ IsHashModified(res.status, d.hash)
            /\ requeueReconciling(res) /\ UNCHANGED <<data, seen, used>>
         \/ /\ ~InvalidFlows(res.spec)
            /\ ~(res.status.ready /\ IsHashModified(res.status, d.hash))
            /\ data' = d /\ pc' = "connect"
            /\ UNCHANGED <<res, seen, result, used>>
      /\ UNCHANGED <<api, dirState, db, devDB, queue>>

\* workingDir, atlasClient, login and whoAmI: each may fail, none changes
\* anything outside the working directory.  They differ in the reason they
\* report; all are failed reasons, and WhoAmI stands for them.
Connect ==
  /\ pc = "connect"
  /\ \/ proceed("status") /\ UNCHANGED used
     \/ Fault("connect") /\ resultErr("WhoAmI")
  /\ UNCHANGED <<api, dirState, db, devDB, queue>>

MigrateStatus ==
  /\ pc = "status"
  /\ \/ /\ seen' = db[data.hash.target]
        /\ pc' = "changes" /\ UNCHANGED <<res, data, result, used>>
     \/ Fault("status") /\ resultErr("Migrating")
  /\ UNCHANGED <<api, dirState, db, devDB, queue>>

\* applyChanges with no pending file and no surplus revision.
NoPendingChanges ==
  /\ pc = "changes" /\ seen = data.hash.files
  /\ markReady(seen)
  /\ UNCHANGED <<api, dirState, db, devDB, queue, used>>

\* devDB returns at once: no dev database is needed, or it is running.
DevDBAvailable == ~ManagedDevDB \/ devURLReady(devDB)

\* applyChanges otherwise: prepareDevDB waits for the dev database and renders
\* the config again.  Every error of devURL is reported as waiting, never as a
\* failure.
PrepareDevDB ==
  /\ pc = "changes" /\ seen # data.hash.files
  /\ \/ /\ DevDBAvailable
        /\ proceed(IF data.hash.files < seen THEN "down" ELSE "apply")
        /\ UNCHANGED <<devDB, used>>
     \/ /\ DevDBAvailable /\ Fault("render")
        /\ resultErr("Migrating") /\ UNCHANGED devDB
     \/ /\ ~DevDBAvailable /\ devDB' = devURL(devDB)
        /\ resultPending("GettingDevDB") /\ UNCHANGED used
     \/ /\ ManagedDevDB /\ Fault("devdb")
        /\ resultPending("GettingDevDB") /\ UNCHANGED devDB
  /\ UNCHANGED <<api, dirState, db, queue>>

\* The files that `atlas migrate down` needs: all revisions of the database.
\* A remote directory is read at its latest tag, which has every version.
DownDirComplete == res.spec.kind = "remote" \/ data.latest >= seen

\* migrateDown up to the CLI call: what is refused.
DownRefused ==
  /\ pc = "down"
  /\ \/ ~data.down /\ resultErr("ProtectedFlowError")
     \/ /\ data.down /\ data.hash.files # 0
        /\ res.spec.kind # "remote" /\ data.latest = NoDir
        /\ resultErr("Migrating")
  /\ UNCHANGED <<api, dirState, db, devDB, queue, used>>

\* status.Available[len-1] of an empty directory panics.  The deferred function
\* still writes the status as it is; controller-runtime recovers and requeues.
DownPanics ==
  /\ pc = "down" /\ data.down /\ data.hash.files = 0
  /\ pc' = "write" /\ result' = "requeue"
  /\ UNCHANGED <<api, dirState, db, devDB, queue, res, data, seen, used>>

\* The CLI call of migrateDown can be made.
DownCall ==
  /\ pc = "down" /\ data.down /\ data.hash.files # 0
  /\ res.spec.kind = "remote" \/ data.latest # NoDir

\* The CLI reports APPLIED or APPROVED.
DownApplied ==
  /\ DownCall /\ DownDirComplete
  /\ db' = [db EXCEPT ![data.hash.target] = data.hash.files]
  /\ markReady(data.hash.files)
  /\ UNCHANGED <<api, dirState, devDB, queue, used>>

\* The CLI fails: files are missing, or a down file fails after others ran.
DownFailed ==
  /\ DownCall
  /\ \/ ~DownDirComplete /\ UNCHANGED <<db, used>>
     \/ /\ Fault("migrate")
        /\ \E v \in data.hash.files..seen : db' = [db EXCEPT ![data.hash.target] = v]
  /\ resultErr("Migrating")
  /\ UNCHANGED <<api, dirState, devDB, queue>>

\* A downgrade planned in Atlas Cloud waits for review, or is rejected.
DownReview ==
  /\ DownCall /\ res.spec.kind = "remote"
  /\ resultPending("ApprovalPending") \/ resultErr("PlanRejected")
  /\ UNCHANGED <<api, dirState, db, devDB, queue, used>>

\* migrateApply: the CLI runs the pending files in order; when one fails, the
\* ones before it stay applied.  A drift check stops it before the first.
MigrateApply ==
  /\ pc = "apply"
  /\ \/ /\ db' = [db EXCEPT ![data.hash.target] = data.hash.files]
        /\ markReady(data.hash.files) /\ UNCHANGED used
     \/ /\ Fault("migrate") /\ resultErr("Migrating")
        /\ \E v \in seen..data.hash.files : db' = [db EXCEPT ![data.hash.target] = v]
     \/ /\ res.spec.kind = "remote" /\ Fault("migrate")
        /\ resultErr("DriftDetected") /\ UNCHANGED db
  /\ UNCHANGED <<api, dirState, devDB, queue>>

\* Mutant: the Secret is created, never updated.
StoreDirStateCreateOnly ==
  /\ pc = "store"
  /\ dirState' = IF dirState = NoDir THEN data.hash.files ELSE dirState
  /\ proceed("write")
  /\ UNCHANGED <<api, db, devDB, queue, used>>

\* storeDirState: save the directory for a later downgrade.
StoreDirState ==
  /\ pc = "store"
  /\ \/ /\ dirState' = IF res.spec.kind = "remote" THEN dirState ELSE data.hash.files
        /\ proceed("write") /\ UNCHANGED used
     \/ /\ res.spec.kind # "remote" /\ Fault("store")
        /\ resultErr("StoringDirState") /\ UNCHANGED dirState
  /\ UNCHANGED <<api, db, devDB, queue>>

\* The deferred status update, then watchRefs.  The update reads the latest
\* object through the cache, so it conflicts while the cache is behind; when
\* the retries are used up the failure is only logged.
WriteStatus ==
  /\ pc = "write"
  /\ \/ /\ FreshReads \/ cache = object
        /\ object' = [object EXCEPT !.status = res.status] /\ UNCHANGED used
     \/ Fault("write") /\ UNCHANGED object
     \/ ~FreshReads /\ cache # object /\ UNCHANGED <<object, used>>
  /\ watching' = (watching \/ res.spec.kind = "configMap")
  /\ proceed("cleanup")
  /\ UNCHANGED <<cfgMap, cache, cfgCache, dirState, db, devDB, queued, timer>>

\* Clean up the dev database of a ready resource (errors are only events),
\* then hand the result to the work queue.
CleanUp ==
  /\ pc = "cleanup"
  /\ \/ devDB' = (IF res.status.ready THEN cleanUp(devDB, Prewarm) ELSE devDB) /\ UNCHANGED used
     \/ Fault("cleanup") /\ UNCHANGED devDB
  /\ queued' = (queued \/ result = "requeue")
  /\ timer' = (timer \/ result = "after")
  /\ endRun("idle")
  /\ UNCHANGED <<api, dirState, db, watching>>

Worker ==
  \/ Start \/ ExtractData \/ Connect \/ MigrateStatus \/ NoPendingChanges
  \/ PrepareDevDB \/ DownRefused \/ DownPanics \/ DownApplied \/ DownFailed
  \/ DownReview \/ MigrateApply \/ StoreDirState \/ WriteStatus \/ CleanUp

-----------------------------------------------------------------------------
(* The work queue, the informers and the process.                          *)

TimerFires ==
  /\ timer /\ timer' = FALSE /\ queued' = TRUE
  /\ UNCHANGED <<api, dirState, db, devDB, watching, pc, locals, used>>

\* The informer sees the object; GenerationChangedPredicate drops the event of
\* a status update.
Deliver ==
  /\ pc # "off" /\ cache # object
  /\ cache' = object
  /\ queued' = (queued \/ cache.spec.gen # object.spec.gen)
  /\ UNCHANGED <<object, cfgMap, cfgCache, dirState, db, devDB, timer, watching,
                 pc, locals, used>>

\* The informer sees the ConfigMap (or replays it, at the resync period);
\* handleEvent enqueues the resource only if it is registered.
DeliverConfigMap ==
  /\ pc # "off" /\ cache.spec.kind = "configMap"
  /\ cfgCache' = cfgMap
  /\ queued' = (queued \/ watching)
  /\ UNCHANGED <<object, cfgMap, cache, dirState, db, devDB, timer, watching,
                 pc, locals, used>>

\* The pod of the dev database becomes ready.
PodStarts ==
  /\ devDB.pod = "starting"
  /\ devDB' = PodReady(devDB)
  /\ UNCHANGED <<api, dirState, db, queue, pc, locals, used>>

\* A crash loses the queue, the timers, the registrations and the run.
Crash ==
  /\ pc # "off" /\ used.crashes < MaxCrashes
  /\ endRun("off") /\ queued' = FALSE /\ timer' = FALSE /\ watching' = FALSE
  /\ used' = [used EXCEPT !.crashes = @ + 1]
  /\ UNCHANGED <<api, dirState, db, devDB>>

\* On start the informers list every object, which enqueues it.
Restart ==
  /\ pc = "off"
  /\ pc' = "idle" /\ queued' = TRUE
  /\ cache' = object /\ cfgCache' = cfgMap
  /\ UNCHANGED <<object, cfgMap, dirState, db, devDB, timer, watching, locals, used>>

-----------------------------------------------------------------------------
(* The user.                                                               *)

Edit ==
  /\ used.edits < MaxEdits
  /\ used' = [used EXCEPT !.edits = @ + 1]
  /\ UNCHANGED <<cache, cfgCache, dirState, db, devDB, queue, pc, locals>>

EditSpec ==
  /\ \E t \in Targets, f \in Files, fl \in Flows :
       LET s == [object.spec EXCEPT !.target = t, !.files = f, !.flows = fl]
       IN  /\ s # object.spec
           /\ s.kind = "configMap" => f = object.spec.files
           /\ object' = [object EXCEPT !.spec = [s EXCEPT !.gen = @ + 1]]
  /\ UNCHANGED cfgMap
  /\ Edit

EditConfigMap ==
  /\ object.spec.kind = "configMap"
  /\ cfgMap' \in Files \ {cfgMap}
  /\ UNCHANGED object
  /\ Edit

Next ==
  \/ Worker \/ TimerFires \/ Deliver \/ DeliverConfigMap \/ PodStarts
  \/ Crash \/ Restart \/ EditSpec \/ EditConfigMap

Spec == Init /\ [][Next]_vars

\* The worker keeps going, timers fire, watches and resyncs are delivered, pods
\* start, and a crashed operator is restarted by its Deployment.  Nothing is
\* assumed of the user or of failures.
Fairness ==
  /\ WF_vars(Worker) /\ WF_vars(TimerFires)
  /\ WF_vars(Deliver) /\ WF_vars(DeliverConfigMap)
  /\ WF_vars(PodStarts) /\ WF_vars(Restart)

FairSpec == Spec /\ Fairness

-----------------------------------------------------------------------------
(* Properties.                                                             *)

Results == {"none", "requeue", "after"}

\* Type invariant of the controller's state and of its environment.
TypeOK ==
  /\ object \in Resources /\ cache \in Resources /\ res \in Resources
  /\ cfgMap \in Files /\ cfgCache \in Files
  /\ dirState \in Files \cup {NoDir}
  /\ db \in [Targets -> Files]
  /\ devDB \in DevDBs
  /\ queued \in BOOLEAN /\ timer \in BOOLEAN /\ watching \in BOOLEAN
  /\ pc \in Steps /\ data \in Data /\ seen \in Files /\ result \in Results
  /\ used \in [edits : Nat, faults : Nat, crashes : Nat]

\* The deployment a payload speaks of is in place: the target has exactly the
\* revisions of the observed directory, the reported version is that of the
\* target, and a later downgrade finds the directory in the Secret.
InPlace(payload, kind) ==
  /\ payload.hash \in Hashes
  /\ db[payload.hash.target] = payload.hash.files
  /\ payload.version = payload.hash.files
  /\ kind # "remote" => dirState = payload.hash.files

\* Whenever the API server says Ready, what its observed hash stands for is
\* deployed, at every moment of a later reconcile, failure or crash: readiness
\* is revoked before the database is touched (extractData).  Needs FreshReads.
ReadyMeansDeployed ==
  object.status.ready => InPlace(object.status.applied, object.spec.kind)

\* The readiness claim of the status, as an outside tool sees it.
claim == IF object.status.ready THEN object.status.applied.hash ELSE NoHash

Deployment == INSTANCE DeploymentStatus WITH
  Targets    <- Targets,
  MaxVersion <- MaxVersion,
  NoHash     <- NoHash,
  db         <- db,
  claim      <- claim

\* The controller implements the promise of DeploymentStatus: besides
\* ReadyMeansDeployed, that the claim is withdrawn in the API server before the
\* CLI touches a database and that it never moves from one deployment to
\* another directly.  Needs FreshReads.
ImplementsDeployment == Deployment!Spec

\* A consumer that also compares observedGeneration with the generation is
\* never misled, however stale the operator's informer is: the directory and
\* the target of the spec it looks at are deployed.  (The directory of a
\* ConfigMap is not part of the generation.)
ObservedReadyIsDeployed ==
  /\ object.status.ready
  /\ object.status.obsGen = object.spec.gen
  /\ object.spec.kind # "configMap"
  => /\ InPlace(object.status.applied, object.spec.kind)
     /\ object.status.applied.hash = Hash(object.spec, cfgMap)

\* A database loses revisions only in a reconcile whose resource allows the
\* downgrade: with approval in Atlas Cloud for a remote directory, with
\* autoApprove for the others (migrateDown, protectedFlows).
DowngradeIsAllowed ==
  [][\A t \in Targets : db'[t] < db[t] =>
       /\ res.spec.flows.allow
       /\ res.spec.flows.autoApprove <=> res.spec.kind # "remote"]_vars

\* Nothing but a change by the user can make this resource ready.
Blocked ==
  LET f == Desired(object.spec, cfgMap)
      v == db[object.spec.target]
  IN  \/ InvalidFlows(object.spec)
      \/ /\ f < v
         /\ \/ ~object.spec.flows.allow
            \/ object.spec.kind = "remote"   \* a reviewer decides
            \/ f = 0                         \* DownPanics
            \/ dirState < v                  \* the saved directory is incomplete

GaveUp == IsExceedBackoffLimit(object.status, BackoffLimit)

UpToDate ==
  /\ object.status.ready
  /\ object.status.applied.hash = Hash(object.spec, cfgMap)

\* Once edits and failures stop, the resource becomes and stays ready for its
\* current spec and directory, unless it is blocked or has used up its retries:
\* no edit, timer, event or crash makes the controller forget it.
Converges == <>[](UpToDate \/ Blocked \/ GaveUp)

\* A downgrade is never attempted with a directory that lacks revisions of the
\* database ("Atlas needs all versions to be present in the directory").
DownDirHasAllVersions == DownCall => DownDirComplete

\* An allowed downgrade has a last available version to go to (migrateDown).
DownHasLastVersion == pc = "down" /\ data.down => data.hash.files # 0

\* A generation is given up only when an earlier attempt at it has failed: a
\* positive backoffLimit gives every spec at least one retry.
RetriedBeforeGivingUp ==
  [][BackoffLimit > 0 /\ pc # "write" /\ pc' = "write" /\ res'.status.stalled /\ result' = "none"
       => res.status.obsGen = res.spec.gen]_vars
=============================================================================
