---------------------------- MODULE AtlasSchema ----------------------------
(***************************************************************************)
(* The AtlasSchema controller: one resource that declares the schema of a  *)
(* database, the schema plans that wait for review in Atlas Cloud, the     *)
(* work queue and the worker that reconciles the resource.                 *)
(*                                                                         *)
(* A schema is a set of tables.  A change is destructive when a table is   *)
(* dropped, which is what lint looks for.  The hash of a schema is the     *)
(* schema itself; the observed hash is that of the desired state, whatever *)
(* the target.  As in AtlasMigration, the worker takes one step per call   *)
(* that leaves the process.                                                *)
(***************************************************************************)
EXTENDS ResourceStatus, DevDB, FiniteSets

CONSTANTS
  Targets,        \* Databases that spec.url may name.
  Tables,         \* What a schema is made of.
  NoPlan,         \* No approved plan is used by an apply.
  Kinds,          \* Subset of {"inline", "configMap"}: where the schema is.
  Clouds,         \* Subset of {"none", "token", "repo"}: spec.cloud.
  Policies,       \* Lint policies a user may set.
  BackoffLimit,   \* spec.backoffLimit
  ManagedDevDB,   \* FALSE: spec.devURL is set, no dev database is started.
  Prewarm,        \* Whether dev databases are kept warm (cleanUp).
  FreshReads,     \* TRUE: the informer cache is never behind the API server.
  InitialDBs,     \* Schemas a database may have before the first run.
  FaultKinds,     \* Which calls may fail.
  MaxEdits,       \* Bound: edits of the resource and of its ConfigMap.
  MaxFaults,      \* Bound: failed calls.
  MaxCrashes,     \* Bound: crashes of the operator.
  MaxDrifts,      \* Bound: changes made to a database by someone else.
  MaxReviews      \* Bound: plans created or discarded by a reviewer.

Schemas == SUBSET Tables

\* spec.policy.lint: review is "" when unset, destructive is "unset" or the
\* value of destructive.error.
AllPolicies == [review : {"", "ALWAYS", "WARNING", "ERROR"},
                destructive : {"unset", "true", "false"}]

ASSUME ConstantsAssumption ==
  /\ Targets # {}
  /\ Kinds # {} /\ Kinds \subseteq {"inline", "configMap"}
  /\ Clouds # {} /\ Clouds \subseteq {"none", "token", "repo"}
  /\ Policies # {} /\ Policies \subseteq AllPolicies
  /\ InitialDBs # {} /\ InitialDBs \subseteq Schemas
  /\ BackoffLimit \in Nat /\ BackoffLimit < MaxFailed
  /\ ManagedDevDB \in BOOLEAN /\ Prewarm \in BOOLEAN /\ FreshReads \in BOOLEAN
  /\ MaxEdits \in Nat /\ MaxFaults \in Nat /\ MaxCrashes \in Nat
  /\ MaxDrifts \in Nat /\ MaxReviews \in Nat

VARIABLES
  object,    \* The AtlasSchema in the API server: spec and status.
  cfgMap,    \* The schema held by the referenced ConfigMap.
  cache,     \* The informer's copy of object.
  cfgCache,  \* The informer's copy of cfgMap.
  db,        \* The schema of each target.
  managed,   \* History: the targets this resource has been applied to.
  plans,     \* Schema plans in Atlas Cloud.
  devDB,     \* The dev database (module DevDB).
  queued,    \* The resource is in the work queue.
  timer,     \* A delayed requeue is pending.
  watching,  \* configMapWatcher knows the ConfigMap (kept in memory).
  pc,        \* The worker: "off" when the operator is down.
  res,       \* The worker's copy of the resource.
  data,      \* The desired schema extracted by the worker.
  plan,      \* The approved plan found by the worker, or NoPlan.
  result,    \* What Reconcile returns: "none", "requeue" or "after".
  used       \* How much of each bound has been used.

vars == <<object, cfgMap, cache, cfgCache, db, managed, plans, devDB, queued,
          timer, watching, pc, res, data, plan, result, used>>

api    == <<object, cfgMap, cache, cfgCache>>
dbs    == <<db, managed>>
queue  == <<queued, timer, watching>>
locals == <<res, data, plan, result>>

-----------------------------------------------------------------------------
(* Values.                                                                 *)

SpecsOf(gens) == [gen : gens, kind : Kinds, target : Targets, desired : Schemas,
                  cloud : Clouds, policy : Policies]
Specs == SpecsOf(Nat)

Reasons == WaitReasons \cup
  {"Applied", "ReadSchema", "CalculatingHash", "WhoAmI", "ListingPlans",
   "SchemaPlan", "FirstRunDestructive", "VerifyingFirstRun",
   "LintPolicyError", "ApplyingSchema"}

\* LastApplied, 0 or the time of the last success, and ObservedHash; both are
\* set by SetReady only.
Payload   == [lastApplied : {0, 1}, hash : Schemas]
NoPayload == [lastApplied |-> 0, hash |-> {}]

Statuses == [visited : BOOLEAN, ready : BOOLEAN, reconciling : BOOLEAN,
             stalled : BOOLEAN, reason : Reasons, failed : 0..MaxFailed,
             obsGen : Nat, applied : Payload]

Resources == [spec : Specs, status : Statuses]

\* A plan moves a database from one schema to another.  More than one may
\* exist for the same move: the operator's, and one made by hand.
Plans == [from : Schemas, to : Schemas, by : {"operator", "user"}, approved : BOOLEAN]

NoRes == [spec |-> CHOOSE s \in SpecsOf({1}) : TRUE, status |-> NewStatus(NoPayload)]

Steps == {"off", "idle", "extract", "devdb", "inspect", "whoami", "list", "plan",
          "apply", "lint", "auto", "write", "cleanup"}

Desired(spec, cm) == IF spec.kind = "configMap" THEN cm ELSE spec.desired

Drops(from, to) == ~(from \subseteq to)

\* The policy in force for a connected resource: enableDestructive(false) and
\* setLintReview(ERROR, false) fill in what the user left out.
DestructiveIsError(policy) == policy.destructive \in {"unset", "true"}
Review(policy) == IF policy.review = "" THEN "ERROR" ELSE policy.review

\* What `schema apply` rejects by review policy when it is given no plan.
NeedsReview(policy, from, to) ==
  /\ from # to
  /\ \/ Review(policy) = "ALWAYS"
     \/ Drops(from, to) /\ (Review(policy) = "WARNING" \/ DestructiveIsError(policy))

\* shouldLint: a resource that is not connected.
shouldLint(policy) == policy.destructive = "true"

Fault(k) ==
  /\ k \in FaultKinds
  /\ used.faults < MaxFaults
  /\ used' = [used EXCEPT !.faults = @ + 1]

-----------------------------------------------------------------------------
Init ==
  /\ object \in [spec : SpecsOf({1}), status : {NewStatus(NoPayload)}]
  /\ cfgMap = object.spec.desired
  /\ cache = object
  /\ cfgCache = cfgMap
  /\ db \in [Targets -> InitialDBs]
  /\ managed = {}
  /\ plans = {}
  /\ devDB = NoDeployment
  /\ queued = TRUE
  /\ timer = FALSE
  /\ watching = FALSE
  /\ pc = "idle"
  /\ res = NoRes
  /\ data = {}
  /\ plan = NoPlan
  /\ result = "none"
  /\ used = [edits |-> 0, faults |-> 0, crashes |-> 0, drifts |-> 0, reviews |-> 0]

-----------------------------------------------------------------------------
(* The worker.  How a step of the reconcile ends: *)

finish(st, r) ==
  /\ res' = [res EXCEPT !.status = st]
  /\ result' = r
  /\ pc' = "write"
  /\ UNCHANGED <<data, plan>>

failed(reason) == SetNotReady(res.status, res.spec.gen, reason)

\* resultErr: report the failure; retry later unless the limit is exceeded.
resultErr(reason) ==
  finish(failed(reason),
         IF IsExceedBackoffLimit(failed(reason), BackoffLimit) THEN "none" ELSE "after")

\* resultCLIErr: the error is not wrapped as transient, so that result() never
\* asks for a requeue.
resultCLIErr(reason) == finish(failed(reason), "none")

\* Mutant: the resource is not polled.
resultPendingNoRequeue(reason) == finish(failed(reason), "none")

\* resultPending: the delay for a pending plan grows, see PendingTracker.
resultPending(reason) == finish(failed(reason), "after")

requeueReconciling(r) ==
  /\ res' = [r EXCEPT !.status = SetReconciling(@, r.spec.gen)]
  /\ result' = "requeue"
  /\ pc' = "write"

markReady == finish(SetReady([lastApplied |-> 1, hash |-> data], res.spec.gen), "none")

endRun(step) ==
  pc' = step /\ res' = NoRes /\ data' = {} /\ plan' = NoPlan /\ result' = "none"

proceed(step) == pc' = step /\ UNCHANGED <<res, data, plan, result>>

\* Reconcile: get the resource; on the first visit only create the conditions.
Start ==
  LET r == IF FreshReads THEN object ELSE cache
  IN  /\ pc = "idle" /\ queued
      /\ queued' = FALSE
      /\ IF ~r.status.visited
           THEN requeueReconciling(r)
           ELSE res' = r /\ pc' = "extract" /\ result' = "none"
      /\ UNCHANGED <<api, dbs, plans, devDB, timer, watching, data, plan, used>>

\* extractData: the target, the policies and the desired state.
ExtractData ==
  /\ pc = "extract"
  /\ \/ /\ data' = Desired(res.spec, IF FreshReads THEN cfgMap ELSE cfgCache)
        /\ pc' = "devdb" /\ UNCHANGED <<res, plan, result, used>>
     \/ Fault("extract") /\ resultErr("ReadSchema")
  /\ UNCHANGED <<api, dbs, plans, devDB, queue>>

DevDBAvailable == ~ManagedDevDB \/ devURLReady(devDB)

\* Every error of devURL is reported as waiting, never as a failure.
GetDevURL ==
  /\ pc = "devdb"
  /\ \/ DevDBAvailable /\ proceed("inspect") /\ UNCHANGED <<devDB, used>>
     \/ /\ ~DevDBAvailable /\ devDB' = devURL(devDB)
        /\ resultPending("GettingDevDB") /\ UNCHANGED used
     \/ /\ ManagedDevDB /\ Fault("devdb")
        /\ resultPending("GettingDevDB") /\ UNCHANGED devDB
  /\ UNCHANGED <<api, dbs, plans, queue>>

IsHashModified(st, hash) == hash # st.applied.hash

\* The working directory, the client, the login (which may fail like the
\* inspection) and the hash of the desired state.  Readiness is revoked before
\* the heavy jobs when the hash has changed.
Inspect ==
  /\ pc = "inspect"
  /\ \/ /\ res.status.ready /\ IsHashModified(res.status, data)
        /\ requeueReconciling(res) /\ UNCHANGED <<data, plan, used>>
     \/ /\ ~(res.status.ready /\ IsHashModified(res.status, data))
        /\ proceed("whoami") /\ UNCHANGED used
     \/ Fault("inspect") /\ resultErr("CalculatingHash")
  /\ UNCHANGED <<api, dbs, plans, devDB, queue>>

\* The step after whoami when Atlas Cloud is not used.
localStep == IF res.status.applied.lastApplied = 0 \/ shouldLint(res.spec.policy) THEN "lint" ELSE "auto"

\* Any error but "login required" is put into the status, and the run goes on
\* as if the resource were not connected.
WhoAmI ==
  /\ pc = "whoami"
  /\ \/ /\ res.spec.cloud = "none" /\ proceed(localStep) /\ UNCHANGED used
     \/ /\ res.spec.cloud # "none"
        /\ proceed(IF res.spec.cloud = "repo" THEN "list" ELSE "apply")
        /\ UNCHANGED used
     \/ /\ Fault("whoami")
        /\ res' = [res EXCEPT !.status = failed("WhoAmI")]
        /\ pc' = localStep
        /\ UNCHANGED <<data, plan, result>>
  /\ UNCHANGED <<api, dbs, plans, devDB, queue>>

\* SchemaPlanList: the plans from what the target is now to what is desired.
matching == {p \in plans : p.from = db[res.spec.target] /\ p.to = data}

\* Mutant: a plan is used whatever its status.
ListPlansAnyStatus ==
  /\ pc = "list"
  /\ IF matching = {} THEN plan' = NoPlan ELSE plan' \in matching
  /\ pc' = "apply"
  /\ UNCHANGED <<api, dbs, plans, devDB, queue, res, data, result, used>>

ListPlans ==
  /\ pc = "list"
  /\ \/ Fault("cloud") /\ resultCLIErr("ListingPlans")
     \/ /\ Cardinality(matching) > 1
        /\ resultCLIErr("ListingPlans") /\ UNCHANGED used
     \/ /\ matching = {}
        /\ proceed(IF Review(res.spec.policy) = "ALWAYS" THEN "plan" ELSE "apply")
        /\ UNCHANGED used
     \/ /\ \E p \in matching : matching = {p} /\ ~p.approved
        /\ resultPending("ApprovalPending") /\ UNCHANGED used
     \/ /\ \E p \in matching : matching = {p} /\ p.approved /\ plan' = p
        /\ pc' = "apply" /\ UNCHANGED <<res, data, result, used>>
  /\ UNCHANGED <<api, dbs, plans, devDB, queue>>

\* createPlan: push the schema, plan the change as it is now and wait.
CreatePlan ==
  /\ pc = "plan"
  /\ \/ Fault("cloud") /\ resultCLIErr("SchemaPlan") /\ UNCHANGED plans
     \/ /\ db[res.spec.target] = data   \* "no changes to be made"
        /\ markReady /\ UNCHANGED <<plans, used>>
     \/ /\ db[res.spec.target] # data
        /\ plans' = plans \cup {[from |-> db[res.spec.target], to |-> data,
                                 by |-> "operator", approved |-> FALSE]}
        /\ resultPending("ApprovalPending") /\ UNCHANGED used
  /\ UNCHANGED <<api, dbs, devDB, queue>>

\* `schema apply` computes the change itself, from what the target is now.
deploys ==
  /\ db' = [db EXCEPT ![res.spec.target] = data]
  /\ managed' = managed \cup {res.spec.target}
  /\ plans' = plans \ {plan}

applied == deploys /\ markReady /\ UNCHANGED used

\* The command succeeds, but does not print exactly one report.  This is an error
\* that is retried.
appliedUnreported == deploys /\ Fault("reports") /\ resultErr("ApplyingSchema")

\* Mutant: the error of the command is dropped.
applyFailsIgnored ==
  /\ Fault("apply") /\ markReady
  /\ UNCHANGED <<db, managed, plans>>

\* The command fails; some statements may have been executed.
applyFails ==
  /\ Fault("apply") /\ resultCLIErr("ApplyingSchema")
  /\ \E s \in Schemas :
       /\ db[res.spec.target] \cap data \subseteq s
       /\ s \subseteq db[res.spec.target] \cup data
       /\ db' = [db EXCEPT ![res.spec.target] = s]
  /\ UNCHANGED <<managed, plans>>

\* schemaApply of a connected resource: with the approved plan, which must
\* still exist and start from what the target is now, or under the review policy.  A change
\* rejected by the policy is planned when there is a repository for plans.
SchemaApply ==
  LET now       == db[res.spec.target]
      permitted == IF plan = NoPlan THEN ~NeedsReview(res.spec.policy, now, data)
                   ELSE plan \in plans /\ plan.from = now
      planned   == plan = NoPlan /\ res.spec.cloud = "repo"
  IN  /\ pc = "apply"
      /\ \/ permitted /\ (applied \/ appliedUnreported \/ applyFails)
         \/ ~permitted /\ planned /\ proceed("plan") /\ UNCHANGED <<dbs, plans, used>>
         \/ /\ ~permitted /\ ~planned /\ resultCLIErr("ApplyingSchema")
            /\ UNCHANGED <<dbs, plans, used>>
      /\ UNCHANGED <<api, devDB, queue>>

\* Mutant: the first run is applied without lint.
LintSkipped == pc = "lint" /\ proceed("auto") /\ UNCHANGED <<api, dbs, plans, devDB, queue, used>>

\* lint: a dry run; on the first run a destructive change stops the resource,
\* later it violates the lint policy.  Neither is retried.
Lint ==
  LET first == res.status.applied.lastApplied = 0
      drops == Drops(db[res.spec.target], data)
  IN  /\ pc = "lint"
      /\ \/ drops /\ first /\ finish(failed("FirstRunDestructive"), "none") /\ UNCHANGED used
         \/ drops /\ ~first /\ resultCLIErr("LintPolicyError") /\ UNCHANGED used
         \/ ~drops /\ proceed("auto") /\ UNCHANGED used
         \/ /\ Fault("cli")
            /\ resultCLIErr(IF first THEN "VerifyingFirstRun" ELSE "LintPolicyError")
      /\ UNCHANGED <<api, dbs, plans, devDB, queue>>

\* schemaApply with AutoApprove.
AutoApply ==
  /\ pc = "auto"
  /\ applied \/ appliedUnreported \/ applyFails
  /\ UNCHANGED <<api, devDB, queue>>

\* The deferred status update, then watchRefs; see AtlasMigration.
WriteStatus ==
  /\ pc = "write"
  /\ \/ /\ FreshReads \/ cache = object
        /\ object' = [object EXCEPT !.status = res.status] /\ UNCHANGED used
     \/ Fault("write") /\ UNCHANGED object
     \/ ~FreshReads /\ cache # object /\ UNCHANGED <<object, used>>
  /\ watching' = (watching \/ res.spec.kind = "configMap")
  /\ proceed("cleanup")
  /\ UNCHANGED <<cfgMap, cache, cfgCache, dbs, plans, devDB, queued, timer>>

CleanUp ==
  /\ pc = "cleanup"
  /\ \/ devDB' = (IF res.status.ready THEN cleanUp(devDB, Prewarm) ELSE devDB) /\ UNCHANGED used
     \/ Fault("cleanup") /\ UNCHANGED devDB
  /\ queued' = (queued \/ result = "requeue")
  /\ timer' = (timer \/ result = "after")
  /\ endRun("idle")
  /\ UNCHANGED <<api, dbs, plans, watching>>

Worker ==
  \/ Start \/ ExtractData \/ GetDevURL \/ Inspect \/ WhoAmI \/ ListPlans
  \/ CreatePlan \/ SchemaApply \/ Lint \/ AutoApply \/ WriteStatus \/ CleanUp

-----------------------------------------------------------------------------
(* The work queue, the informers and the process.                          *)

TimerFires ==
  /\ timer /\ timer' = FALSE /\ queued' = TRUE
  /\ UNCHANGED <<api, dbs, plans, devDB, watching, pc, locals, used>>

\* GenerationChangedPredicate drops the event of a status update.
Deliver ==
  /\ pc # "off" /\ cache # object
  /\ cache' = object
  /\ queued' = (queued \/ cache.spec.gen # object.spec.gen)
  /\ UNCHANGED <<object, cfgMap, cfgCache, dbs, plans, devDB, timer, watching,
                 pc, locals, used>>

\* An event (or resync) of the ConfigMap reaches the resource if registered.
DeliverConfigMap ==
  /\ pc # "off" /\ cache.spec.kind = "configMap"
  /\ cfgCache' = cfgMap
  /\ queued' = (queued \/ watching)
  /\ UNCHANGED <<object, cfgMap, cache, dbs, plans, devDB, timer, watching,
                 pc, locals, used>>

PodStarts ==
  /\ devDB.pod = "starting"
  /\ devDB' = PodReady(devDB)
  /\ UNCHANGED <<api, dbs, plans, queue, pc, locals, used>>

Crash ==
  /\ pc # "off" /\ used.crashes < MaxCrashes
  /\ endRun("off") /\ queued' = FALSE /\ timer' = FALSE /\ watching' = FALSE
  /\ used' = [used EXCEPT !.crashes = @ + 1]
  /\ UNCHANGED <<api, dbs, plans, devDB>>

Restart ==
  /\ pc = "off"
  /\ pc' = "idle" /\ queued' = TRUE
  /\ cache' = object /\ cfgCache' = cfgMap
  /\ UNCHANGED <<object, cfgMap, dbs, plans, devDB, timer, watching, locals, used>>

-----------------------------------------------------------------------------
(* The user, the reviewer and other clients of the databases.              *)

Edit ==
  /\ used.edits < MaxEdits
  /\ used' = [used EXCEPT !.edits = @ + 1]
  /\ UNCHANGED <<cache, cfgCache, dbs, plans, devDB, queue, pc, locals>>

EditSpec ==
  /\ \E t \in Targets, d \in Schemas, p \in Policies :
       LET s == [object.spec EXCEPT !.target = t, !.desired = d, !.policy = p]
       IN  /\ s # object.spec
           /\ s.kind = "configMap" => d = object.spec.desired
           /\ object' = [object EXCEPT !.spec = [s EXCEPT !.gen = @ + 1]]
  /\ UNCHANGED cfgMap
  /\ Edit

EditConfigMap ==
  /\ object.spec.kind = "configMap"
  /\ cfgMap' \in Schemas \ {cfgMap}
  /\ UNCHANGED object
  /\ Edit

ApprovePlan ==
  /\ \E p \in plans :
       ~p.approved /\ plans' = (plans \ {p}) \cup {[p EXCEPT !.approved = TRUE]}
  /\ UNCHANGED <<api, dbs, devDB, queue, pc, locals, used>>

\* A plan is discarded, or written by hand for a pending one.
ReworkPlan ==
  /\ used.reviews < MaxReviews
  /\ used' = [used EXCEPT !.reviews = @ + 1]
  /\ \E p \in plans : plans' = plans \ {p} \/ plans' = plans \cup {[p EXCEPT !.by = "user"]}
  /\ UNCHANGED <<api, dbs, devDB, queue, pc, locals>>

\* Someone else creates a table.
Drift ==
  /\ used.drifts < MaxDrifts
  /\ used' = [used EXCEPT !.drifts = @ + 1]
  /\ \E t \in Targets, x \in Tables : db' = [db EXCEPT ![t] = @ \cup {x}]
  /\ UNCHANGED <<api, managed, plans, devDB, queue, pc, locals>>

Next ==
  \/ Worker \/ TimerFires \/ Deliver \/ DeliverConfigMap \/ PodStarts
  \/ Crash \/ Restart \/ EditSpec \/ EditConfigMap
  \/ ApprovePlan \/ ReworkPlan \/ Drift

Spec == Init /\ [][Next]_vars

\* As in AtlasMigration.  Nothing is assumed of reviewers.
Fairness ==
  /\ WF_vars(Worker) /\ WF_vars(TimerFires)
  /\ WF_vars(Deliver) /\ WF_vars(DeliverConfigMap)
  /\ WF_vars(PodStarts) /\ WF_vars(Restart)

FairSpec == Spec /\ Fairness

-----------------------------------------------------------------------------
(* Properties.                                                             *)

Results == {"none", "requeue", "after"}

\* Type invariant of the controller's state and of its environment.
TypeOK ==
  /\ object \in Resources /\ cache \in Resources /\ res \in Resources
  /\ cfgMap \in Schemas /\ cfgCache \in Schemas /\ data \in Schemas
  /\ db \in [Targets -> Schemas] /\ managed \subseteq Targets
  /\ plans \subseteq Plans /\ plan \in Plans \cup {NoPlan}
  /\ devDB \in DevDBs
  /\ queued \in BOOLEAN /\ timer \in BOOLEAN /\ watching \in BOOLEAN
  /\ pc \in Steps /\ result \in Results
  /\ used \in [edits : Nat, faults : Nat, crashes : Nat, drifts : Nat, reviews : Nat]

\* The CLI changes the schema of the worker's target.
Changes == pc \in {"apply", "auto"} /\ pc' = "write" /\ db' # db

\* A change that the review policy of a connected resource covers is applied
\* only when a reviewer has approved a plan for exactly this change
\* (spec.policy.lint.review; SchemaPlanList, createPlan and schemaApply).
ReviewIsHonored ==
  [][Changes /\ res.spec.cloud # "none" =>
       LET now == db[res.spec.target]
       IN  NeedsReview(res.spec.policy, now, data) =>
             \E p \in plans : p.from = now /\ p.to = data /\ p.approved]_vars

\* The first apply of a resource that is not connected to Atlas Cloud drops
\* nothing from the database it is applied to ("first run of a schema must not
\* contain destructive changes").
FirstRunIsAdditive ==
  [][Changes /\ res.spec.cloud = "none" /\ managed = {} =>
       db[res.spec.target] \subseteq db'[res.spec.target]]_vars

\* The same of the first apply to each database that spec.url has named.
EachFirstRunIsAdditive ==
  [][Changes /\ res.spec.cloud = "none" /\ res.spec.target \notin managed =>
       db[res.spec.target] \subseteq db'[res.spec.target]]_vars

\* A tool that sees Ready knows that nothing is being applied: readiness is
\* revoked in the API server before a schema is changed.
RevokedBeforeApply == [][Changes => ~object.status.ready]_vars

\* Ready with a current observedGeneration means that the schema of the spec is
\* deployed, however stale the informer is, unless someone else has changed a
\* database.  (The schema in a ConfigMap is not part of the generation.)
ObservedReadyIsDeployed ==
  /\ object.status.ready /\ used.drifts = 0
  /\ object.status.obsGen = object.spec.gen
  /\ object.spec.kind # "configMap"
  => /\ db[object.spec.target] = object.spec.desired
     /\ object.status.applied.hash = object.spec.desired

\* What the change of the current spec has to wait for.
Blocked ==
  LET s   == object.spec
      now == db[s.target]
      to  == Desired(s, cfgMap)
  IN  \/ /\ s.cloud = "none" /\ Drops(now, to)
         /\ object.status.applied.lastApplied = 0 \/ shouldLint(s.policy)
      \/ /\ s.cloud # "none" /\ NeedsReview(s.policy, now, to)
         /\ ~\E p \in plans : p.from = now /\ p.to = to /\ p.approved

GaveUp == IsExceedBackoffLimit(object.status, BackoffLimit)

UpToDate ==
  /\ object.status.ready
  /\ object.status.applied.hash = Desired(object.spec, cfgMap)

\* Once edits and failures stop, the resource is ready for its current desired
\* state again and again, unless a lint policy or a reviewer holds it back; a
\* plan approved in Atlas Cloud, which sends no event, is eventually applied.
\* (Ready does not stay true: each run asks for the dev database before it
\* compares hashes, and reports the resource as waiting until the pod runs.)
Converges == []<>(UpToDate \/ Blocked \/ GaveUp)
=============================================================================
