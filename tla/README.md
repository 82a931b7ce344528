# Atlas Operator: a TLA+ verification project

The Atlas Operator runs Atlas, a database schema migration tool, inside
Kubernetes. This directory holds TLA+ models of its controllers, the TLC
configurations that check them on small instances, and TLAPS proofs of the
results that hold for every instance. All paths are relative to the repository
(`src/`).

## 1. Inventory

| Component | State it keeps | Operations | Correct when |
|---|---|---|---|
| AtlasMigration controller (`internal/controller/atlasmigration_controller.go`, `api/v1alpha1/atlasmigration_types.go`) | status subresource (conditions, `failed`, `observedGeneration`, `observed_hash`), the `latest` Secret with the last deployed directory | one reconcile: extract, connect, `migrate status`, dev database, `migrate apply` / `migrate down`, store directory, deferred status update | Ready means deployed; a downgrade is permitted; a reachable goal is reached |
| AtlasSchema controller (`atlasschema_controller.go`, `atlasschema_types.go`) | the same status without the Secret; the plan link; pending delays | extract, dev database, hash check, whoami, plan/approve in Atlas Cloud, lint, apply | the review policy is honoured; destructive changes are not applied by accident; Ready means deployed |
| AtlasSecurityScan controller (`atlassecurityscan_controller.go`, types) | scan status: last attempt, triggers seen, report, conditions | decide what is due, scan, grade, store report, write status | no due scan is lost or run twice, a verdict belongs to the report it cites |
| AtlasDriftCheck controller (`atlasdriftcheck_controller.go`, types) | drift status, per-target outcomes | load target, check, classify error, record transitions | the reported outcome is that of the last check; a transition is reported once |
| Dev databases (`devdb.go`) | Deployments and their pods | `devURL`, `cleanUp` | a URL is returned only for a running database; nothing is left running |
| Resource watcher (`watch/watch.go`) | in-memory map from watched object to dependents | `Watch`, `handleEvent` | a change of a referenced object reaches every dependent |
| Shared helpers (`common.go`, `lint.go`) | delay tracker | backoff, pending delays, HCL block merging, lint | the delay grows to its cap and is reset; merging keeps the overriding attribute |
| Target and project configuration (`target.go`, `project_config.go`) | none | URL and credentials, variables | every source is used with the documented precedence |
| Version check (`vercheck.go`), start-up (`cmd/main.go`) | a state file with the time of the last check | check for updates; wire the controllers | at most one request a day |
| Generated deep copies, CRDs, Helm chart | - | - | generated, not modelled |

Interaction. The API server and the informers of controller-runtime connect the
parts: a user edits a resource or an object it refers to, an informer delivers
the change and enqueues the resource, one worker at a time reconciles a given
resource (`MaxConcurrentReconciles` workers reconcile different ones), and the
result asks for an immediate or a delayed requeue. A reconcile calls the Atlas
CLI, which talks to databases and to Atlas Cloud; the first revision needs a dev
database, a Deployment the operator creates itself.

What is hard: the reconcile is a sequence of calls to three systems without a
transaction; any call may fail; the process may crash between two calls; the
object may be edited at any time; reads come from a cache that lags behind the
API server while status writes go to the server; events are the only thing that
wakes a resource that asked for no requeue.

## 2. Modules

| Module | Models |
|---|---|
| `ResourceStatus` | the status methods AtlasMigration and AtlasSchema share, as operators |
| `DevDB` | the calls of `devDBReconciler` on one dev database, as operators |
| `DeploymentStatus` | abstract specification: what Ready promises |
| `AtlasMigration` | the AtlasMigration controller with its environment; implements `DeploymentStatus` |
| `AtlasSchema` | the AtlasSchema controller with its environment and the plans in Atlas Cloud |
| `SecurityScan` | the AtlasSecurityScan controller, its clock, trigger, waiver and report |
| `ScanGrading` | the verdict and the summary of a scan's report |
| `DriftCheck` | the AtlasDriftCheck controller and the target it watches |
| `DevDBController` | one dev database and the owners that share its name, request by request; implements `DevDBService` |
| `DevDBService` | abstract specification: the dev database as the controllers use it |
| `ResourceWatcher` | the map from ConfigMaps and Secrets to resources, with several workers |
| `PendingTracker` | the delays while a plan waits for its approval |
| `HclMerge` | the merge of a custom `atlas.hcl`, and what is read from it |
| `MCAtlasMigration`, `MCAtlasSchema`, `MCSecurityScan`, `MCDriftCheck` | values of the constants for TLC |
| `MCParts` | one instance of each of the five shared parts, of the modules with their proofs where they have one, for one run |
| `AtlasMigrationProofs` | proofs: types, downgrades, Ready means deployed with fresh and with lagging reads, refinement |
| `AtlasSchemaProofs` | proofs: types, Ready means deployed, the review is honored, the first apply only adds |
| `SecurityScanProofs` | proofs: types, watermarks, Ready stands on a scan |
| `DriftCheckProofs` | proofs: types, drift degrades the check, drift is announced |
| `DevDBControllerProofs` | proofs: refinement of `DevDBService`, nothing is left running |
| `PendingTrackerProofs` | proofs: the delay loop ends, an approved plan is picked up in time unless the operator gave up, polls are few |
| `HclMergeProofs` | proofs: what the rendered file has of any custom configuration |
| `OperatorPartsProofs` | proofs: the loop of `grade`, what a registration may lose; the theorems about the shared parts hold of the composition `MCParts` |

All four controllers are modelled in the same way. A reconcile is cut at every
call that leaves the process, so that each other actor (user, informer, timer,
trigger, database client, reviewer, crash) can move between two calls. A failing
call is an alternative of its action, counted by `used.faults` and limited to
`FaultKinds`. The status is written by the deferred write at the end
(`WriteStatus`), which is part of every run. Operators whose comment starts with
"Mutant" are defective variants of the definition that follows; no specification
uses them.

The modules are tied together in two ways. `AtlasMigration` implements
`DeploymentStatus`. `AtlasMigration` and `AtlasSchema` use the dev database through
the operators of `DevDB`, which change it in one step; `DevDBController` splits the
same calls into their requests, with other owners, an outdated copy and failures in
between, and implements `DevDBService`, whose steps are the operators of `DevDB`.

### AtlasMigration

State and code: `object` and `cfgMap` are the API server; `cache` and `cfgCache`
the informers' copies; `dirState` the Secret `readDirState` and `storeDirState`
use; `db` the revision of each target; `devDB` the dev database; `queued`,
`timer` and `watching` the in-memory work queue, delayed requeue and
ConfigMap registration; `pc`, `res`, `data`, `seen`, `result` the worker's
program counter and the local variables of `migrationRun`.

There is one action per call of `reconcile` that leaves the process, so every
other actor can move between two of them: `Start` (Get and the first visit),
`ExtractData`, `Connect` (workingDir, atlasClient, login, whoAmI), `MigrateStatus`,
`NoPendingChanges`, `PrepareDevDB`, `DownRefused`/`DownPanics`/`DownApplied`/
`DownFailed`/`DownReview` (the outcomes of `migrateDown`), `MigrateApply`,
`StoreDirState`, `WriteStatus` (the deferred update, then `watchRefs`) and
`CleanUp`.

Abstractions. A directory is a prefix of one linear history: directory `n` has
the files 1..n, so execution order options, baselines and edited files are not
distinguished. The observed hash is the pair of what it is computed from and is
therefore collision-free. The Secret is read directly. The CLI answers a
downgrade with one of the four states the code handles. Deleting the resource is
not modelled. One operator process runs, and the work queue gives a resource to
one worker at a time. The failure counter saturates at `MaxFailed`.

### AtlasSchema

State and code: `object`, `cache`, `cfgMap`, `cfgCache`, `devDB`, `queued`,
`timer`, `watching`, `pc`, `res`, `data` and `result` are as in AtlasMigration;
`db` is the schema of each target, `plans` the schema plans in Atlas Cloud,
`plan` the approved plan the worker has picked, `managed` a history variable.

Actions: `Start`, `ExtractData`, `GetDevURL`, `Inspect` (working directory,
login, hash; readiness is revoked here), `WhoAmI`, `ListPlans`, `CreatePlan`,
`SchemaApply` (connected), `Lint` and `AutoApply` (not connected), `WriteStatus`,
`CleanUp`. `ApprovePlan` and `ReworkPlan` are the reviewer, `Drift` is another
client of the database.

Abstractions. A schema is a set of tables and a change is destructive when it
drops one. The hash of a schema is the schema. `NeedsReview` is what the CLI does
with `lint.review` and `destructive.error`; it is external to `src/` and is
modelled from how the controller fills in and passes the policy. Custom
`atlas.hcl` projects, transaction modes, excluded objects and the CLI's wording are
left out. A failed apply leaves any schema between the old and the new one.
A successful apply may also come without its one report (`appliedUnreported`): the
change is made, and the run is a failed one that is retried.

### SecurityScan

State and code: `spec`, `request` (the annotation), `status` and `trigger` (the
AtlasSchema or AtlasMigration that triggers scans, with its uid and revision) are in
the API server; `known` is the informer's copy of the trigger; `allowed` the
operator's flag for custom configurations; `run` is the worker's copy with the time
the run started, `snap` the snapshot taken by `snapshot`, `result` what Reconcile
returns, `wakeAt` the delayed requeue. `ranAt` and `covered` are history: what was
current when the CLI looked at the database in this run and in the last
successful one. `reportOf` says whether the stored report is that of the status.

Actions: `Start` (the first visit, suspend, validate, dueCheck, the check for a
repeated attempt, opening the attempt), `StartFails`, `OpenAttempt` (the first
status write), `Scan`, `StoreReport` (and everything the final write publishes),
`WriteStatus`. `Tick`, `EditSpec`, `Annotate`, `TriggerApplies`, `TriggerDeleted`,
`TriggerCreated` are the environment; `InformerDelivers` announces the trigger, with
the predicate that passes an update only when the revision moved; `Crash` and
`Restart` end the process and start it, with other flags if `FlagMayChange`.

Abstractions. Time has coarse ticks and slots are the multiples of `Period`; an
immediate requeue and one after some seconds are the same. The walk over the slots
has its cap, `MaxSlotSteps`. The hash of the inputs is the record of the inputs.
There is one trigger and one waiver. A deleted trigger that is created again is
announced as a creation; that the informer may have missed the deletion is switched
on by `Relists`. Past `MaxTime` there are no slots. Reads of the resource are fresh.

### ScanGrading

`grade` and `verdictOf` as operators on the findings of a report, the waivers of the
snapshot and `failOn`; the loop of `grade` is the recursive function `grading`, whose
value after `k` findings is what the variables of `grade` hold then. The one action,
`Grade`, computes the report and the condition. A level is its rank, and `Unknown` for what `LevelIndex` does not know. The
initial states are all reports up to `MaxFindings` findings, with repeated ones, so
that the run compares the loop of the code with the definition in the properties.
Texts, engines and versions of the report are left out.

### DriftCheck

State and code: `spec` and `status` of the resource; `target` is what the
controller can tell of the AtlasMigration (absent, settled, reconciling, holding
the database lock); `drift` the drift of its database; `again` whether the result
asks for a requeue; `announced` is history, what a reader of the Kubernetes events
believes, and `lost` whether a status write has failed or the operator crashed.

Actions: `Start` (suspend), `LoadTarget`, `Check` (all outcomes of
`migrate drift`), `WriteStatus`. `finish` models `recordTransitions`, which
runs before the deferred write. `TargetMoves` and `Alter` are the environment.

Abstractions. A drift is its fingerprint, delays have no length, failures are
transient or permanent. Of the spec only `suspend` and `onDrift` are told apart.

### DevDBController and DevDBService

State and code: `deployment` and `pod` are in the API server; `dying` is a pod that
is being deleted and still is listed as ready; `cached` and `current` the informer's
copy of the Deployment; `step` and `url` the worker of each owner and the pod the
URL it returned names. The owners are an AtlasSchema and an AtlasMigration of the
same name, for `nameDevDB` leaves out the kind.

Actions: `CreateDeployment`, `ScaleUp`, `GetFails`, `FindDeployment`, `ListPods`
are the requests of `devURL`; `CLISucceeds`, `CLIFails` and `NothingToDo` the ends
of a run, with the retry of `resultErr` or none of `resultCLIErr`; `CleanUp` is the
`cleanUp` after a ready run, `ScaleDown` or `DeletePods`. `PodStarts`, `PodGone` and
`InformerDelivers` are Kubernetes; `OwnerChanges`, `OwnerDeleted` and
`OperatorRestarts` the environment. The rest of a run between `ListPods` and its end
is one step, in which the CLI succeeds unless its database is gone.

`DevDBService` has one variable, the record of module `DevDB`, and allows the calls
`devURL` and `cleanUp`, the start of a pod and the end of the owner. The refinement
maps `[replicas, pod]` of the detailed state to it: no interleaving of requests,
whatever copy they start from, leads to a database that the calls could not have
left.

### ResourceWatcher

State and code: `watched` is the map; `version` the ConfigMaps; `ref` what each
resource refers to; `awaits` the work queue; `at`, `seen` and `existing` the worker of
each resource, what it read at the start and the registrations `Watch` has read.
`Watch` is cut between the read of the slice and the assignment; when two workers
are between the two, the outcome of the data race is either of the writes or none.
`raced` is history: the resources to which this happened.

Actions: `ReadRef` (the run), `BeginWatch`, `EndWatch`, `ObjectChanges` (an event),
`Resync`, `RefEdited`, `OperatorRestarts`. `Unwatched` are objects that
`watchRefs` does not register: `devURLFrom` of AtlasMigration
(`atlasmigration_controller.go:228`), `configFrom` and the values of `vars` of both. A
change of one reaches nobody, so the properties except them. The other outcome of an unguarded map in Go is that the
process ends, which `OperatorRestarts` covers.

### PendingTracker

State and code: `entry` is the tracker's entry (`key`, `since`), `next` when the
delayed requeue fires, or `Never` if there is none in the queue, `reason` that of the
Ready condition, `failedRuns` `status.failed`, `plan` and `approvedAt` the plan in
Atlas Cloud; `polls`, `waits` and `late` are history. `requeueDelay` is `delay`: the
first value of its doubling loop (`doubled`) that reaches what has elapsed or the cap,
cut at the cap. `late` is what runs that did not see the plan have added to the time
until it is looked at again: their delays, one that was running when the plan was
approved included, and the time in which no requeue was in the queue.

Actions: `TimerRun` and `EventRun` (`FindsPending` or `PicksUp`); the three ways in
which a run ends before it has looked at the plan, `FailsEarly` (`resultErr`, with
`backoffDelayAt` up to `backoffLimit` and no requeue past it), `ListingFails`
(`resultCLIErr` after `SchemaPlanList`, never requeued) and `DevDBNotReady`
(`resultPending`, which is not a failure); `OperatorRestarts`, `Passes` (the clock),
`Approved` and `Replanned` (the reviewer). A requeue that is in the queue stays there
when a run that something else started ends without one, and of two the earlier
counts (`requeueAfter`). Time does not pass while a timer is due, which assumes that a
poll takes no time.

Not in this module: a whoami that fails (the run goes on, see AtlasSchema), the
outcome of the apply once the approval has been seen, and lost status writes. Other
errors that `resultCLIErr` reports differ from `ListingFails` only in the reason.

### HclMerge

State and code: `config` is the parsed custom configuration, changed in place by
`evaluateEnvBlock`; `policy`, `devURL` and `desired` are the fields of `managedData`
that the decisions look at; `file` is what was rendered. A block is a record with a
type, a label, attributes and blocks.

Actions: `ExtractSchema` (`hasTargets`, `hasDevURL`), `Render`, `Inspect`
(`targetURL`), `EditAtlasHCL` (`enableDestructive`, `setLintReview` and the second
render), and `ExtractScan` with `checkPolicy`. The configurations are constants,
`SchemaConfigs` and `ScanConfigs`: files of any number of blocks whose blocks hold
blocks that hold blocks (`IsConfig`), with any types, labels and attributes. `MCParts`
enumerates those with at most one env block that may be the one that runs, one of
another name before or after it, and a block outside, with any of the attributes that
are looked at.

`WellOrdered` says of which configurations the helpers are right: an env block without
a label is named `atlas.env` and precedes those that have one, at most one env block
may be the one that runs, and it does not repeat its `lint` block. Of others they are not:
of two env blocks that may run the helpers search the first, and the file gets the
attributes of both. What `checkPolicy` promises needs no such condition.

Abstractions. `shouldLint` is in `AtlasSchema`. A block has one label or none. A block
that is appended to the file is a copy: that it stays shared with the configuration is
left out. Of the attributes TLC enumerates only those that some helper looks at.

## 3. Runs

| Run | Question | Bounds |
|---|---|---|
| `migration_safety` | Does Ready always name a deployment that is in place, is every lost revision permitted, is `DeploymentStatus` implemented? | one target, 3 directory kinds, all flow settings, versions 0..2, one edit, one failing call of any kind, one crash |
| `migration_stale` | Is Ready with a current `observedGeneration` trustworthy however far the informer lags? | two targets, versions 0..1, two edits, one failure, one crash |
| `migration_live` | Does the controller reach readiness once edits and failures stop? | one target, two kinds, versions 0..2, one of each |
| `schema_review` | Is a change that the review policy covers applied only with a plan approved for exactly that change? | two tables, four policies, any initial database, one drift, one plan reworked, one failed call |
| `schema_safety` | Is Ready with a current `observedGeneration` trustworthy, and does the first apply drop nothing, with a lagging informer? | two targets, one table, inline and ConfigMap, two edits, one failure, one crash |
| `schema_live` | Does the resource become ready again and again, and is an approved plan applied? | one target, one table, managed dev database, one of each |
| `scan_safety` | Is nothing recorded as covered that no scan has seen, and does Ready mean that this generation was scanned? | one edit or deletion of the trigger, two failures of any call, one crash, one request, one apply, one slot |
| `scan_live` | Is everything that makes a scan due eventually covered? | with and without schedule, a waiver that lapses, one edit or deletion of the trigger, two failures (of the scan or a status write), one apply, one crash |
| `drift_live` | Is a known drift never shown as healthy under `onDrift: Fail`, is the drift in the status the one announced last, and is each drift eventually reported? | two fingerprints, two edits, two failures, two changes, one crash |
| `operator_parts` | The shared parts, each on its own: is the dev database the service its users rely on, does each owner get it and is it stopped; do changes of a ConfigMap arrive; is an approved plan picked up in time, unless the operator gave up, by few polls; does a verdict follow from its report; is what is read from a custom configuration what the rendered file has? | see below |
| `schema_whoami` (violation) | `ReviewIsHonored` when whoami fails | one failed call |
| `scan_idle` (violation) | `ReadyReflectsSpec` with a configuration that only the scan rejects | one edit, one failed call, one request |

Why the bounds are enough. Version 2 is enough to tell "partly applied" from "not"
and "all applied"; one edit during a run plus one crash or failure produce each of
the windows between two calls; two edits are needed for the cache to be behind
twice. In `schema_review` two tables make a change between the state a plan starts
from and the desired one possible. The scans start with any configuration, so that
one edit corrects a rejected one; `BackoffLimit` is 1, so two failures exhaust the
retries, and a slot, an apply, an edit or the lapse of the waiver gives the stalled
resource new inputs. Two fingerprints and two changes produce drifted, drifted
otherwise and clean. Tables are interchangeable in the invariants, which the
symmetry of the safety runs of AtlasSchema uses; no liveness run uses symmetry.

`operator_parts` chooses one part at the start and runs it alone (`MCParts`). Dev
database: two owners, one of which asks only when it has changes and one that may
keep it warm, one failed call, change, deleted owner and crash; two owners are what
can take it from each other. Watcher: two objects, two resources, one change of each
object, one edited reference, one restart. Tracker: with `Retry` 1 and `MaxDelay` 6
the delay is 1, 2, 4 and then the cap, which is not one of the doubled delays, and
the horizon of 15 leaves room for one delay of the cap, an approval in it and what
failed runs add; one plan is replaced, one event, one restart, and two runs do not see
the plan: with a `BackoffLimit` of 1 the second early failure is the one that is given
up on, and a wait for the dev database before a failure shows that delays add up, also
when the plan is approved between them. Grading: every
report of up to three findings with two ids in two extensions at two levels or an
unknown one; three findings are needed for a repeated one next to another of the
same id. Merge: every configuration of the shape given above.

Four restrictions are assumptions, not bounds. `schema_review` lets no whoami
fail and `scan_safety` has no configuration that only the scan rejects, because the
properties do not hold then (the two violation runs). `ObservedReadyIsDeployed` of
AtlasSchema is stated for databases nobody else has changed. In
`operator_parts` the owners of one name have targets of one engine. The liveness runs of
AtlasMigration and AtlasSchema let no status write fail, and the latter no CLI
command that changes the database, for the reasons of section 4. (It lets one succeed
without its report, which the code retries.) A hazard that such a restriction, or an
exception in a property, takes out of every run has no property in `PROJECT.json` and
a note that names the configuration that shows it.

`CHECK_DEADLOCK FALSE` everywhere: a resource that is ready (or suspended, or
given up) and not edited rests, and the clock of the scans ends.

Fairness (`FairSpec`): the worker, the timers, the informers, the Deployment
controller, the clock of the scans and the restart of the operator's own
Deployment each keep going, because the work queue and the client library retry
for ever and the operator is a Deployment itself. Nothing is assumed of users,
reviewers, triggers, drifts, failures and crashes, which the constants bound. The
resync of the informers (10 hours by default) replays ConfigMaps, which
`DeliverConfigMap` and `Resync` cover; it does not replay the resource itself to a controller
with `GenerationChangedPredicate`.

## 4. Disagreements of the code with its own words

Two are runs (`findings` in `PROJECT.json`):

* `schema_whoami`: a transient error of whoami does not end the run, which goes on as if
  the resource were not connected to Atlas Cloud and applies a change that needed
  a review (`atlasschema_controller.go:230`). AtlasMigration and AtlasDriftCheck
  return the same error.
* `scan_idle`: `SetIdle` "implies a success exists for the current generation"
  (`atlassecurityscan_types.go:357`). A rejected configuration stalls the resource
  with a current `observedGeneration`; a transient failure of a requested scan
  clears Stalled; when the request is withdrawn nothing is due and the rejected
  generation is reported as ready.

The remaining ones have a configuration each, `*_v_*.cfg`, which ends in a
violation and can be run by hand with the MC module of the component, or with the
module itself where it has none (one that names two properties with `-continue`):

| Configuration | Property | What happens |
|---|---|---|
| `AtlasMigration_v_cache` | `ReadyMeansDeployed` | The revocation of Ready conflicts in a lagging cache, is only logged, and the database is migrated while Ready is shown (`atlasmigration_controller.go:130`). |
| `AtlasMigration_v_write` | `Converges` | A failed status update is only logged; after a successful run nothing requeues the resource. |
| `AtlasMigration_v_dirstate` | `DownDirHasAllVersions` | Only a fully successful run saves the directory, so the versions of a partly failed apply are missing from it when a downgrade needs them (`:602`, against the comment at `:499`). |
| `AtlasMigration_v_emptydir` | `DownHasLastVersion` | An emptied directory has no last available version and `:488` indexes the empty list. |
| `AtlasMigration_v_backoff` | `RetriedBeforeGivingUp` | The failure counter is carried to the next generation, which may get no retry. |
| `AtlasSchema_v_firstdrift` | `FirstRunIsAdditive` | Lint sees a dry run; the auto-approved apply computes the change again and drops a table created in between (`atlasschema_controller.go:392`). |
| `AtlasSchema_v_retarget` | `EachFirstRunIsAdditive` | `LastApplied` belongs to the resource: the first run on another database is not verified (`:367`). |
| `AtlasSchema_v_revoke` | `RevokedBeforeApply` | The hash is that of the desired schema only: with a new URL the database is changed while Ready is shown (`:215`). |
| `AtlasSchema_v_clierr` | `Converges` | `resultCLIErr` passes an error that is not transient to `result`: it is never retried, whatever `backoffLimit` says (`:628`). |
| `SecurityScan_v_report` | `ReportIsOfLastScan` | The report is replaced before the status is written; when the write fails and the cause is withdrawn, the report is that of a scan the status does not know. |
| `SecurityScan_v_flags` | `ValidIsScanned` | A generation that the flags rejected counts as observed; when the operator is started with flags that allow it, nothing makes a scan due (`atlassecurityscan_controller.go:408`). |
| `SecurityScan_v_relist` | `EverythingIsCovered` | The informer missed that the trigger was deleted: the new object arrives as an update whose revision did not move, and is dropped (`:380`, against its comment that the uid alone makes it pending). |
| `SecurityScan_v_cap` | `AttemptIsEarned` | Once the walk over the slots is cut (100000 of them), the slot found depends on the time, and a resource that gave up tries again without new inputs (`:594`). |
| `DevDBController_v_engine` | `EveryOwnerIsServed` | Pods are listed by engine: the owner with the other engine waits as long as the first one keeps its Deployment (`devdb.go:187`). |
| `DevDBController_v_dying` | `UrlNamesTheLivePod` | `readyPod` returns a pod that is being deleted (`devdb.go:503`). |
| `DevDBController_v_dying` | `AloneIsNeverInterrupted` | With prewarm and one owner only: the next run gets the pod its own clean-up is deleting, and the CLI fails. |
| `DevDBController_v_leak` | `CleanUpIsReliable` | cleanUp reads an outdated copy, does nothing or conflicts, and the database runs on (`devdb.go:89`). |
| `ResourceWatcher_v_race` | `ChangesTrigger` | Two registrations meet in the unguarded map and one is lost for good (`watch.go:51`). |
| `ResourceWatcher_v_window` | `ChangesTrigger` | A change between the read of the object and the registration enqueues nobody until the resync. |
| `HclMerge_v_custom` | `AnyOrderIsReviewed` | An unlabelled env block that follows a labelled one, or is named otherwise, is found by the helpers and not merged: the connected resource runs without a review policy (`common.go:295`). Checked on `MCParts`. |
| `HclMerge_v_custom` | `AlwaysIsReadable` | A custom configuration with `lint.review` and `lint.destructive.error` leaves `data.Policy` unset, which `atlasschema_controller.go:332` dereferences. |
| `DriftCheck_v_resolved` | `ResolutionIsAnnounced` | A failed check sets Drifted to Unknown, and a drift that is gone at the next check is never announced as resolved (`atlasdriftcheck_controller.go:394`). |

One more is in the words of a comment and in the model, not in a configuration of its own:
`maxPendingDuration` is called "the longest a user waits between approving a plan and
the operator picking it up" (`common.go:330`). That holds only of runs that see the plan: each run
that does not adds its delay (`late`), and after a failed `SchemaPlanList` or more failures
than `backoffLimit` nothing picks the plan up until the resource is edited, something
it refers to changes or the operator restarts (`gaveUp`). `PickedUpInTime` is the
statement that holds.

Seen while reading, and not modelled: `README.md:595` names `VerifyingFirstRun` for a
destructive first run, which the code reports as `FirstRunDestructive`; the
comment at `backoffDelayAt` (`common.go`) calls a linear delay exponential; the
AtlasSchema controller asks for the dev database before it compares hashes, so a
ready resource is shown as waiting until the pod runs (`Converges` of AtlasSchema
is stated as "again and again" for this reason).

## 5. Proofs

`AtlasMigrationProofs` proves for all constants satisfying
`ConstantsAssumption`:

* `TypeCorrect`: `Spec => []TypeOK`.
* `ReadyIsSafe`: with `FreshReads`, `Spec => []ReadyMeansDeployed`.
* `RefinesDeployment`: with `FreshReads`, the specification implements
  `DeploymentStatus`.
* `ObservedReadyIsSafe`: `Spec => []ObservedReadyIsDeployed`, for any informer lag.
* `DowngradesAreAllowed`: `Spec => DowngradeIsAllowed`, for any informer lag.

The inductive invariant of the second and the third is `FreshInv`. `ReadyMeansDeployed` alone is not
inductive: it says nothing of the worker's copy of the status, which becomes the
published one. `SeenInv` says that what `migrate status` reported is still the
revision of the target, `StoreInv` that a worker about to store the directory
has deployed it, and `FreshRun` that a worker past `ExtractData` either shows the
published status or has revoked readiness there.

For a lagging informer (`ObservedReadyIsSafe`) the invariant `StaleInv` replaces `FreshRun` by `GenInv` and `ObservedInv`: a
copy of the resource never has a generation above the published one, copies of
equal generation have equal specs, and a status that says Ready for a generation
was computed from the spec of that generation. `DowngradesAreAllowed` follows from
`SeenInv` (an apply never starts above its goal) and `FlowInv`: a worker that may
change the database works on the copy of the resource whose flows it checked.

`AtlasSchemaProofs` proves for all constants, with any informer lag:

* `TypeCorrect`: `Spec => []TypeOK`.
* `ObservedReadyIsSafe`: `Spec => []ObservedReadyIsDeployed`.

Its `StaleInv` has the same parts as that of AtlasMigration. What is new is drift and
partial applies: `Approaches` says that every change a run makes moves its target
towards the desired schema, so a target that holds the schema already is not moved
away by a run that is late, and only drift (which the property leaves out) moves it.

On top of these, with assumptions on the environment:

* `ReviewHonored`: `Spec => ReviewIsHonored`, when `"whoami"` is not in `FaultKinds`.
  The assumption is needed: the run `schema_whoami` breaks the
  property with one failed `whoami`. `ReviewInv` says which kinds of review a worker may be at
  for its copy of the resource, and that a plan it picked is one for the data it
  extracted and has been approved.
* `FirstApplyAdds`: `Spec => FirstRunIsAdditive`, when `MaxDrifts = 0`. Again the
  assumption is needed (`AtlasSchema_v_firstdrift.cfg`). `FirstInv` says that as long
  as nothing has been applied no copy of the status records an apply, so that the run
  is linted, and that a change that is then applied without a plan starts from a
  schema that the wanted one contains.

`SecurityScanProofs` proves for all constants:

* `TypeCorrect`: `Spec => []TypeOK`. The slots and requeues are least and greatest
  elements of sets of times: `MinExists` and `MaxExists` derive that these exist from
  the well-foundedness of the natural numbers.
* `OnlySeenIsCovered`: `Spec => []NothingCoveredUnseen`. `SeenInv` follows an
  observation from the snapshot to the scan that looks at the database after it, and
  from there to the status write that publishes both; a run that fails keeps the
  watermarks (`StartKeepsMarks`, `FailKeepsMarks`).
* `ReadyIsScanned`: `Spec => []ReadyReflectsSpec`, under `NothingElseInvalid`: no
  configuration is rejected by the scan itself and the flags of the operator do not
  change. `ReadyInv` says what a status may claim for the generation it observed
  (`Claims`): a retry that takes a stalled status back to "not stalled" is one of a newer
  generation. This is where the assumption is needed; without it a failed retry and a
  withdrawn request lead to Ready without a scan (`SecurityScan_v_idle.cfg`).

`DriftCheckProofs` proves for all constants:

* `TypeCorrect`: `Spec => []TypeOK`.
* `DriftDegrades`: `Spec => []DriftDegradesTheCheck`, with any failures and crashes.
* `DriftAnnounced`: `Spec => []DriftIsAnnounced`. The event is sent before the
  status is written, so the property is stated for behaviours in which no status
  write has failed and the operator has not crashed (`~lost`).

`RunSteps` reduces `LoadTarget` and `Check` to the finite set `Outcomes` a run
can end with, and `OutcomeType` and `OutcomeDegrades` treat those once.
`DegradeInv` adds to the property that a generation identifies a spec and that nothing
is observed ahead of the published generation: a run that started before an edit
writes a status that shows nothing for the new generation. `AnnouncedInv` adds
that, unless one was lost, a run works on the status it replaces.

`DevDBControllerProofs` proves for all constants:

* `RefinesService`: `Spec => ImplementsService`.
* `NothingRuns`: `Spec => []NothingLeftRunning`.

`CopyInv` says that a copy of the Deployment that is current is right, so an
Update that does not conflict was computed from the Deployment as it is; this is
what makes each sequence of requests amount to one call. `NothingLeftRunning` is
about states at rest and follows from `DebtInv`: while a Deployment runs, some owner
is not ready, is about to clean up, or owns the Deployment and has a run ahead. The
last case is the one after a crash. `OwnerInv` says that the owner of the Deployment
is one that has not been deleted.

`PendingTrackerProofs` proves, when `Retry` and `MaxDelay` are positive (both are
constants of the code), for every `BackoffLimit`, horizon and number of events, runs that do
not see the plan, and restarts:

* `PickedUp`: `Spec => []PickedUpInTime`.
* `FewPolls`: `Spec => []PollsAreFew`.

Neither property is inductive. `TrackerInv` adds where the timer stands: `TimerInv` says
that the next run is due no later than the delay that the wait so far allows, counted
from the approval when there is one, and that none is due only if the last run gave
up; `PollInv` that the time until the next run, and
not only the time that has passed, has room for the polls so far. Both rest on what the
loop of `delay` computes. `Iteration` shows once that a function defined by iterating
a step exists: the set of lengths for which it does not has a least element (`Least`).
From it follow `Doubles` (the values of the loop), `LoopEnds` (it reaches any elapsed
time or the cap) and `DelayIsShort` (the delay is at most `longestDelay`); `Rounds` and
`RoomGrows` say that a delay that has been waited out makes room for one poll more.
`RequeueAfter` says where the timer stands after a requeue was asked for; `RequeuesStep` and
`GivesUpStep` treat once the runs that end early with a requeue and without one, and
`FailsStep` has the three kinds of them. The two disjuncts of `gaveUp` are needed: each of
them is reached in the run.

`HclMergeProofs` proves for all configurations satisfying `ConstantsOK`, that is for
files with any number of blocks, on the three levels that matter (`IsConfig`):

* `ScanPolicy`: `Spec => []PolicyIsTheResources`, without a condition on the order of the
  blocks.
* `HelpersSee`: `Spec => []HelpersSeeTheFile`, and `Connected`:
  `Spec => []ConnectedIsReviewed`, of configurations that are `WellOrdered`.

The merge is a loop over the blocks of the one body that changes the other. `Loop` shows
that the function of its turns exists, and `Kept` that what each turn keeps holds at
the end, both by a least counterexample; `Search` says what `searchBlock` returns.
`Merged` is what a merge is, by type and label: the block of the result with a type and
label is that of the destination with those of the source merged into it, or
the first of the source. It is proved once for any merge of the inner blocks
(`TurnsMerge`) and used at each of the three levels (`InLintMerges`, `InEnvMerges`,
`InFileMerges`). `MergeInv` says of each stage which file was rendered, from which
configuration and policy; `EvaluatedTwice` that relabelling env blocks a second time changes
nothing, so that the second render is one of the same configuration. The
properties follow from `EnvThatRuns` (the env block of the configuration that the
helpers find is the one that is merged) and `EnvIsReviewed`. For scans there is no
such block to point at: `Scans2` is a set of blocks that decide nothing, which holds
the blocks of the resource and those that `checkPolicy` lets pass, and is closed under
merging (`Scans2Joins`). The set `Words` contains the strings of the module beside
STRING, because the provers do not derive that a literal is a member of it.

`OperatorPartsProofs` proves of `MCParts`, whose instances satisfy `PartsConstants`:

* `VerdictIsRight`: `Spec => []VerdictIsOfTheReport`, and `SummaryIsRight`:
  `Spec => []SummaryIsComplete`, for a report of every length. `GradedUpTo` is the
  invariant of the loop of `grade`: after `k` findings those of the report are the
  first ones of each id and extension among the `k`, waived as the snapshot says, the
  counts are cardinalities of sets of them, and `highest` is reached by one of them
  (`HighestOf`). `GradingStep` is one turn of the loop; `GradedAll` follows it to the end,
  again by a least counterexample.
* `WatcherRegisters`: `Spec => []RegisteredAtRest`, from the types and
  `RegistrationKeeps`: an assignment to the map drops only registrations that its read
  had not seen, and those resources are in `raced`.
* `PartsImplementService`, `DevDBStops`, `PlanIsPickedUp`, `PollsGetRarer`,
  `ScanIsTheResources`, `HelpersAreRight`, `ConnectedRunsReviewed`: what the modules of the parts prove holds of the composition that
  TLC runs. A behaviour stays with the part it starts with (`PartStays`) and every
  step is one of that part or leaves it alone (`DevDBRuns` and the like). For the
  refinement `OneCall` maps each call through the two instances of `DevDBService`.

The definitions those theorems need are recursive functions, not RECURSIVE operators;
what they compute is derived from the least element of a set of naturals.

Only model-checked: the liveness properties (out of the reach of the prover). Every
safety property that a run checks is stated by a theorem, some under an assumption
that is named above.

## 6. What is not modelled

* Several resources of one controller at once: each controller's module has one
  resource, and the work queue gives it to one worker at a time. Where resources
  meet, the part they meet in has a module of its own with several
  (`DevDBController`, `ResourceWatcher`).
* In the controllers' modules a delayed requeue fires at some time; only
  `PendingTracker` measures delays.
* Deletion of an AtlasMigration, AtlasSchema, AtlasDriftCheck or AtlasSecurityScan
  (there are no finalizers: the next run finds nothing). The deletion of a trigger
  and of an owner of a dev database is modelled.
* The effect of a custom `atlas.hcl` on the rest of a reconcile: `HclMerge` says what
  the file has and what the controllers read from the configuration, the modules of
  the controllers run without one.
* Credentials and target URLs, pod specifications, the texts of reports: functions
  of the spec without state.
* The version check, start-up, Helm chart, CRDs and generated code: input/output
  and configuration without a property worth checking.

## 7. Plan

The four controllers came first, then the parts they share and the proofs of their
safety properties. To follow, in this order:

1. The merge of blocks with shared references, and a custom configuration in the
   modules of the controllers.
2. The precedence of target and credential sources, as a pure module.
