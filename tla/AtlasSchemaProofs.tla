-------------------------- MODULE AtlasSchemaProofs --------------------------
(***************************************************************************)
(* Theorems about AtlasSchema for every value of its constants: types,     *)
(* what a Ready status with a current observedGeneration promises, however *)
(* far the informer lags behind, and what a run may not do to a database:  *)
(* apply a change that its review policy covers without an approved plan,  *)
(* and drop something with the first apply.                                *)
(***************************************************************************)
EXTENDS AtlasSchema, TLAPS

Counters == [edits : Nat, faults : Nat, crashes : Nat, drifts : Nat, reviews : Nat]

-----------------------------------------------------------------------------
(* The status, and how a run ends.                                         *)

LEMMA SetReconcilingType ==
  ASSUME NEW st \in Statuses, NEW gen \in Nat
  PROVE  /\ SetReconciling(st, gen) \in Statuses
         /\ ~SetReconciling(st, gen).ready /\ SetReconciling(st, gen).obsGen = gen
  <1>1. "Reconciling" \in Reasons /\ 0 \in 0..MaxFailed
    BY MaxFailedAssumption DEF Reasons, WaitReasons
  <1> QED BY <1>1 DEF SetReconciling, Statuses

LEMMA SetReadyType ==
  ASSUME NEW p \in Payload, NEW gen \in Nat
  PROVE  /\ SetReady(p, gen) \in Statuses
         /\ SetReady(p, gen).ready /\ SetReady(p, gen).obsGen = gen
         /\ SetReady(p, gen).applied = p
  BY MaxFailedAssumption DEF SetReady, Statuses, Reasons

LEMMA SetNotReadyType ==
  ASSUME NEW st \in Statuses, NEW gen \in Nat, NEW reason \in Reasons
  PROVE  /\ SetNotReady(st, gen, reason) \in Statuses
         /\ ~SetNotReady(st, gen, reason).ready /\ SetNotReady(st, gen, reason).obsGen = gen
  <1>1. st.failed \in 0..MaxFailed
    BY DEF Statuses
  <1>2. IncrementFailed(st.failed) \in 0..MaxFailed
    BY <1>1, MaxFailedAssumption DEF IncrementFailed
  <1> QED BY <1>1, <1>2 DEF SetNotReady, Statuses, isFailedReason

LEMMA ReasonsType ==
  {"ReadSchema", "GettingDevDB", "CalculatingHash", "WhoAmI", "ListingPlans", "SchemaPlan",
   "ApprovalPending", "ApplyingSchema", "FirstRunDestructive", "VerifyingFirstRun",
   "LintPolicyError"} \subseteq Reasons
  BY DEF Reasons, WaitReasons

\* What the worker holds between two runs.
LEMMA IdleValues == NoRes \in Resources /\ {} \in Schemas /\ NoPayload \in Payload
  <1>1. {} \in Schemas
    BY DEF Schemas
  <1>2. SpecsOf({1}) # {} /\ SpecsOf({1}) \subseteq Specs
    <2>1. PICK k \in Kinds, t \in Targets, c \in Clouds, p \in Policies : TRUE
      BY ConstantsAssumption
    <2>2. [gen |-> 1, kind |-> k, target |-> t, desired |-> {}, cloud |-> c, policy |-> p]
            \in SpecsOf({1})
      BY <1>1 DEF SpecsOf
    <2>3. SpecsOf({1}) \subseteq Specs
      BY DEF SpecsOf, Specs
    <2> QED BY <2>2, <2>3
  <1>3. NoPayload \in Payload
    BY <1>1 DEF NoPayload, Payload
  <1>4. NewStatus(NoPayload) \in Statuses
    BY <1>3, MaxFailedAssumption DEF NewStatus, Statuses, Reasons, WaitReasons
  <1> QED BY <1>1, <1>2, <1>3, <1>4 DEF NoRes, Resources

\* The variables of the worker have their types.
LocalsOK ==
  /\ res \in Resources /\ data \in Schemas /\ plan \in Plans \cup {NoPlan}
  /\ pc \in Steps /\ result \in Results

\* The run keeps its spec, and what it shows is for the generation of that spec.
Shown == LocalsOK' /\ res'.spec = res.spec /\ res'.status.obsGen = res.spec.gen

\* The run ends with a status that is not ready ...
Stops == Shown /\ ~res'.status.ready /\ pc' = "write" /\ data' = data

\* ... or that is ready for the schema it worked on.
Succeeds ==
  /\ Shown /\ res'.status.ready /\ res'.status.applied.hash = data
  /\ pc' = "write" /\ data' = data

LEMMA RunTypes ==
  ASSUME TypeOK
  PROVE  /\ res.status \in Statuses /\ res.spec \in Specs /\ res.spec.gen \in Nat
         /\ res.spec.target \in Targets /\ res.spec.desired \in Schemas
  BY DEF TypeOK, Resources, Specs, SpecsOf

LEMMA FinishEffect ==
  ASSUME TypeOK, NEW st \in Statuses, st.obsGen = res.spec.gen, NEW r \in Results, finish(st, r)
  PROVE  Shown /\ res'.status = st /\ pc' = "write" /\ data' = data
  <1>1. res' = [res EXCEPT !.status = st] /\ result' = r /\ pc' = "write" /\ UNCHANGED <<data, plan>>
    BY DEF finish
  <1>2. res' \in Resources /\ res'.status = st /\ res'.spec = res.spec
    BY <1>1 DEF TypeOK, Resources
  <1> QED BY <1>1, <1>2 DEF Shown, LocalsOK, TypeOK, Steps

LEMMA StopsEffect ==
  ASSUME TypeOK, NEW reason \in Reasons,
         \/ resultErr(reason) \/ resultCLIErr(reason) \/ resultPending(reason)
         \/ finish(failed(reason), "none")
  PROVE  Stops
  <1>1. failed(reason) \in Statuses /\ ~failed(reason).ready /\ failed(reason).obsGen = res.spec.gen
    BY RunTypes, SetNotReadyType DEF failed
  <1>2. \E r \in Results : finish(failed(reason), r)
    BY DEF resultErr, resultCLIErr, resultPending, Results
  <1> QED BY <1>1, <1>2, FinishEffect DEF Stops

LEMMA MarkReadyEffect ==
  ASSUME TypeOK, markReady
  PROVE  Succeeds
  <1> DEFINE p == [lastApplied |-> 1, hash |-> data]
  <1>1. p \in Payload /\ p.hash = data
    BY DEF Payload, TypeOK
  <1>2. finish(SetReady(p, res.spec.gen), "none")
    BY DEF markReady
  <1> HIDE DEF p
  <1> QED BY <1>1, <1>2, RunTypes, SetReadyType, FinishEffect DEF Succeeds, Results

LEMMA RequeueEffect ==
  ASSUME NEW r \in Resources, requeueReconciling(r)
  PROVE  /\ res' \in Resources /\ ~res'.status.ready /\ res'.spec = r.spec
         /\ res'.status.obsGen = r.spec.gen
         /\ result' = "requeue" /\ pc' = "write"
  <1> DEFINE st == SetReconciling(r.status, r.spec.gen)
  <1>1. r.status \in Statuses /\ r.spec \in Specs /\ r.spec.gen \in Nat
    BY DEF Resources, Specs, SpecsOf
  <1>2. st \in Statuses /\ ~st.ready /\ st.obsGen = r.spec.gen
    BY <1>1, SetReconcilingType
  <1>3. res' = [r EXCEPT !.status = st] /\ result' = "requeue" /\ pc' = "write"
    BY DEF requeueReconciling
  <1> HIDE DEF st
  <1> QED BY <1>1, <1>2, <1>3 DEF Resources

LEMMA FaultEffect ==
  ASSUME TypeOK, NEW k, Fault(k)
  PROVE  used' \in Counters /\ used'.drifts = used.drifts
  BY DEF TypeOK, Fault, Counters

-----------------------------------------------------------------------------
(* What a run does to the databases.                                       *)

Working == pc \in {"devdb", "inspect", "whoami", "list", "plan", "apply", "lint", "auto"}
InRun   == Working \/ pc \in {"extract", "write", "cleanup"}

\* The target goes from what it is to what is desired, wholly, in part or not at all.
Approaches ==
  \E s \in Schemas :
    /\ db[res.spec.target] \cap data \subseteq s /\ s \subseteq db[res.spec.target] \cup data
    /\ db' = [db EXCEPT ![res.spec.target] = s]

\* The run goes on, with what it has extracted.
GoesOn == LocalsOK' /\ Working' /\ res' = res /\ data' = data

\* How a step of the worker that has extracted its data ends.
WorkStep ==
  /\ Working /\ UNCHANGED <<api, queue>>
  /\ used' \in Counters /\ used'.drifts = used.drifts
  /\ devDB' \in DevDBs /\ plans' \subseteq Plans /\ managed' \subseteq Targets
  /\ \/ GoesOn /\ UNCHANGED db
     \/ Stops /\ Approaches
     \/ Succeeds /\ Approaches /\ db'[res.spec.target] = data
     \* whoami failed, and the run goes on with a status that is not ready.
     \/ Shown /\ ~res'.status.ready /\ Working' /\ data' = data /\ UNCHANGED db

LEMMA Stays ==
  ASSUME TypeOK, UNCHANGED db
  PROVE  Approaches
  <1>1. db[res.spec.target] \in Schemas /\ db = [db EXCEPT ![res.spec.target] = db[res.spec.target]]
    BY RunTypes DEF TypeOK
  <1> QED BY <1>1 DEF Approaches

LEMMA DeploysEffect ==
  ASSUME TypeOK, deploys
  PROVE  /\ Approaches /\ db'[res.spec.target] = data
         /\ plans' \subseteq Plans /\ managed' \subseteq Targets
  <1>1. data \in Schemas /\ db \in [Targets -> Schemas] /\ res.spec.target \in Targets
    BY RunTypes DEF TypeOK
  <1>2. db' = [db EXCEPT ![res.spec.target] = data]
    BY DEF deploys
  <1>3. Approaches
    BY <1>1, <1>2 DEF Approaches
  <1>4. plans' \subseteq Plans /\ managed' \subseteq Targets
    BY <1>1 DEF deploys, TypeOK
  <1> QED BY <1>1, <1>2, <1>3, <1>4

LEMMA UnreportedEffect ==
  ASSUME TypeOK, appliedUnreported
  PROVE  Stops /\ deploys /\ used' \in Counters /\ used'.drifts = used.drifts
  <1>1. resultErr("ApplyingSchema") /\ Fault("reports") /\ deploys
    BY DEF appliedUnreported
  <1> QED BY <1>1, StopsEffect, ReasonsType, FaultEffect

LEMMA ApplyFailsEffect ==
  ASSUME TypeOK, applyFails
  PROVE  /\ Stops /\ Approaches /\ UNCHANGED <<plans, managed>>
         /\ used' \in Counters /\ used'.drifts = used.drifts
  <1>1. resultCLIErr("ApplyingSchema") /\ Fault("apply")
    BY DEF applyFails
  <1>2. Stops
    BY <1>1, StopsEffect, ReasonsType
  <1>3. Approaches /\ UNCHANGED <<plans, managed>>
    BY DEF applyFails, Approaches
  <1> QED BY <1>1, <1>2, <1>3, FaultEffect

LEMMA WorkEffect ==
  ASSUME TypeOK,
         \/ GetDevURL \/ Inspect \/ WhoAmI \/ ListPlans \/ CreatePlan
         \/ SchemaApply \/ Lint \/ AutoApply
  PROVE  WorkStep
  <1> USE ReasonsType
  <1>0. /\ used \in Counters /\ devDB \in DevDBs /\ plans \subseteq Plans /\ managed \subseteq Targets
        /\ LocalsOK
    BY DEF TypeOK, Counters, LocalsOK
  <1>1. ASSUME NEW s, s \in Steps, s \in {"devdb", "inspect", "whoami", "list", "plan", "apply", "lint", "auto"},
               proceed(s)
        PROVE  GoesOn
    BY <1>0, <1>1 DEF proceed, GoesOn, LocalsOK, Working
  <1>2. ASSUME Stops, UNCHANGED db PROVE Stops /\ Approaches
    BY <1>2, Stays
  <1>3. CASE GetDevURL
    <2>1. devURL(devDB) \in DevDBs
      BY <1>0 DEF devURL, DevDBs
    <2>2. Working /\ UNCHANGED <<api, queue, db, managed, plans>>
      BY <1>3 DEF GetDevURL, Working, dbs
    <2>3. CASE proceed("inspect") /\ UNCHANGED <<devDB, used>>
      BY <1>0, <1>1, <2>2, <2>3 DEF WorkStep, Steps
    <2>4. CASE resultPending("GettingDevDB") /\ devDB' = devURL(devDB) /\ UNCHANGED used
      BY <1>0, <1>2, <2>1, <2>2, <2>4, StopsEffect DEF WorkStep
    <2>5. CASE resultPending("GettingDevDB") /\ Fault("devdb") /\ UNCHANGED devDB
      BY <1>0, <1>2, <2>2, <2>5, StopsEffect, FaultEffect DEF WorkStep
    <2> QED BY <1>3, <2>3, <2>4, <2>5 DEF GetDevURL
  <1>4. CASE Inspect
    <2>1. Working /\ UNCHANGED <<api, queue, db, managed, plans, devDB>>
      BY <1>4 DEF Inspect, Working, dbs
    <2>2. CASE requeueReconciling(res) /\ UNCHANGED <<data, plan, used>>
      <3>1. Stops
        BY <1>0, <2>2, RequeueEffect DEF Stops, Shown, LocalsOK, Steps, Results
      <3> QED BY <1>0, <1>2, <2>1, <2>2, <3>1 DEF WorkStep
    <2>3. CASE proceed("whoami") /\ UNCHANGED used
      BY <1>0, <1>1, <2>1, <2>3 DEF WorkStep, Steps
    <2>4. CASE Fault("inspect") /\ resultErr("CalculatingHash")
      BY <1>0, <1>2, <2>1, <2>4, StopsEffect, FaultEffect DEF WorkStep
    <2> QED BY <1>4, <2>2, <2>3, <2>4 DEF Inspect
  <1>5. CASE WhoAmI
    <2>1. Working /\ UNCHANGED <<api, queue, db, managed, plans, devDB>>
      BY <1>5 DEF WhoAmI, Working, dbs
    <2>2. localStep \in {"lint", "auto"}
      BY DEF localStep
    <2>3. CASE (\E s \in {"lint", "auto", "list", "apply"} : proceed(s)) /\ UNCHANGED used
      BY <1>0, <1>1, <2>1, <2>3 DEF WorkStep, Steps
    <2>4. CASE /\ Fault("whoami") /\ res' = [res EXCEPT !.status = failed("WhoAmI")]
               /\ pc' = localStep /\ UNCHANGED <<data, plan, result>>
      <3> DEFINE st == failed("WhoAmI")
      <3>1. st \in Statuses /\ ~st.ready /\ st.obsGen = res.spec.gen
        BY RunTypes, SetNotReadyType DEF failed
      <3>2. res' = [res EXCEPT !.status = st]
        BY <2>4
      <3> HIDE DEF st
      <3>3. res' \in Resources /\ res'.status = st /\ res'.spec = res.spec
        BY <1>0, <3>1, <3>2 DEF LocalsOK, Resources
      <3>4. Shown /\ ~res'.status.ready /\ Working' /\ data' = data
        BY <1>0, <2>2, <2>4, <3>1, <3>3 DEF Shown, LocalsOK, Working, Steps
      <3> QED BY <1>0, <2>1, <2>4, <3>4, FaultEffect DEF WorkStep
    <2> QED BY <1>5, <2>2, <2>3, <2>4 DEF WhoAmI
  <1>6. CASE ListPlans
    <2>1. Working /\ UNCHANGED <<api, queue, db, managed, plans, devDB>>
      BY <1>6 DEF ListPlans, Working, dbs
    <2>2. CASE /\ Fault("cloud") \/ UNCHANGED used
               /\ resultCLIErr("ListingPlans") \/ resultPending("ApprovalPending")
      BY <1>0, <1>2, <2>1, <2>2, StopsEffect, FaultEffect DEF WorkStep
    <2>3. CASE (\E s \in {"plan", "apply"} : proceed(s)) /\ UNCHANGED used
      BY <1>0, <1>1, <2>1, <2>3 DEF WorkStep, Steps
    <2>4. CASE /\ \E p \in matching : plan' = p
               /\ pc' = "apply" /\ UNCHANGED <<res, data, result, used>>
      <3>1. GoesOn
        BY <1>0, <2>4 DEF matching, GoesOn, LocalsOK, Working, Steps
      <3> QED BY <1>0, <2>1, <2>4, <3>1 DEF WorkStep
    <2> QED BY <1>6, <2>2, <2>3, <2>4 DEF ListPlans
  <1>7. CASE CreatePlan
    <2>1. Working /\ UNCHANGED <<api, queue, db, managed, devDB>>
      BY <1>7 DEF CreatePlan, Working, dbs
    <2>2. db[res.spec.target] \in Schemas /\ data \in Schemas
      BY RunTypes DEF TypeOK
    <2>3. [from |-> db[res.spec.target], to |-> data, by |-> "operator", approved |-> FALSE] \in Plans
      BY <2>2 DEF Plans
    <2>4. plans' \subseteq Plans
      BY <1>0, <1>7, <2>3 DEF CreatePlan
    <2>5. CASE Fault("cloud") /\ resultCLIErr("SchemaPlan")
      BY <1>0, <1>2, <2>1, <2>4, <2>5, StopsEffect, FaultEffect DEF WorkStep
    <2>6. CASE resultPending("ApprovalPending") /\ UNCHANGED used
      BY <1>0, <1>2, <2>1, <2>4, <2>6, StopsEffect DEF WorkStep
    <2>7. CASE db[res.spec.target] = data /\ markReady /\ UNCHANGED used
      BY <1>0, <2>1, <2>4, <2>7, MarkReadyEffect, Stays DEF WorkStep
    <2> QED BY <1>7, <2>5, <2>6, <2>7 DEF CreatePlan
  <1>8. CASE SchemaApply \/ AutoApply
    <2>1. Working /\ UNCHANGED <<api, queue, devDB>>
      BY <1>8 DEF SchemaApply, AutoApply, Working
    <2>2. CASE applied
      BY <1>0, <2>1, <2>2, DeploysEffect, MarkReadyEffect DEF WorkStep, applied
    <2>3. CASE appliedUnreported
      BY <1>0, <2>1, <2>3, DeploysEffect, UnreportedEffect DEF WorkStep
    <2>4. CASE applyFails
      BY <1>0, <2>1, <2>4, ApplyFailsEffect DEF WorkStep
    <2>5. CASE proceed("plan") /\ UNCHANGED <<dbs, plans, used>>
      BY <1>0, <1>1, <2>1, <2>5 DEF WorkStep, Steps, dbs
    <2>6. CASE resultCLIErr("ApplyingSchema") /\ UNCHANGED <<dbs, plans, used>>
      BY <1>0, <1>2, <2>1, <2>6, StopsEffect DEF WorkStep, dbs
    <2> QED BY <1>8, <2>2, <2>3, <2>4, <2>5, <2>6 DEF SchemaApply, AutoApply
  <1>9. CASE Lint
    <2>1. Working /\ UNCHANGED <<api, queue, db, managed, plans, devDB>>
      BY <1>9 DEF Lint, Working, dbs
    <2>2. CASE proceed("auto") /\ UNCHANGED used
      BY <1>0, <1>1, <2>1, <2>2 DEF WorkStep, Steps
    <2>3. CASE /\ Fault("cli") \/ UNCHANGED used
               /\ \/ finish(failed("FirstRunDestructive"), "none")
                  \/ resultCLIErr("LintPolicyError") \/ resultCLIErr("VerifyingFirstRun")
      BY <1>0, <1>2, <2>1, <2>3, StopsEffect, FaultEffect DEF WorkStep
    <2> QED BY <1>9, <2>2, <2>3 DEF Lint
  <1> QED BY <1>3, <1>4, <1>5, <1>6, <1>7, <1>8, <1>9

-----------------------------------------------------------------------------
(* The other steps.                                                        *)

LEMMA StartEffect ==
  ASSUME TypeOK, Start
  PROVE  LET r == IF FreshReads THEN object ELSE cache
         IN  /\ LocalsOK' /\ res'.spec = r.spec /\ UNCHANGED data
             /\ UNCHANGED <<api, dbs, plans, devDB, timer, watching, used>> /\ queued' = FALSE
             /\ \/ pc' = "write" /\ ~res'.status.ready /\ res'.status.obsGen = r.spec.gen
                \/ pc' = "extract" /\ res' = r
  <1> DEFINE r == IF FreshReads THEN object ELSE cache
  <1>1. r \in Resources
    BY DEF TypeOK
  <1>2. /\ UNCHANGED <<data, plan, api, dbs, plans, devDB, timer, watching, used>> /\ queued' = FALSE
        /\ \/ requeueReconciling(r)
           \/ res' = r /\ pc' = "extract" /\ result' = "none"
    BY DEF Start
  <1> HIDE DEF r
  <1>3. CASE requeueReconciling(r)
    BY <1>1, <1>2, <1>3, RequeueEffect DEF LocalsOK, TypeOK, Steps, Results, r
  <1>4. CASE res' = r /\ pc' = "extract" /\ result' = "none"
    BY <1>1, <1>2, <1>4 DEF LocalsOK, TypeOK, Steps, Results, r
  <1> QED BY <1>2, <1>3, <1>4

LEMMA ExtractEffect ==
  ASSUME TypeOK, ExtractData
  PROVE  /\ pc = "extract" /\ UNCHANGED <<api, dbs, plans, devDB, queue>>
         /\ used' \in Counters /\ used'.drifts = used.drifts
         /\ \/ Stops
            \/ /\ LocalsOK' /\ res' = res /\ pc' = "devdb"
               /\ res.spec.kind # "configMap" => data' = res.spec.desired
  <1>1. CASE Fault("extract") /\ resultErr("ReadSchema")
    BY <1>1, StopsEffect, FaultEffect, ReasonsType DEF ExtractData
  <1>2. CASE /\ data' = Desired(res.spec, IF FreshReads THEN cfgMap ELSE cfgCache)
             /\ pc' = "devdb" /\ UNCHANGED <<res, plan, result, used>>
    <2>1. data' \in Schemas /\ (res.spec.kind # "configMap" => data' = res.spec.desired)
      BY <1>2, RunTypes DEF Desired, TypeOK
    <2>2. LocalsOK' /\ used' \in Counters /\ used'.drifts = used.drifts
      BY <1>2, <2>1 DEF LocalsOK, TypeOK, Steps, Counters
    <2> QED BY <1>2, <2>1, <2>2 DEF ExtractData
  <1> QED BY <1>1, <1>2 DEF ExtractData

LEMMA WriteEffect ==
  ASSUME TypeOK, WriteStatus
  PROVE  /\ pc = "write" /\ pc' = "cleanup" /\ object' \in Resources
         /\ UNCHANGED <<res, data, plan, result, cfgMap, cache, cfgCache, dbs, plans, devDB, queued, timer>>
         /\ used' \in Counters /\ used'.drifts = used.drifts /\ watching' \in BOOLEAN
         /\ \/ UNCHANGED object
            \/ /\ FreshReads \/ cache = object
               /\ object'.spec = object.spec /\ object'.status = res.status
  <1>1. used' \in Counters /\ used'.drifts = used.drifts
    BY FaultEffect DEF WriteStatus, TypeOK, Counters
  <1>2. \/ UNCHANGED object
        \/ object' = [object EXCEPT !.status = res.status] /\ (FreshReads \/ cache = object)
    BY DEF WriteStatus
  <1>3. /\ object' \in Resources
        /\ \/ UNCHANGED object
           \/ /\ FreshReads \/ cache = object
              /\ object'.spec = object.spec /\ object'.status = res.status
    BY <1>2 DEF TypeOK, Resources
  <1> QED BY <1>1, <1>3 DEF WriteStatus, proceed, TypeOK

LEMMA EndEffect ==
  ASSUME TypeOK, CleanUp \/ Crash
  PROVE  /\ LocalsOK' /\ UNCHANGED <<api, dbs, plans>> /\ devDB' \in DevDBs
         /\ queued' \in BOOLEAN /\ timer' \in BOOLEAN /\ watching' \in BOOLEAN
         /\ pc' \in {"idle", "off"}
         /\ used' \in Counters /\ used'.drifts = used.drifts
  <1>1. cleanUp(devDB, Prewarm) \in DevDBs
    BY ConstantsAssumption DEF TypeOK, cleanUp, DevDBs
  <1>2. devDB' \in DevDBs
    BY <1>1 DEF CleanUp, Crash, TypeOK
  <1>3. used' \in Counters /\ used'.drifts = used.drifts
    BY FaultEffect DEF CleanUp, Crash, TypeOK, Counters
  <1>4. LocalsOK' /\ pc' \in {"idle", "off"}
    BY IdleValues DEF CleanUp, Crash, endRun, LocalsOK, Steps, Results
  <1> QED BY <1>2, <1>3, <1>4 DEF CleanUp, Crash, TypeOK

LEMMA EditSpecEffect ==
  ASSUME TypeOK, EditSpec
  PROVE  /\ object' \in Resources
         /\ object'.spec.gen = object.spec.gen + 1 /\ object'.status = object.status
         /\ object'.spec.cloud = object.spec.cloud
  <1>1. PICK t \in Targets, d \in Schemas, p \in Policies :
          LET s == [object.spec EXCEPT !.target = t, !.desired = d, !.policy = p]
          IN  object' = [object EXCEPT !.spec = [s EXCEPT !.gen = @ + 1]]
    BY DEF EditSpec
  <1>0. \A x \in Specs : /\ [x EXCEPT !.gen = @ + 1] \in Specs
                          /\ [x EXCEPT !.gen = @ + 1].gen = x.gen + 1
                          /\ [x EXCEPT !.gen = @ + 1].cloud = x.cloud
    BY DEF Specs, SpecsOf
  <1> DEFINE s == [object.spec EXCEPT !.target = t, !.desired = d, !.policy = p]
             n == [s EXCEPT !.gen = @ + 1]
  <1>2. object.spec \in Specs /\ object.status \in Statuses
    BY DEF TypeOK, Resources
  <1>3. s \in Specs /\ s.gen = object.spec.gen /\ s.cloud = object.spec.cloud
    BY <1>2 DEF Specs, SpecsOf
  <1>4. n \in Specs /\ n.gen = object.spec.gen + 1 /\ n.cloud = object.spec.cloud
    <2> HIDE DEF s
    <2> QED BY <1>0, <1>3
  <1>5. object' = [object EXCEPT !.spec = n]
    BY <1>1
  <1> HIDE DEF n
  <1> QED BY <1>2, <1>4, <1>5 DEF TypeOK, Resources

\* The steps that leave the run, the resource and the databases alone.
Elsewhere ==
  /\ UNCHANGED <<object, db, managed, res, data, plan, result, pc>>
  /\ used' \in Counters /\ used'.drifts = used.drifts
  /\ cache' \in {object, cache}
  /\ UNCHANGED cache \/ cache' = object
  /\ cfgMap' \in Schemas /\ cfgCache' \in Schemas /\ plans' \subseteq Plans /\ devDB' \in DevDBs
  /\ queued' \in BOOLEAN /\ timer' \in BOOLEAN /\ watching' \in BOOLEAN

LEMMA ElsewhereEffect ==
  ASSUME TypeOK,
         \/ TimerFires \/ Deliver \/ DeliverConfigMap \/ PodStarts \/ EditConfigMap
         \/ ApprovePlan \/ ReworkPlan \/ UNCHANGED vars
  PROVE  Elsewhere
  <1>0. /\ used \in Counters /\ cfgMap \in Schemas /\ cfgCache \in Schemas /\ plans \subseteq Plans
        /\ devDB \in DevDBs /\ queued \in BOOLEAN /\ timer \in BOOLEAN /\ watching \in BOOLEAN
    BY DEF TypeOK, Counters
  <1>1. CASE TimerFires \/ Deliver \/ DeliverConfigMap
    BY <1>0, <1>1 DEF TimerFires, Deliver, DeliverConfigMap, Elsewhere, api, dbs, locals
  <1>2. CASE PodStarts
    <2>1. devDB' \in DevDBs
      BY <1>0, <1>2 DEF PodStarts, PodReady, DevDBs
    <2> QED BY <1>0, <1>2, <2>1 DEF PodStarts, Elsewhere, api, dbs, locals, queue
  <1>3. CASE EditConfigMap
    <2>1. used' \in Counters /\ used'.drifts = used.drifts
      BY <1>0, <1>3 DEF EditConfigMap, Edit, Counters
    <2> QED BY <1>0, <1>3, <2>1 DEF EditConfigMap, Edit, Elsewhere, dbs, locals, queue
  <1>4. CASE ApprovePlan \/ ReworkPlan
    <2>1. \A p \in Plans : [p EXCEPT !.approved = TRUE] \in Plans /\ [p EXCEPT !.by = "user"] \in Plans
      BY DEF Plans
    <2>2. plans' \subseteq Plans
      <3>1. PICK p \in plans : \/ plans' = (plans \ {p}) \cup {[p EXCEPT !.approved = TRUE]}
                               \/ plans' = plans \ {p}
                               \/ plans' = plans \cup {[p EXCEPT !.by = "user"]}
        BY <1>4 DEF ApprovePlan, ReworkPlan
      <3> QED BY <1>0, <2>1, <3>1
    <2>3. used' \in Counters /\ used'.drifts = used.drifts
      BY <1>0, <1>4 DEF ApprovePlan, ReworkPlan, Counters
    <2> QED BY <1>0, <1>4, <2>2, <2>3 DEF ApprovePlan, ReworkPlan, Elsewhere, api, dbs, locals, queue
  <1>5. CASE UNCHANGED vars
    BY <1>0, <1>5 DEF vars, Elsewhere
  <1> QED BY <1>1, <1>2, <1>3, <1>4, <1>5

-----------------------------------------------------------------------------
(* Types.                                                                  *)

LEMMA InitTypeOK == Init => TypeOK
  <1> SUFFICES ASSUME Init PROVE TypeOK
    OBVIOUS
  <1>1. object \in Resources
    <2>1. NewStatus(NoPayload) \in Statuses
      BY IdleValues, MaxFailedAssumption DEF NewStatus, Statuses, Reasons, WaitReasons
    <2>2. SpecsOf({1}) \subseteq Specs
      BY DEF SpecsOf, Specs
    <2> QED BY <2>1, <2>2 DEF Init, Resources
  <1>2. cfgMap \in Schemas
    BY <1>1 DEF Init, Resources, Specs, SpecsOf
  <1>3. db \in [Targets -> Schemas]
    BY ConstantsAssumption DEF Init
  <1>4. devDB \in DevDBs
    BY DEF Init, NoDeployment, DevDBs
  <1> QED BY <1>1, <1>2, <1>3, <1>4, IdleValues DEF Init, TypeOK, Steps, Results

LEMMA ApproachesType ==
  ASSUME TypeOK, Approaches
  PROVE  db' \in [Targets -> Schemas]
  BY DEF TypeOK, Approaches

LEMMA TypeStep == TypeOK /\ [Next]_vars => TypeOK'
  <1> SUFFICES ASSUME TypeOK, [Next]_vars PROVE TypeOK'
    OBVIOUS
  <1>1. CASE Start
    BY <1>1, StartEffect DEF LocalsOK, TypeOK, api, dbs
  <1>2. CASE ExtractData
    <2>1. LocalsOK'
      BY <1>2, ExtractEffect DEF Stops, Shown
    <2> QED BY <1>2, <2>1, ExtractEffect DEF LocalsOK, TypeOK, api, dbs, queue, Counters
  <1>3. CASE \/ GetDevURL \/ Inspect \/ WhoAmI \/ ListPlans \/ CreatePlan
             \/ SchemaApply \/ Lint \/ AutoApply
    <2>1. WorkStep
      BY <1>3, WorkEffect
    <2>2. LocalsOK' /\ db' \in [Targets -> Schemas]
      BY <2>1, ApproachesType DEF WorkStep, GoesOn, Stops, Succeeds, Shown, TypeOK
    <2> QED BY <2>1, <2>2 DEF WorkStep, LocalsOK, TypeOK, api, queue, Counters
  <1>4. CASE WriteStatus
    BY <1>4, WriteEffect DEF TypeOK, dbs, Steps, Counters
  <1>5. CASE CleanUp \/ Crash
    BY <1>5, EndEffect DEF LocalsOK, TypeOK, api, dbs, Counters
  <1>6. CASE Restart
    BY <1>6 DEF Restart, TypeOK, dbs, locals, Steps
  <1>7. CASE EditSpec
    <2>1. used' \in Counters
      BY <1>7 DEF EditSpec, Edit, TypeOK, Counters
    <2> QED BY <1>7, <2>1, EditSpecEffect DEF EditSpec, Edit, TypeOK, dbs, locals, queue, Counters
  <1>8. CASE Drift
    <2>1. used' \in Counters
      BY <1>8 DEF Drift, TypeOK, Counters
    <2>2. db' \in [Targets -> Schemas]
      BY <1>8 DEF Drift, TypeOK, Schemas
    <2> QED BY <1>8, <2>1, <2>2 DEF Drift, TypeOK, api, locals, queue, Counters
  <1>9. CASE \/ TimerFires \/ Deliver \/ DeliverConfigMap \/ PodStarts \/ EditConfigMap
             \/ ApprovePlan \/ ReworkPlan \/ UNCHANGED vars
    BY <1>9, ElsewhereEffect DEF Elsewhere, TypeOK, Counters
  <1> QED BY <1>1, <1>2, <1>3, <1>4, <1>5, <1>6, <1>7, <1>8, <1>9 DEF Next, Worker

\* The controller's state and its environment keep their types.
THEOREM TypeCorrect == Spec => []TypeOK
  BY InitTypeOK, TypeStep, PTL DEF Spec

-----------------------------------------------------------------------------
(* Generations.                                                            *)

\* What the worker reads when it starts.
Source == IF FreshReads THEN object ELSE cache

\* A copy is never newer than the object, and the generation identifies the spec.
Older(o) ==
  o.spec.gen <= object.spec.gen /\ (o.spec.gen = object.spec.gen => o.spec = object.spec)

GenInv ==
  /\ Older(cache) /\ (InRun => Older(res))
  /\ object.status.obsGen <= object.spec.gen
  /\ cache.status.obsGen <= cache.spec.gen
  /\ InRun => res.status.obsGen <= res.spec.gen

LEMMA GenTypes ==
  ASSUME TypeOK
  PROVE  /\ object.spec.gen \in Nat /\ object.status.obsGen \in Nat
         /\ cache.spec.gen \in Nat /\ cache.status.obsGen \in Nat
         /\ res.spec.gen \in Nat /\ res.status.obsGen \in Nat
  BY DEF TypeOK, Resources, Specs, SpecsOf, Statuses

LEMMA GenStep == TypeOK /\ GenInv /\ [Next]_vars => GenInv'
  <1> SUFFICES ASSUME TypeOK, GenInv, [Next]_vars PROVE GenInv'
    OBVIOUS
  <1> USE GenTypes
  <1>1. CASE Start
    <2> DEFINE r == IF FreshReads THEN object ELSE cache
    <2>1. Older(r) /\ r.status.obsGen <= r.spec.gen /\ r.spec.gen \in Nat
      BY DEF GenInv, Older
    <2>2. UNCHANGED <<object, cache>> /\ res'.spec = r.spec
      BY <1>1, StartEffect DEF api
    <2>3. res'.status.obsGen = r.spec.gen \/ res' = r
      BY <1>1, StartEffect
    <2> HIDE DEF r
    <2> QED BY <2>1, <2>2, <2>3 DEF GenInv, Older
  <1>2. CASE ExtractData
    <2>1. UNCHANGED <<object, cache>> /\ InRun /\ res'.spec = res.spec
      BY <1>2, ExtractEffect DEF Stops, Shown, api, InRun
    <2>2. res'.status.obsGen \in {res.status.obsGen, res.spec.gen}
      BY <1>2, ExtractEffect DEF Stops, Shown
    <2> QED BY <2>1, <2>2 DEF GenInv, Older
  <1>3. CASE \/ GetDevURL \/ Inspect \/ WhoAmI \/ ListPlans \/ CreatePlan
             \/ SchemaApply \/ Lint \/ AutoApply
    <2>1. WorkStep
      BY <1>3, WorkEffect
    <2>2. UNCHANGED <<object, cache>> /\ InRun
      BY <2>1 DEF WorkStep, api, InRun
    <2>3. res'.spec = res.spec /\ res'.status.obsGen \in {res.status.obsGen, res.spec.gen}
      BY <2>1 DEF WorkStep, GoesOn, Stops, Succeeds, Shown
    <2> QED BY <2>2, <2>3 DEF GenInv, Older
  <1>4. CASE WriteStatus
    <2>1. InRun /\ UNCHANGED <<res, cache>>
      BY <1>4, WriteEffect DEF InRun
    <2>2. object'.spec = object.spec /\ object'.status \in {object.status, res.status}
      BY <1>4, WriteEffect
    <2> QED BY <2>1, <2>2 DEF GenInv, Older
  <1>5. CASE CleanUp \/ Crash \/ Restart
    <2>1. object' = object /\ cache' \in {object, cache} /\ ~InRun'
      <3>1. CASE CleanUp \/ Crash
        BY <3>1, EndEffect DEF api, InRun, Working
      <3>2. CASE Restart
        BY <3>2 DEF Restart, InRun, Working
      <3> QED BY <1>5, <3>1, <3>2
    <2> QED BY <2>1 DEF GenInv, Older
  <1>6. CASE EditSpec
    <2>1. /\ object'.status = object.status /\ object'.spec.gen = object.spec.gen + 1
          /\ UNCHANGED <<cache, res, pc>>
      BY <1>6, EditSpecEffect DEF EditSpec, Edit, locals
    <2> QED BY <2>1 DEF GenInv, Older, InRun, Working
  <1>7. CASE Drift
    <2>1. UNCHANGED <<object, cache, res, pc>>
      BY <1>7 DEF Drift, api, locals
    <2> QED BY <2>1 DEF GenInv, Older, InRun, Working
  <1>8. CASE \/ TimerFires \/ Deliver \/ DeliverConfigMap \/ PodStarts \/ EditConfigMap
             \/ ApprovePlan \/ ReworkPlan \/ UNCHANGED vars
    <2>1. object' = object /\ cache' \in {object, cache} /\ UNCHANGED <<res, pc>>
      BY <1>8, ElsewhereEffect DEF Elsewhere
    <2> QED BY <2>1 DEF GenInv, Older, InRun, Working
  <1> QED BY <1>1, <1>2, <1>3, <1>4, <1>5, <1>6, <1>7, <1>8 DEF Next, Worker

-----------------------------------------------------------------------------
(* Ready for the current generation.                                       *)

\* Ready, and for the generation it carries.
Settled(o) ==
  o.status.ready /\ o.status.obsGen = o.spec.gen /\ o.spec.kind # "configMap"

\* The schema of the spec is in place, and is the one observed.
InPlace(o) ==
  db[o.spec.target] = o.spec.desired /\ o.status.applied.hash = o.spec.desired

\* A settled resource is only ever reconciled for the spec that is in place,
\* whatever copy of it the worker reads; a run moves its target towards the
\* schema that it holds already, and so changes nothing.
ObservedInv ==
  /\ Settled(object) => Source.spec = object.spec
  /\ \A o \in {object, Source} : Settled(o) /\ InRun => res.spec = o.spec
  /\ Working /\ res.spec.kind # "configMap" => data = res.spec.desired
  /\ used.drifts = 0 => /\ \A o \in {object, Source} : Settled(o) => InPlace(o)
                        /\ InRun /\ Settled(res) => InPlace(res)

StaleInv == TypeOK /\ GenInv /\ ObservedInv

\* What is in place for the spec of the run stays so.
LEMMA ApproachKeeps ==
  ASSUME TypeOK, Approaches, Working, ObservedInv,
         NEW o, o.spec = res.spec, Settled(o), InPlace(o)
  PROVE  InPlace(o)'
  <1>1. data = res.spec.desired /\ db[res.spec.target] = data
    BY DEF ObservedInv, Settled, InPlace
  <1>2. PICK s \in Schemas :
          /\ db[res.spec.target] \cap data \subseteq s /\ s \subseteq db[res.spec.target] \cup data
          /\ db' = [db EXCEPT ![res.spec.target] = s]
    BY DEF Approaches
  <1>3. s = data
    BY <1>1, <1>2
  <1>4. db'[res.spec.target] = data
    BY <1>2, <1>3, RunTypes DEF TypeOK
  <1> QED BY <1>1, <1>4 DEF InPlace

\* A step that changes the status of the run only.
LEMMA ObservedRun ==
  ASSUME StaleInv, InRun, UNCHANGED <<object, cache>>, res'.spec = res.spec,
         used'.drifts = used.drifts,
         UNCHANGED db \/ (Working /\ Approaches),
         Working' /\ res.spec.kind # "configMap" => data' = res.spec.desired,
         used.drifts = 0 /\ Settled(res)' => InPlace(res)'
  PROVE  ObservedInv'
  <1>1. Source' = Source
    BY DEF Source
  <1>2. ASSUME NEW o \in {object, Source}, Settled(o), used.drifts = 0 PROVE InPlace(o)'
    <2>1. InPlace(o) /\ o.spec = res.spec
      BY <1>2 DEF StaleInv, ObservedInv
    <2>2. CASE UNCHANGED db
      BY <2>1, <2>2 DEF InPlace
    <2>3. CASE Working /\ Approaches
      BY <1>2, <2>1, <2>3, ApproachKeeps DEF StaleInv
    <2> QED BY <2>2, <2>3
  <1>3. (\A o \in {object, Source} : Settled(o) => InPlace(o))' \/ used.drifts # 0
    BY <1>1, <1>2 DEF Settled
  <1> QED BY <1>1, <1>3 DEF StaleInv, ObservedInv, Settled

LEMMA ObservedStep == StaleInv /\ [Next]_vars => ObservedInv'
  <1> SUFFICES ASSUME StaleInv, [Next]_vars PROVE ObservedInv'
    OBVIOUS
  <1>0. TypeOK /\ GenInv /\ ObservedInv
    BY DEF StaleInv
  <1>1. CASE Start
    <2>1. UNCHANGED <<object, cache, db, used>> /\ Source' = Source /\ res'.spec = Source.spec /\ ~Working'
      BY <1>0, <1>1, StartEffect DEF api, dbs, Source, Working
    <2>2. ~res'.status.ready \/ res' = Source
      BY <1>0, <1>1, StartEffect DEF Source
    <2> QED BY <2>1, <2>2, <1>0 DEF ObservedInv, Settled, InPlace
  <1>2. CASE ExtractData
    <2>1. /\ InRun /\ UNCHANGED <<object, cache, db>> /\ res'.spec = res.spec
          /\ used'.drifts = used.drifts
      BY <1>0, <1>2, ExtractEffect DEF Stops, Shown, api, dbs, InRun
    <2>2. CASE Stops
      BY <2>1, <2>2, ObservedRun DEF Stops, Working, Settled
    <2>3. CASE /\ res' = res /\ pc' = "devdb"
               /\ res.spec.kind # "configMap" => data' = res.spec.desired
      <3>1. used.drifts = 0 /\ Settled(res)' => InPlace(res)'
        BY <1>0, <2>1, <2>3 DEF ObservedInv, Settled, InPlace
      <3> QED BY <2>1, <2>3, <3>1, ObservedRun
    <2> QED BY <1>0, <1>2, <2>2, <2>3, ExtractEffect
  <1>3. CASE \/ GetDevURL \/ Inspect \/ WhoAmI \/ ListPlans \/ CreatePlan
             \/ SchemaApply \/ Lint \/ AutoApply
    <2>1. WorkStep
      BY <1>0, <1>3, WorkEffect
    <2>2. /\ Working /\ InRun /\ UNCHANGED <<object, cache>> /\ used'.drifts = used.drifts
          /\ res'.spec = res.spec /\ data' = data /\ (UNCHANGED db \/ Approaches)
      BY <2>1 DEF WorkStep, api, InRun, GoesOn, Stops, Succeeds, Shown
    <2>3. res.spec.kind # "configMap" => data = res.spec.desired
      BY <1>0, <2>2 DEF ObservedInv
    <2>4. used.drifts = 0 /\ Settled(res)' => InPlace(res)'
      <3>1. CASE res' = res /\ UNCHANGED db
        BY <1>0, <2>2, <3>1 DEF ObservedInv, Settled, InPlace
      <3>2. CASE ~res'.status.ready
        BY <3>2 DEF Settled
      <3>3. CASE Succeeds /\ db'[res.spec.target] = data
        BY <2>2, <2>3, <3>3 DEF Succeeds, Settled, InPlace
      <3> QED BY <2>1, <3>1, <3>2, <3>3 DEF WorkStep, GoesOn, Stops
    <2> QED BY <2>2, <2>3, <2>4, ObservedRun
  <1>4. CASE WriteStatus
    <2>1. /\ UNCHANGED <<db, res, data, cache>> /\ InRun /\ InRun' /\ ~Working'
          /\ used'.drifts = used.drifts
      BY <1>0, <1>4, WriteEffect DEF dbs, InRun, Working
    <2>2. CASE UNCHANGED object
      <3>1. used.drifts = 0 /\ Settled(res)' => InPlace(res)'
        BY <1>0, <2>1 DEF ObservedInv, Settled, InPlace
      <3> QED BY <2>1, <2>2, <3>1, ObservedRun
    <2>3. CASE /\ FreshReads \/ cache = object
               /\ object'.spec = object.spec /\ object'.status = res.status
      \* What is written is settled only if the run is for the current spec.
      <3>1. Settled(object)' => res.spec = object.spec /\ Settled(res)
        <4>1. Older(res) /\ res.status.obsGen <= res.spec.gen
          BY <1>0, <2>1 DEF GenInv
        <4> QED BY <1>0, <2>3, <4>1, GenTypes DEF Older, Settled
      <3>2. CASE FreshReads
        <4>1. Source' = object'
          BY <3>2 DEF Source
        <4> QED BY <1>0, <2>1, <2>3, <3>1, <4>1 DEF ObservedInv, Settled, InPlace
      <3>3. CASE ~FreshReads
        <4>1. Source' = Source /\ Source = object
          BY <2>1, <2>3, <3>3 DEF Source
        <4> QED BY <1>0, <2>1, <2>3, <3>1, <4>1 DEF ObservedInv, Settled, InPlace
      <3> QED BY <3>2, <3>3
    <2> QED BY <1>0, <1>4, <2>2, <2>3, WriteEffect
  <1>5. CASE CleanUp \/ Crash
    <2>1. UNCHANGED <<object, cache, db>> /\ ~InRun' /\ ~Working' /\ used'.drifts = used.drifts
      BY <1>0, <1>5, EndEffect DEF api, dbs, InRun, Working
    <2> QED BY <2>1, <1>0 DEF ObservedInv, Source, Settled, InPlace
  <1>6. CASE Restart
    <2>1. UNCHANGED <<object, db, used>> /\ cache' = object /\ ~InRun' /\ ~Working'
      BY <1>6 DEF Restart, dbs, InRun, Working
    <2>2. Source' = object
      BY <2>1 DEF Source
    <2> QED BY <2>1, <2>2, <1>0 DEF ObservedInv, Settled, InPlace
  <1>7. CASE EditSpec
    <2>1. UNCHANGED <<db, pc, res, data, cache>> /\ used'.drifts = used.drifts
      BY <1>0, <1>7 DEF EditSpec, Edit, locals, dbs, TypeOK
    <2>2. ~Settled(object)'
      BY <1>0, <1>7, EditSpecEffect, GenTypes DEF GenInv, Settled
    <2>3. Source' \in {object', Source}
      BY <2>1 DEF Source
    <2> QED BY <2>1, <2>2, <2>3, <1>0 DEF ObservedInv, Settled, InPlace, InRun, Working
  <1>8. CASE Drift
    <2>1. UNCHANGED <<object, cache, pc, res, data>> /\ used'.drifts # 0
      BY <1>0, <1>8 DEF Drift, api, locals, TypeOK
    <2> QED BY <2>1, <1>0 DEF ObservedInv, Source, Settled, InRun, Working
  <1>9. CASE \/ TimerFires \/ Deliver \/ DeliverConfigMap \/ PodStarts \/ EditConfigMap
             \/ ApprovePlan \/ ReworkPlan \/ UNCHANGED vars
    <2>1. /\ UNCHANGED <<object, db, res, data, pc>> /\ used'.drifts = used.drifts
          /\ UNCHANGED cache \/ cache' = object
      BY <1>0, <1>9, ElsewhereEffect DEF Elsewhere
    <2>2. Source' \in {Source, object}
      BY <2>1 DEF Source
    <2> QED BY <2>1, <2>2, <1>0 DEF ObservedInv, Settled, InPlace, InRun, Working
  <1> QED BY <1>1, <1>2, <1>3, <1>4, <1>5, <1>6, <1>7, <1>8, <1>9 DEF Next, Worker

\* Ready with a current observedGeneration means that the schema of the spec is
\* deployed on the database that it names, for any informer lag, failed call or
\* status update, review and crash, unless someone else has changed a database.
THEOREM ObservedReadyIsSafe == Spec => []ObservedReadyIsDeployed
  <1>1. Init => StaleInv
    <2> SUFFICES ASSUME Init, TypeOK PROVE StaleInv
      BY InitTypeOK
    <2>1. ~object.status.ready /\ pc = "idle" /\ cache = object /\ object.status.obsGen = 0
      BY DEF Init, NewStatus
    <2> QED BY <2>1, GenTypes DEF StaleInv, GenInv, Older, ObservedInv, Source, Settled,
                                  InRun, Working
  <1>2. StaleInv /\ [Next]_vars => StaleInv'
    BY TypeStep, GenStep, ObservedStep DEF StaleInv
  <1>3. StaleInv => ObservedReadyIsDeployed
    BY DEF StaleInv, ObservedInv, ObservedReadyIsDeployed, Settled, InPlace
  <1> QED BY <1>1, <1>2, <1>3, PTL DEF Spec

-----------------------------------------------------------------------------
(* Reviews.                                                                *)

\* The worker is in a step that a connected resource does not take, or has a
\* plan only where one was picked, and one that was approved for the change.
ReviewInv ==
  /\ pc \in {"lint", "auto"} => res.spec.cloud = "none"
  /\ pc \in {"off", "idle", "extract", "devdb", "inspect", "whoami", "list"} => plan = NoPlan
  /\ pc = "apply" /\ plan # NoPlan => plan.to = data /\ plan.approved

LEMMA ReviewStep ==
  "whoami" \notin FaultKinds /\ ReviewInv /\ [Next]_vars => ReviewInv'
  <1> SUFFICES ASSUME "whoami" \notin FaultKinds, ReviewInv, [Next]_vars PROVE ReviewInv'
    OBVIOUS
  \* A run that ends keeps no promise.
  <1>0. ASSUME pc' = "write" PROVE ReviewInv'
    BY <1>0 DEF ReviewInv
  <1>1. CASE Start \/ ExtractData
    BY <1>1 DEF Start, ExtractData, requeueReconciling, resultErr, finish, ReviewInv
  <1>2. CASE GetDevURL \/ Inspect
    BY <1>2 DEF GetDevURL, Inspect, requeueReconciling, resultErr, resultPending, finish, proceed,
                ReviewInv
  <1>3. CASE WhoAmI
    <2>1. CASE res.spec.cloud = "none" /\ proceed(localStep)
      BY <1>3, <2>1 DEF WhoAmI, localStep, proceed, ReviewInv
    <2>2. CASE \E s \in {"list", "apply"} : proceed(s)
      BY <1>3, <2>2 DEF WhoAmI, proceed, ReviewInv
    <2> QED BY <1>3, <2>1, <2>2 DEF WhoAmI, Fault
  <1>4. CASE ListPlans
    <2>1. CASE pc' = "write"
      BY <1>0, <2>1
    <2>2. CASE \E s \in {"plan", "apply"} : proceed(s)
      BY <1>4, <2>2 DEF ListPlans, proceed, ReviewInv
    <2>3. CASE \E p \in matching : p.approved /\ plan' = p /\ pc' = "apply" /\ UNCHANGED data
      BY <2>3 DEF matching, ReviewInv
    <2> QED BY <1>4, <2>1, <2>2, <2>3 DEF ListPlans, resultCLIErr, resultPending, finish
  <1>5. CASE CreatePlan
    BY <1>0, <1>5 DEF CreatePlan, resultCLIErr, resultPending, markReady, finish
  <1>6. CASE SchemaApply
    <2>1. pc' = "write" \/ pc' = "plan"
      BY <1>6 DEF SchemaApply, applied, appliedUnreported, applyFails, markReady, resultErr,
                  resultCLIErr, finish, proceed
    <2> QED BY <1>0, <2>1 DEF ReviewInv
  <1>7. CASE Lint
    <2>1. pc' = "write" \/ (pc = "lint" /\ pc' = "auto" /\ UNCHANGED res)
      BY <1>7 DEF Lint, resultCLIErr, finish, proceed
    <2> QED BY <1>0, <2>1 DEF ReviewInv
  <1>8. CASE AutoApply
    BY <1>0, <1>8 DEF AutoApply, applied, appliedUnreported, applyFails, markReady, resultErr,
                      resultCLIErr, finish
  <1>9. CASE WriteStatus \/ CleanUp \/ Crash
    BY <1>9 DEF WriteStatus, CleanUp, Crash, endRun, proceed, ReviewInv
  <1>10. CASE Restart
    BY <1>10 DEF Restart, locals, ReviewInv
  <1>11. CASE \/ TimerFires \/ Deliver \/ DeliverConfigMap \/ PodStarts \/ EditSpec \/ EditConfigMap
              \/ ApprovePlan \/ ReworkPlan \/ Drift \/ UNCHANGED vars
    <2>1. UNCHANGED <<pc, locals>>
      BY <1>11 DEF TimerFires, Deliver, DeliverConfigMap, PodStarts, EditSpec, EditConfigMap, Edit,
                   ApprovePlan, ReworkPlan, Drift, vars, locals
    <2> QED BY <2>1 DEF locals, ReviewInv
  <1> QED BY <1>1, <1>2, <1>3, <1>4, <1>5, <1>6, <1>7, <1>8, <1>9, <1>10, <1>11 DEF Next, Worker

\* Only the two applies change a database at the end of a worker's step.
LEMMA OnlyApplies ==
  ASSUME [Next]_vars, Changes
  PROVE  \/ SchemaApply /\ (applied \/ appliedUnreported \/ applyFails)
         \/ AutoApply
  <1>1. pc \in {"apply", "auto"} /\ pc' = "write" /\ db' # db
    BY DEF Changes
  <1>2. SchemaApply \/ AutoApply
    BY <1>1 DEF Next, Worker, Start, ExtractData, GetDevURL, Inspect, WhoAmI, ListPlans, CreatePlan,
                Lint, WriteStatus, CleanUp, TimerFires, Deliver, DeliverConfigMap, PodStarts, Crash,
                Restart, EditSpec, EditConfigMap, Edit, ApprovePlan, ReworkPlan, Drift, vars, endRun
  <1> QED BY <1>1, <1>2 DEF SchemaApply, dbs

\* A change that the review policy of a connected resource covers is applied only
\* with a plan that a reviewer has approved for exactly this change, whatever
\* happens to plans and databases in between; whoami must not fail, for then the
\* run goes on as if the resource were not connected.
THEOREM ReviewHonored == "whoami" \notin FaultKinds => (Spec => ReviewIsHonored)
  <1> SUFFICES ASSUME "whoami" \notin FaultKinds PROVE Spec => ReviewIsHonored
    OBVIOUS
  <1>1. Init => ReviewInv
    BY DEF Init, ReviewInv
  <1>2. ReviewInv /\ [Next]_vars => ReviewInv'
    BY ReviewStep
  <1>3. ReviewInv /\ [Next]_vars =>
          (Changes /\ res.spec.cloud # "none" =>
             LET now == db[res.spec.target]
             IN  NeedsReview(res.spec.policy, now, data) =>
                   \E p \in plans : p.from = now /\ p.to = data /\ p.approved)
    <2> SUFFICES ASSUME ReviewInv, [Next]_vars, Changes, res.spec.cloud # "none",
                        NeedsReview(res.spec.policy, db[res.spec.target], data)
                 PROVE  \E p \in plans : /\ p.from = db[res.spec.target]
                                         /\ p.to = data /\ p.approved
      OBVIOUS
    <2>1. pc = "apply" /\ SchemaApply /\ (applied \/ appliedUnreported \/ applyFails)
      BY OnlyApplies DEF ReviewInv, Changes, AutoApply
    <2>2. plan # NoPlan /\ plan \in plans /\ plan.from = db[res.spec.target]
      BY <2>1 DEF SchemaApply, Changes, dbs
    <2> QED BY <2>1, <2>2 DEF ReviewInv
  <1> QED BY <1>1, <1>2, <1>3, PTL DEF Spec, ReviewIsHonored

-----------------------------------------------------------------------------
(* The first apply.                                                        *)

\* Only a success sets LastApplied.
LEMMA FailureKeepsPayload ==
  ASSUME TypeOK, NEW reason \in Reasons, res' = [res EXCEPT !.status = failed(reason)]
  PROVE  res'.status.applied = res.status.applied
  <1>1. failed(reason).applied = res.status.applied
    BY RunTypes DEF failed, SetNotReady, Statuses
  <1>2. res'.status = failed(reason)
    BY DEF TypeOK, Resources
  <1> QED BY <1>1, <1>2

LEMMA RequeueKeepsPayload ==
  ASSUME NEW r \in Resources, requeueReconciling(r)
  PROVE  res'.status.applied = r.status.applied /\ res'.spec = r.spec
  <1> DEFINE st == SetReconciling(r.status, r.spec.gen)
  <1>1. st.applied = r.status.applied
    BY DEF SetReconciling, Resources, Statuses
  <1>2. res' = [r EXCEPT !.status = st]
    BY DEF requeueReconciling
  <1> HIDE DEF st
  <1> QED BY <1>1, <1>2 DEF Resources

\* The steps of a run that do not end it as ready.
LEMMA RunKeepsPayload ==
  ASSUME TypeOK, ~markReady,
         \/ ExtractData \/ GetDevURL \/ Inspect \/ WhoAmI \/ ListPlans \/ CreatePlan
         \/ SchemaApply \/ Lint \/ AutoApply
  PROVE  res'.status.applied = res.status.applied
  <1> USE ReasonsType
  <1>1. ASSUME NEW reason \in Reasons,
               \/ resultErr(reason) \/ resultCLIErr(reason) \/ resultPending(reason)
               \/ finish(failed(reason), "none")
        PROVE  res'.status.applied = res.status.applied
    BY <1>1, FailureKeepsPayload DEF resultErr, resultCLIErr, resultPending, finish
  <1>2. CASE res' = res
    BY <1>2
  <1>3. CASE ExtractData \/ GetDevURL
    BY <1>1, <1>2, <1>3 DEF ExtractData, GetDevURL, proceed
  <1>4. CASE Inspect
    <2>1. requeueReconciling(res) => res'.status.applied = res.status.applied
      BY RequeueKeepsPayload DEF TypeOK
    <2> QED BY <1>1, <1>2, <1>4, <2>1 DEF Inspect, proceed
  <1>5. CASE WhoAmI
    BY <1>2, <1>5, FailureKeepsPayload DEF WhoAmI, proceed
  <1>6. CASE ListPlans \/ CreatePlan
    BY <1>1, <1>2, <1>6 DEF ListPlans, CreatePlan, proceed
  <1>7. CASE SchemaApply \/ AutoApply
    BY <1>1, <1>2, <1>7 DEF SchemaApply, AutoApply, applied, appliedUnreported, applyFails, proceed
  <1>8. CASE Lint
    BY <1>1, <1>2, <1>8 DEF Lint, proceed
  <1> QED BY <1>3, <1>4, <1>5, <1>6, <1>7, <1>8

\* As long as nothing has been applied no status says otherwise, and the apply
\* that follows a lint adds to the target.  All copies name the same spec.cloud,
\* which is not edited.
FirstInv ==
  /\ cache.spec.cloud = object.spec.cloud
  /\ InRun => res.spec.cloud = object.spec.cloud
  /\ pc \in {"list", "plan", "apply"} => res.spec.cloud # "none"
  /\ object.spec.cloud = "none" /\ managed = {} =>
       /\ object.status.applied.lastApplied = 0
       /\ cache.status.applied.lastApplied = 0
       /\ InRun => res.status.applied.lastApplied = 0
       /\ pc = "auto" => db[res.spec.target] \subseteq data

LEMMA FirstStep ==
  MaxDrifts = 0 /\ TypeOK /\ FirstInv /\ [Next]_vars => FirstInv'
  <1> SUFFICES ASSUME MaxDrifts = 0, TypeOK, FirstInv, [Next]_vars PROVE FirstInv'
    OBVIOUS
  <1>1. CASE Start
    <2> DEFINE r == IF FreshReads THEN object ELSE cache
    <2>1. r \in Resources
      BY DEF TypeOK
    <2>2. requeueReconciling(r) \/ res' = r
      BY <1>1 DEF Start
    <2>3. UNCHANGED <<object, cache, db, managed>> /\ pc' \in {"write", "extract"}
      BY <1>1, StartEffect DEF api, dbs
    <2>4. r \in {object, cache}
      OBVIOUS
    <2> HIDE DEF r
    <2>5. res'.status.applied = r.status.applied /\ res'.spec = r.spec
      BY <2>1, <2>2, RequeueKeepsPayload
    <2> QED BY <2>3, <2>4, <2>5 DEF FirstInv
  <1>2. CASE ExtractData
    <2>1. /\ UNCHANGED <<object, cache, managed>> /\ InRun /\ res'.spec = res.spec
          /\ pc' \in {"write", "devdb"}
      BY <1>2, ExtractEffect DEF Stops, Shown, api, dbs, InRun
    <2>2. ~markReady
      BY <1>2, ExtractEffect, MarkReadyEffect DEF Stops, Succeeds
    <2>3. res'.status.applied = res.status.applied
      BY <1>2, <2>2, RunKeepsPayload
    <2> QED BY <2>1, <2>3 DEF FirstInv
  <1>3. CASE \/ GetDevURL \/ Inspect \/ WhoAmI \/ ListPlans \/ CreatePlan
             \/ SchemaApply \/ Lint \/ AutoApply
    <2>1. WorkStep
      BY <1>3, WorkEffect
    <2>2. UNCHANGED <<object, cache>> /\ InRun /\ res'.spec = res.spec /\ data' = data
      BY <2>1 DEF WorkStep, api, InRun, GoesOn, Stops, Succeeds, Shown
    <2>3. pc' \in {"list", "plan", "apply"} => res.spec.cloud # "none"
      BY <1>3 DEF FirstInv, GetDevURL, Inspect, WhoAmI, ListPlans, CreatePlan, SchemaApply, Lint,
                  AutoApply, proceed, localStep, resultErr, resultCLIErr, resultPending, finish,
                  requeueReconciling, applied, appliedUnreported, applyFails, markReady
    \* Nothing has been applied, and the resource is not connected.
    <2>4. ASSUME res.spec.cloud = "none", managed' = {}
          PROVE  /\ managed = {} /\ ~markReady
                 /\ pc' = "auto" => db'[res.spec.target] \subseteq data
      <3>1. pc \notin {"list", "plan", "apply"}
        BY <2>4 DEF FirstInv
      <3>2. ~applied /\ ~appliedUnreported
        BY <2>4 DEF applied, appliedUnreported, deploys
      <3>3. managed = {}
        BY <1>3, <2>4, <3>1, <3>2 DEF GetDevURL, Inspect, WhoAmI, ListPlans, CreatePlan, SchemaApply,
                                      Lint, AutoApply, applyFails, dbs
      <3>4. res.status.applied.lastApplied = 0
        BY <2>2, <2>4, <3>3 DEF FirstInv
      <3>5. ASSUME markReady PROVE FALSE
        <4>1. res'.status.ready /\ pc' = "write"
          BY <3>5, MarkReadyEffect DEF Succeeds
        <4>2. \/ \E reason \in Reasons :
                   \/ resultErr(reason) \/ resultCLIErr(reason) \/ resultPending(reason)
                   \/ finish(failed(reason), "none")
              \/ requeueReconciling(res)
          BY <1>3, <3>1, <3>2, <4>1, ReasonsType
          DEF GetDevURL, Inspect, WhoAmI, ListPlans, CreatePlan, SchemaApply, Lint, AutoApply,
              applyFails, proceed, localStep
        <4>3. ~res'.status.ready
          BY <4>2, StopsEffect, RequeueEffect DEF Stops, TypeOK
        <4> QED BY <4>1, <4>3
      <3>6. pc' = "auto" => db'[res.spec.target] \subseteq data
        BY <1>3, <3>1, <3>4
        DEF GetDevURL, Inspect, WhoAmI, ListPlans, CreatePlan, SchemaApply, Lint, AutoApply,
            proceed, localStep, resultErr, resultCLIErr, resultPending, requeueReconciling,
            applied, appliedUnreported, applyFails, markReady, finish, Drops, dbs
      <3> QED BY <3>3, <3>5, <3>6
    <2>5. ~markReady => res'.status.applied = res.status.applied
      BY <1>3, RunKeepsPayload
    <2> QED BY <2>2, <2>3, <2>4, <2>5 DEF FirstInv
  <1>4. CASE WriteStatus
    <2>1. /\ UNCHANGED <<res, data, cache, db, managed>> /\ InRun /\ pc' = "cleanup"
          /\ object'.spec = object.spec /\ object'.status \in {object.status, res.status}
      BY <1>4, WriteEffect DEF dbs, InRun
    <2> QED BY <2>1 DEF FirstInv
  <1>5. CASE CleanUp \/ Crash
    <2>1. UNCHANGED <<object, cache, db, managed>> /\ pc' \in {"idle", "off"}
      BY <1>5, EndEffect DEF api, dbs
    <2> QED BY <2>1 DEF FirstInv, InRun, Working
  <1>6. CASE Restart
    <2>1. UNCHANGED <<object, db, managed>> /\ cache' = object /\ pc' = "idle"
      BY <1>6 DEF Restart, dbs
    <2> QED BY <2>1 DEF FirstInv, InRun, Working
  <1>7. CASE EditSpec
    <2>1. UNCHANGED <<cache, db, managed, pc, res, data>>
      BY <1>7 DEF EditSpec, Edit, dbs, locals
    <2>2. object'.spec.cloud = object.spec.cloud /\ object'.status = object.status
      BY <1>7, EditSpecEffect
    <2> QED BY <2>1, <2>2 DEF FirstInv, InRun, Working
  <1>8. CASE Drift
    BY <1>8 DEF Drift, TypeOK
  <1>9. CASE \/ TimerFires \/ Deliver \/ DeliverConfigMap \/ PodStarts \/ EditConfigMap
             \/ ApprovePlan \/ ReworkPlan \/ UNCHANGED vars
    <2>1. UNCHANGED <<object, db, managed, res, data, pc>> /\ cache' \in {object, cache}
      BY <1>9, ElsewhereEffect DEF Elsewhere
    <2> QED BY <2>1 DEF FirstInv, InRun, Working
  <1> QED BY <1>1, <1>2, <1>3, <1>4, <1>5, <1>6, <1>7, <1>8, <1>9 DEF Next, Worker

\* The first apply of a resource that is not connected to Atlas Cloud drops
\* nothing, for any edits, failures (also of whoami and of the apply itself), lost
\* status updates, crashes and informer lag, as long as nobody else changes a
\* database: lint looks at a dry run, and the apply computes the change again.
THEOREM FirstApplyAdds == MaxDrifts = 0 => (Spec => FirstRunIsAdditive)
  <1> SUFFICES ASSUME MaxDrifts = 0 PROVE Spec => FirstRunIsAdditive
    OBVIOUS
  <1>1. Init => TypeOK /\ FirstInv
    <2>1. Init => FirstInv
      BY DEF Init, FirstInv, InRun, Working, NewStatus, NoPayload
    <2> QED BY <2>1, InitTypeOK
  <1>2. TypeOK /\ FirstInv /\ [Next]_vars => TypeOK' /\ FirstInv'
    BY TypeStep, FirstStep
  <1>3. TypeOK /\ FirstInv /\ [Next]_vars =>
          (Changes /\ res.spec.cloud = "none" /\ managed = {} =>
             db[res.spec.target] \subseteq db'[res.spec.target])
    <2> SUFFICES ASSUME TypeOK, FirstInv, [Next]_vars, Changes, res.spec.cloud = "none", managed = {}
                 PROVE  db[res.spec.target] \subseteq db'[res.spec.target]
      OBVIOUS
    <2>1. pc = "auto" /\ AutoApply /\ InRun
      BY OnlyApplies DEF FirstInv, Changes, SchemaApply, InRun, Working
    <2>2. db[res.spec.target] \subseteq data
      BY <2>1 DEF FirstInv
    <2>3. Approaches
      BY <2>1, DeploysEffect, ApplyFailsEffect DEF AutoApply, applied, appliedUnreported
    <2> QED BY <2>2, <2>3, RunTypes DEF Approaches, TypeOK
  <1> QED BY <1>1, <1>2, <1>3, PTL DEF Spec, FirstRunIsAdditive
=============================================================================
