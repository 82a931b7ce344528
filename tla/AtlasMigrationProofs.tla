------------------------ MODULE AtlasMigrationProofs ------------------------
(***************************************************************************)
(* Theorems about AtlasMigration for every value of its constants.         *)
(***************************************************************************)
EXTENDS AtlasMigration, TLAPS

-----------------------------------------------------------------------------
(* The status operators.                                                   *)

\* IncrementFailed stays within its bound (AtlasMigrationStatus.Failed).
LEMMA IncrementFailedType ==
  ASSUME NEW n \in 0..MaxFailed
  PROVE  IncrementFailed(n) \in 0..MaxFailed
  BY MaxFailedAssumption DEF IncrementFailed

\* SetReconciling, SetReady and SetNotReady return a status, keep or replace the
\* payload, and say whether the resource is ready.
LEMMA SetReconcilingType ==
  ASSUME NEW st \in Statuses, NEW gen \in Nat
  PROVE  /\ SetReconciling(st, gen) \in Statuses
         /\ ~SetReconciling(st, gen).ready
         /\ SetReconciling(st, gen).obsGen = gen
  <1>1. "Reconciling" \in Reasons /\ 0 \in 0..MaxFailed
    BY MaxFailedAssumption DEF Reasons, WaitReasons
  <1> QED
    BY <1>1 DEF SetReconciling, Statuses

LEMMA SetReadyType ==
  ASSUME NEW p \in Payload, NEW gen \in Nat
  PROVE  /\ SetReady(p, gen) \in Statuses
         /\ SetReady(p, gen).ready
         /\ SetReady(p, gen).applied = p
         /\ SetReady(p, gen).obsGen = gen
  BY MaxFailedAssumption DEF SetReady, Statuses, Reasons

LEMMA SetNotReadyType ==
  ASSUME NEW st \in Statuses, NEW gen \in Nat, NEW reason \in Reasons
  PROVE  /\ SetNotReady(st, gen, reason) \in Statuses
         /\ ~SetNotReady(st, gen, reason).ready
         /\ SetNotReady(st, gen, reason).obsGen = gen
  <1>1. st.failed \in 0..MaxFailed
    BY DEF Statuses
  <1>2. IncrementFailed(st.failed) \in 0..MaxFailed
    BY <1>1, IncrementFailedType
  <1> QED
    BY <1>1, <1>2 DEF SetNotReady, Statuses, isFailedReason

\* The values the worker holds between two runs have their types.
LEMMA IdleValues == NoRes \in Resources /\ NoData \in Data /\ NoPayload \in Payload
  <1>1. SpecsOf({1}) # {} /\ SpecsOf({1}) \subseteq Specs
    <2>1. PICK k \in DirKinds, t \in Targets, f \in Flows : TRUE
      BY ConstantsAssumption
    <2>2. [gen |-> 1, kind |-> k, target |-> t, files |-> 0, flows |-> f] \in SpecsOf({1})
      BY ConstantsAssumption DEF SpecsOf, Files
    <2>3. SpecsOf({1}) \subseteq Specs
      BY DEF SpecsOf, Specs
    <2> QED BY <2>2, <2>3
  <1>2. NoPayload \in Payload
    BY ConstantsAssumption DEF NoPayload, Payload, NoHash, Files
  <1>3. NewStatus(NoPayload) \in Statuses
    BY <1>2, MaxFailedAssumption DEF NewStatus, Statuses, Reasons, WaitReasons
  <1>4. Hashes # {}
    <2>1. PICK t \in Targets : TRUE
      BY ConstantsAssumption
    <2>2. [target |-> t, files |-> 0] \in Hashes
      BY ConstantsAssumption DEF Hashes, Files
    <2> QED BY <2>2
  <1>5. NoRes \in Resources
    BY <1>1, <1>3 DEF NoRes, Resources
  <1>6. NoData \in Data
    BY <1>4 DEF NoData, Data
  <1> QED BY <1>2, <1>5, <1>6

-----------------------------------------------------------------------------
(* How a step of the reconcile ends.                                       *)

\* The parts of a run that its last step leaves typed.
LocalsOK ==
  /\ res \in Resources /\ pc \in Steps /\ data \in Data
  /\ seen \in Files /\ result \in Results

LEMMA ResultErrEffect ==
  ASSUME TypeOK, NEW reason \in Reasons, resultErr(reason)
  PROVE  /\ LocalsOK' /\ ~res'.status.ready /\ res'.spec = res.spec
         /\ res'.status.obsGen = res.spec.gen
         /\ pc' = "write" /\ UNCHANGED <<data, seen>>
  <1> DEFINE st == SetNotReady(res.status, res.spec.gen, reason)
  <1>1. res.status \in Statuses /\ res.spec \in Specs /\ res.spec.gen \in Nat
    BY DEF TypeOK, Resources, Specs, SpecsOf
  <1>2. st \in Statuses /\ ~st.ready /\ st.obsGen = res.spec.gen
    BY <1>1, SetNotReadyType
  <1>3. res' = [res EXCEPT !.status = st]
    BY DEF resultErr
  <1> HIDE DEF st
  <1>4. res' \in Resources /\ res'.status = st /\ res'.spec = res.spec
    BY <1>1, <1>2, <1>3 DEF TypeOK, Resources
  <1>5. result' \in Results /\ pc' = "write" /\ UNCHANGED <<data, seen>>
    BY DEF resultErr, Results
  <1> QED
    BY <1>2, <1>4, <1>5 DEF LocalsOK, TypeOK, Steps

LEMMA ResultPendingEffect ==
  ASSUME TypeOK, NEW reason \in Reasons, resultPending(reason)
  PROVE  /\ LocalsOK' /\ ~res'.status.ready /\ res'.spec = res.spec
         /\ res'.status.obsGen = res.spec.gen
         /\ pc' = "write" /\ UNCHANGED <<data, seen>>
  <1> DEFINE st == SetNotReady(res.status, res.spec.gen, reason)
  <1>1. res.status \in Statuses /\ res.spec \in Specs /\ res.spec.gen \in Nat
    BY DEF TypeOK, Resources, Specs, SpecsOf
  <1>2. st \in Statuses /\ ~st.ready /\ st.obsGen = res.spec.gen
    BY <1>1, SetNotReadyType
  <1>3. res' = [res EXCEPT !.status = st]
    BY DEF resultPending
  <1> HIDE DEF st
  <1>4. res' \in Resources /\ res'.status = st /\ res'.spec = res.spec
    BY <1>1, <1>2, <1>3 DEF TypeOK, Resources
  <1>5. result' \in Results /\ pc' = "write" /\ UNCHANGED <<data, seen>>
    BY DEF resultPending, Results
  <1> QED
    BY <1>2, <1>4, <1>5 DEF LocalsOK, TypeOK, Steps

LEMMA RequeueEffect ==
  ASSUME NEW r \in Resources, requeueReconciling(r)
  PROVE  /\ res' \in Resources /\ ~res'.status.ready /\ res'.spec = r.spec
         /\ res'.status.obsGen = r.spec.gen
         /\ result' = "requeue" /\ pc' = "write"
  <1> DEFINE st == SetReconciling(r.status, r.spec.gen)
  <1>1. r.status \in Statuses /\ r.spec \in Specs /\ r.spec.gen \in Nat
    BY DEF Resources, Specs, SpecsOf
  <1>2. st \in Statuses /\ ~st.ready /\ st.obsGen = r.spec.gen
    BY <1>1, SetReconcilingType
  <1>3. res' = [r EXCEPT !.status = st] /\ result' = "requeue" /\ pc' = "write"
    BY DEF requeueReconciling
  <1> HIDE DEF st
  <1> QED
    BY <1>1, <1>2, <1>3 DEF Resources

LEMMA MarkReadyEffect ==
  ASSUME TypeOK, NEW v \in Files, markReady(v)
  PROVE  /\ LocalsOK' /\ res'.status.ready /\ res'.spec = res.spec
         /\ res'.status.applied = [hash |-> data.hash, version |-> v]
         /\ res'.status.obsGen = res.spec.gen
         /\ pc' = "store" /\ UNCHANGED <<data, seen, result>>
  <1> DEFINE p  == [hash |-> data.hash, version |-> v]
             st == SetReady(p, res.spec.gen)
  <1>1. res.status \in Statuses /\ res.spec \in Specs /\ res.spec.gen \in Nat
    BY DEF TypeOK, Resources, Specs, SpecsOf
  <1>2. p \in Payload
    BY DEF TypeOK, Data, Payload
  <1>3. st \in Statuses /\ st.ready /\ st.applied = p /\ st.obsGen = res.spec.gen
    BY <1>1, <1>2, SetReadyType
  <1>4. res' = [res EXCEPT !.status = st] /\ pc' = "store" /\ UNCHANGED <<data, seen, result>>
    BY DEF markReady
  <1> HIDE DEF st
  <1>5. res' \in Resources /\ res'.status = st /\ res'.spec = res.spec
    BY <1>1, <1>3, <1>4 DEF TypeOK, Resources
  <1> QED
    BY <1>3, <1>4, <1>5 DEF LocalsOK, TypeOK, Steps

-----------------------------------------------------------------------------
(* Types.                                                                  *)

\* The directory and the target a run works on.
LEMMA DataTypes ==
  ASSUME TypeOK
  PROVE  data.hash \in Hashes /\ data.hash.target \in Targets /\ data.hash.files \in Files
  BY DEF TypeOK, Data, Hashes

LEMMA ExtractType ==
  ASSUME TypeOK, NEW cm \in Files
  PROVE  extractMigrationData(res.spec, cm) \in Data
  <1>1. res.spec \in Specs
    BY DEF TypeOK, Resources
  <1>2. Hash(res.spec, cm) \in Hashes
    BY <1>1 DEF Hash, Desired, Hashes, Specs, SpecsOf
  <1>3. dirState \in Files \cup {NoDir}
    BY DEF TypeOK
  <1> QED
    BY <1>2, <1>3 DEF extractMigrationData, Data

\* The reasons the worker reports.
LEMMA ReasonsType ==
  {"ProtectedFlowError", "ReadingMigrationData", "WhoAmI", "Migrating", "GettingDevDB",
   "ApprovalPending", "PlanRejected", "DriftDetected", "StoringDirState"} \subseteq Reasons
  BY DEF Reasons, WaitReasons

LEMMA FaultType ==
  ASSUME TypeOK, NEW k, Fault(k)
  PROVE  used' \in [edits : Nat, faults : Nat, crashes : Nat]
  BY DEF TypeOK, Fault

LEMMA TypeStep == TypeOK /\ [Next]_vars => TypeOK'
  <1> SUFFICES ASSUME TypeOK, [Next]_vars PROVE TypeOK'
    OBVIOUS
  <1> USE DataTypes, ReasonsType
  <1>1. CASE Start
    <2> DEFINE r == IF FreshReads THEN object ELSE cache
    <2>1. r \in Resources
      BY DEF TypeOK
    <2>2. CASE ~r.status.visited
      <3>1. requeueReconciling(r)
        BY <1>1, <2>2 DEF Start
      <3> HIDE DEF r
      <3>2. res' \in Resources /\ result' = "requeue" /\ pc' = "write"
        BY <2>1, <3>1, RequeueEffect
      <3> QED BY <1>1, <3>2 DEF Start, TypeOK, api, Results, Steps
    <2>3. CASE r.status.visited
      BY <1>1, <2>1, <2>3 DEF Start, TypeOK, api, Results, Steps
    <2> QED BY <2>2, <2>3
  <1>2. CASE ExtractData
    <2> DEFINE cm == IF FreshReads THEN cfgMap ELSE cfgCache
               d  == extractMigrationData(res.spec, cm)
    <2>1. d \in Data
      BY ExtractType DEF TypeOK
    <2>2. UNCHANGED <<api, dirState, db, devDB, queue>>
      BY <1>2 DEF ExtractData
    <2>3. CASE \/ resultErr("ProtectedFlowError") /\ UNCHANGED used
               \/ Fault("extract") /\ resultErr("ReadingMigrationData")
      <3>1. LocalsOK'
        BY <2>3, ResultErrEffect
      <3>2. used' \in [edits : Nat, faults : Nat, crashes : Nat]
        BY <2>3, FaultType DEF TypeOK
      <3> QED BY <2>2, <3>1, <3>2 DEF LocalsOK, TypeOK, api, queue
    <2>4. CASE requeueReconciling(res) /\ UNCHANGED <<data, seen, used>>
      <3>1. res' \in Resources /\ result' = "requeue" /\ pc' = "write"
        BY <2>4, RequeueEffect DEF TypeOK
      <3> QED BY <2>2, <2>4, <3>1 DEF TypeOK, api, queue, Results, Steps
    <2>5. CASE data' = d /\ pc' = "connect" /\ UNCHANGED <<res, seen, result, used>>
      <3> HIDE DEF d
      <3> QED BY <2>1, <2>2, <2>5 DEF TypeOK, api, queue, Steps
    <2> QED
      BY <1>2, <2>3, <2>4, <2>5 DEF ExtractData
  <1>3. CASE Connect
    <2>1. UNCHANGED <<api, dirState, db, devDB, queue>>
      BY <1>3 DEF Connect
    <2>2. CASE proceed("status") /\ UNCHANGED used
      BY <2>1, <2>2 DEF proceed, TypeOK, api, queue, Steps
    <2>3. CASE Fault("connect") /\ resultErr("WhoAmI")
      BY <2>1, <2>3, FaultType, ResultErrEffect DEF LocalsOK, TypeOK, api, queue
    <2> QED BY <1>3, <2>2, <2>3 DEF Connect
  <1>4. CASE MigrateStatus
    <2>1. UNCHANGED <<api, dirState, db, devDB, queue>>
      BY <1>4 DEF MigrateStatus
    <2>2. CASE /\ seen' = db[data.hash.target]
               /\ pc' = "changes" /\ UNCHANGED <<res, data, result, used>>
      BY <2>1, <2>2 DEF TypeOK, api, queue, Steps
    <2>3. CASE Fault("status") /\ resultErr("Migrating")
      BY <2>1, <2>3, FaultType, ResultErrEffect DEF LocalsOK, TypeOK, api, queue
    <2> QED BY <1>4, <2>2, <2>3 DEF MigrateStatus
  <1>5. CASE NoPendingChanges
    <2>1. LocalsOK'
      BY <1>5, MarkReadyEffect DEF NoPendingChanges, TypeOK
    <2> QED BY <1>5, <2>1 DEF NoPendingChanges, LocalsOK, TypeOK, api, queue
  <1>6. CASE PrepareDevDB
    <2>1. UNCHANGED <<api, dirState, db, queue>>
      BY <1>6 DEF PrepareDevDB
    <2>2. CASE /\ proceed(IF data.hash.files < seen THEN "down" ELSE "apply")
               /\ UNCHANGED <<devDB, used>>
      BY <2>1, <2>2 DEF proceed, TypeOK, api, queue, Steps
    <2>3. CASE Fault("render") /\ resultErr("Migrating") /\ UNCHANGED devDB
      BY <2>1, <2>3, FaultType, ResultErrEffect DEF LocalsOK, TypeOK, api, queue
    <2>4. CASE devDB' = devURL(devDB) /\ resultPending("GettingDevDB") /\ UNCHANGED used
      <3>1. devURL(devDB) \in DevDBs
        BY DEF TypeOK, devURL, DevDBs
      <3>2. LocalsOK'
        BY <2>4, ResultPendingEffect
      <3> QED BY <2>1, <2>4, <3>1, <3>2 DEF LocalsOK, TypeOK, api, queue
    <2>5. CASE Fault("devdb") /\ resultPending("GettingDevDB") /\ UNCHANGED devDB
      BY <2>1, <2>5, FaultType, ResultPendingEffect DEF LocalsOK, TypeOK, api, queue
    <2> QED BY <1>6, <2>2, <2>3, <2>4, <2>5 DEF PrepareDevDB
  <1>7. CASE DownRefused
    <2>1. LocalsOK'
      BY <1>7, ResultErrEffect DEF DownRefused
    <2> QED BY <1>7, <2>1 DEF DownRefused, LocalsOK, TypeOK, api, queue
  <1>8. CASE DownPanics
    BY <1>8 DEF DownPanics, TypeOK, api, queue, Results, Steps
  <1>9. CASE DownApplied
    <2>1. LocalsOK'
      BY <1>9, MarkReadyEffect DEF DownApplied
    <2> QED BY <1>9, <2>1 DEF DownApplied, LocalsOK, TypeOK, api, queue
  <1>10. CASE DownFailed
    <2>1. LocalsOK'
      BY <1>10, ResultErrEffect DEF DownFailed
    <2>2. db' \in [Targets -> Files]
      BY <1>10, ConstantsAssumption DEF DownFailed, TypeOK, Files
    <2>3. used' \in [edits : Nat, faults : Nat, crashes : Nat]
      BY <1>10, FaultType DEF DownFailed, TypeOK
    <2> QED BY <1>10, <2>1, <2>2, <2>3 DEF DownFailed, LocalsOK, TypeOK, api, queue
  <1>11. CASE DownReview
    <2>1. LocalsOK'
      BY <1>11, ResultErrEffect, ResultPendingEffect DEF DownReview
    <2> QED BY <1>11, <2>1 DEF DownReview, LocalsOK, TypeOK, api, queue
  <1>12. CASE MigrateApply
    <2>1. LocalsOK'
      BY <1>12, ResultErrEffect, MarkReadyEffect DEF MigrateApply
    <2>2. db' \in [Targets -> Files]
      BY <1>12, ConstantsAssumption DEF MigrateApply, TypeOK, Files
    <2>3. used' \in [edits : Nat, faults : Nat, crashes : Nat]
      BY <1>12, FaultType DEF MigrateApply, TypeOK
    <2> QED BY <1>12, <2>1, <2>2, <2>3 DEF MigrateApply, LocalsOK, TypeOK, api, queue
  <1>13. CASE StoreDirState
    <2>1. LocalsOK'
      BY <1>13, ResultErrEffect DEF StoreDirState, proceed, LocalsOK, TypeOK, Steps
    <2>2. dirState' \in Files \cup {NoDir}
      BY <1>13 DEF StoreDirState, TypeOK
    <2>3. used' \in [edits : Nat, faults : Nat, crashes : Nat]
      BY <1>13, FaultType DEF StoreDirState, TypeOK
    <2> QED BY <1>13, <2>1, <2>2, <2>3 DEF StoreDirState, LocalsOK, TypeOK, api, queue
  <1>14. CASE WriteStatus
    <2>1. object' \in Resources
      BY <1>14 DEF WriteStatus, TypeOK, Resources
    <2>2. used' \in [edits : Nat, faults : Nat, crashes : Nat]
      BY <1>14, FaultType DEF WriteStatus, TypeOK
    <2>3. watching' \in BOOLEAN
      BY <1>14 DEF WriteStatus
    <2> QED BY <1>14, <2>1, <2>2, <2>3 DEF WriteStatus, proceed, TypeOK, Steps
  <1>15. CASE CleanUp
    <2>1. devDB' \in DevDBs
      <3>1. cleanUp(devDB, Prewarm) \in DevDBs
        BY ConstantsAssumption DEF TypeOK, cleanUp, DevDBs
      <3> QED BY <1>15, <3>1 DEF CleanUp, TypeOK
    <2>2. used' \in [edits : Nat, faults : Nat, crashes : Nat]
      BY <1>15, FaultType DEF CleanUp, TypeOK
    <2>3. queued' \in BOOLEAN /\ timer' \in BOOLEAN
      BY <1>15 DEF CleanUp
    <2> QED
      BY <1>15, <2>1, <2>2, <2>3, IdleValues, ConstantsAssumption
      DEF CleanUp, endRun, TypeOK, api, Steps, Results, Files
  <1>16. CASE TimerFires
    BY <1>16 DEF TimerFires, TypeOK, api, locals
  <1>17. CASE Deliver
    <2>1. queued' \in BOOLEAN
      BY <1>17 DEF Deliver
    <2> QED BY <1>17, <2>1 DEF Deliver, TypeOK, locals
  <1>18. CASE DeliverConfigMap
    <2>1. queued' \in BOOLEAN
      BY <1>18 DEF DeliverConfigMap
    <2> QED BY <1>18, <2>1 DEF DeliverConfigMap, TypeOK, locals
  <1>19. CASE PodStarts
    <2>1. PodReady(devDB) \in DevDBs
      BY DEF TypeOK, DevDBs, PodReady
    <2> QED BY <1>19, <2>1 DEF PodStarts, TypeOK, api, queue, locals
  <1>20. CASE Crash
    <2>1. used' \in [edits : Nat, faults : Nat, crashes : Nat]
      BY <1>20 DEF Crash, TypeOK
    <2>2. LocalsOK'
      BY <1>20, IdleValues, ConstantsAssumption
      DEF Crash, endRun, LocalsOK, Steps, Results, Files
    <2>3. queued' \in BOOLEAN /\ timer' \in BOOLEAN /\ watching' \in BOOLEAN
      BY <1>20 DEF Crash
    <2> QED BY <1>20, <2>1, <2>2, <2>3 DEF Crash, LocalsOK, TypeOK, api
  <1>21. CASE Restart
    BY <1>21 DEF Restart, TypeOK, locals, Steps
  <1>22. CASE EditSpec
    <2>1. PICK t \in Targets, f \in Files, fl \in Flows :
            object' = [object EXCEPT !.spec =
              [[object.spec EXCEPT !.target = t, !.files = f, !.flows = fl]
                 EXCEPT !.gen = @ + 1]]
      BY <1>22 DEF EditSpec
    <2>2. object.spec \in Specs /\ object.status \in Statuses
      BY DEF TypeOK, Resources
    <2> DEFINE s == [object.spec EXCEPT !.target = t, !.files = f, !.flows = fl]
    <2>3. s \in Specs
      BY <2>2 DEF Specs, SpecsOf
    <2>4. object' \in Resources
      <3>1. object' = [object EXCEPT !.spec = [s EXCEPT !.gen = @ + 1]]
        BY <2>1
      <3> HIDE DEF s
      <3>2. [s EXCEPT !.gen = @ + 1] \in Specs
        BY <2>3 DEF Specs, SpecsOf
      <3> QED BY <2>2, <3>1, <3>2 DEF TypeOK, Resources
    <2>5. used' \in [edits : Nat, faults : Nat, crashes : Nat]
      BY <1>22 DEF EditSpec, Edit, TypeOK
    <2> QED BY <1>22, <2>4, <2>5 DEF EditSpec, Edit, TypeOK, queue, locals
  <1>23. CASE EditConfigMap
    BY <1>23 DEF EditConfigMap, Edit, TypeOK, queue, locals
  <1>24. CASE UNCHANGED vars
    BY <1>24 DEF vars, TypeOK
  <1> QED
    BY <1>1, <1>2, <1>3, <1>4, <1>5, <1>6, <1>7, <1>8, <1>9, <1>10, <1>11, <1>12,
       <1>13, <1>14, <1>15, <1>16, <1>17, <1>18, <1>19, <1>20, <1>21, <1>22, <1>23, <1>24
    DEF Next, Worker

LEMMA InitTypeOK == Init => TypeOK
  <1> SUFFICES ASSUME Init PROVE TypeOK
    OBVIOUS
  <1>1. NewStatus(NoPayload) \in Statuses
    BY IdleValues, MaxFailedAssumption DEF NewStatus, Statuses, Reasons, WaitReasons
  <1>2. object \in Resources /\ object.spec.files \in Files
    BY <1>1 DEF Init, Resources, Specs, SpecsOf
  <1>3. 0 \in Files
    BY ConstantsAssumption DEF Files
  <1>4. devDB \in DevDBs
    BY DEF Init, NoDeployment, DevDBs
  <1>5. db \in [Targets -> Files]
    BY <1>3 DEF Init
  <1>6. /\ queued \in BOOLEAN /\ timer \in BOOLEAN /\ watching \in BOOLEAN
        /\ pc \in Steps /\ result \in Results
    BY DEF Init, Steps, Results
  <1>7. used \in [edits : Nat, faults : Nat, crashes : Nat]
    BY DEF Init
  <1> QED
    BY <1>2, <1>3, <1>4, <1>5, <1>6, <1>7, IdleValues DEF Init, TypeOK

\* Every state of the controller and of its environment is well typed, for any
\* set of targets and any bounds.
THEOREM TypeCorrect == Spec => []TypeOK
  BY InitTypeOK, TypeStep, PTL DEF Spec

-----------------------------------------------------------------------------
(* Inductive invariants.                                                   *)

\* An edit keeps the status and the kind of directory and counts a generation.
LEMMA EditSpecEffect ==
  ASSUME TypeOK, EditSpec
  PROVE  /\ object'.status = object.status
         /\ object'.spec.kind = object.spec.kind
         /\ object'.spec.gen = object.spec.gen + 1
  <1>1. PICK t \in Targets, f \in Files, fl \in Flows :
          object' = [object EXCEPT !.spec =
            [[object.spec EXCEPT !.target = t, !.files = f, !.flows = fl]
               EXCEPT !.gen = @ + 1]]
    BY DEF EditSpec
  <1>2. object.spec \in Specs /\ object \in Resources
    BY DEF TypeOK, Resources
  <1> DEFINE s  == [object.spec EXCEPT !.target = t, !.files = f, !.flows = fl]
             s2 == [s EXCEPT !.gen = @ + 1]
  <1>3. s \in Specs /\ s.kind = object.spec.kind /\ s.gen = object.spec.gen
    BY <1>2 DEF Specs, SpecsOf
  <1>4. object' = [object EXCEPT !.spec = s2]
    BY <1>1
  <1>5. s2.kind = s.kind /\ s2.gen = s.gen + 1
    <2> HIDE DEF s
    <2> QED BY <1>3 DEF Specs, SpecsOf
  <1> HIDE DEF s, s2
  <1> QED BY <1>2, <1>3, <1>4, <1>5 DEF Resources

\* Steps at which the worker holds a copy of the resource, and those at which
\* it also holds extracted data and has not finished changing the database.
InRun   == pc \notin {"off", "idle"}
Working == pc \in {"connect", "status", "changes", "down", "apply"}

\* The revisions read by migrate status are still those of the database, and
\* a step that changes it has something to change.
SeenInv ==
  /\ pc \in {"changes", "down", "apply"} => seen = db[data.hash.target]
  /\ pc = "down" => data.hash.files < seen
  /\ pc = "apply" => seen < data.hash.files

\* The worker marked its copy ready for the data it deployed.
StoreInv ==
  pc = "store" =>
    /\ res.status.ready
    /\ res.status.applied = [hash |-> data.hash, version |-> data.hash.files]
    /\ res.status.obsGen = res.spec.gen
    /\ db[data.hash.target] = data.hash.files

\* Until its status update, the worker's copy of the status is the stored one,
\* and a ready one is only worked on for the same hash.  A run therefore never
\* has a different deployment to certify than the one that is claimed.
FreshRun ==
  /\ pc = "extract" \/ Working => res.status = object.status
  /\ Working /\ res.status.ready => res.status.applied.hash = data.hash
  /\ pc = "store" /\ object.status.ready => object.status.applied.hash = data.hash
  /\ pc = "write" /\ object.status.ready /\ res.status.ready =>
       object.status.applied.hash = res.status.applied.hash
  /\ pc \in {"write", "cleanup"} /\ res.status.ready =>
       InPlace(res.status.applied, res.spec.kind)
  /\ InRun => res.spec.kind = object.spec.kind

FreshInv == TypeOK /\ SeenInv /\ StoreInv /\ ReadyMeansDeployed /\ FreshRun

\* A step that ends the run's work leaves nothing for SeenInv and StoreInv.
LEMMA WriteEndsWork ==
  ASSUME pc' \in {"write", "cleanup", "idle", "off", "extract", "connect", "status"}
  PROVE  SeenInv' /\ StoreInv'
  BY DEF SeenInv, StoreInv

LEMMA WorkStep == TypeOK /\ SeenInv /\ StoreInv /\ [Next]_vars => SeenInv' /\ StoreInv'
  <1> SUFFICES ASSUME TypeOK, SeenInv, StoreInv, [Next]_vars PROVE SeenInv' /\ StoreInv'
    OBVIOUS
  <1> USE DataTypes, ReasonsType
  <1>1. CASE Start \/ ExtractData \/ Connect \/ DownRefused \/ DownPanics \/ DownReview
               \/ DownFailed \/ WriteStatus \/ CleanUp \/ Crash \/ Restart
    <2>1. pc' \in {"write", "cleanup", "idle", "off", "extract", "connect", "status"}
      BY <1>1 DEF Start, ExtractData, Connect, DownRefused, DownPanics, DownReview, DownFailed,
                  WriteStatus, CleanUp, Crash, Restart, requeueReconciling, resultErr,
                  resultPending, proceed, endRun
    <2> QED BY <2>1, WriteEndsWork
  <1>2. CASE MigrateStatus
    <2>1. CASE pc' = "write"
      BY <2>1, WriteEndsWork
    <2>2. CASE /\ pc = "status" /\ seen' = db[data.hash.target]
               /\ pc' = "changes" /\ UNCHANGED <<db, data>>
      BY <2>2 DEF SeenInv, StoreInv
    <2> QED BY <1>2, <2>1, <2>2 DEF MigrateStatus, resultErr
  <1>3. CASE NoPendingChanges
    <2>1. markReady(seen) /\ seen = data.hash.files /\ seen = db[data.hash.target] /\ db' = db
      BY <1>3 DEF NoPendingChanges, SeenInv
    <2>2. /\ res'.status.ready /\ res'.spec = res.spec /\ res'.status.obsGen = res.spec.gen
          /\ res'.status.applied = [hash |-> data.hash, version |-> seen]
          /\ pc' = "store" /\ UNCHANGED <<data, seen>>
      BY <2>1, MarkReadyEffect DEF TypeOK
    <2> QED BY <2>1, <2>2 DEF SeenInv, StoreInv
  <1>4. CASE PrepareDevDB
    <2>1. CASE pc' = "write"
      BY <2>1, WriteEndsWork
    <2>2. CASE proceed(IF data.hash.files < seen THEN "down" ELSE "apply")
      <3>1. /\ pc = "changes" /\ seen # data.hash.files /\ db' = db
            /\ seen \in Files /\ data.hash.files \in Files
        BY <1>4 DEF PrepareDevDB, TypeOK
      <3> QED BY <2>2, <3>1, ConstantsAssumption DEF proceed, SeenInv, StoreInv, Files
    <2> QED BY <1>4, <2>1, <2>2 DEF PrepareDevDB, resultErr, resultPending
  <1>5. CASE DownApplied \/ MigrateApply
    <2>1. CASE pc' = "write"
      BY <2>1, WriteEndsWork
    <2>2. CASE /\ db' = [db EXCEPT ![data.hash.target] = data.hash.files]
               /\ markReady(data.hash.files)
      <3>1. /\ res'.status.ready /\ res'.spec = res.spec /\ res'.status.obsGen = res.spec.gen
            /\ res'.status.applied = [hash |-> data.hash, version |-> data.hash.files]
            /\ pc' = "store" /\ UNCHANGED <<data, seen>>
        BY <2>2, MarkReadyEffect DEF TypeOK
      <3>2. db'[data.hash.target] = data.hash.files
        BY <2>2 DEF TypeOK
      <3> QED BY <3>1, <3>2 DEF SeenInv, StoreInv
    <2> QED BY <1>5, <2>1, <2>2 DEF DownApplied, MigrateApply, resultErr
  <1>6. CASE StoreDirState
    BY <1>6, WriteEndsWork DEF StoreDirState, proceed, resultErr
  <1>7. CASE \/ TimerFires \/ Deliver \/ DeliverConfigMap \/ PodStarts
             \/ EditSpec \/ EditConfigMap \/ UNCHANGED vars
    <2>1. UNCHANGED <<db, pc, locals>>
      BY <1>7 DEF TimerFires, Deliver, DeliverConfigMap, PodStarts, EditSpec, EditConfigMap,
                  Edit, vars, locals
    <2> QED BY <2>1 DEF SeenInv, StoreInv, locals
  <1> QED
    BY <1>1, <1>2, <1>3, <1>4, <1>5, <1>6, <1>7 DEF Next, Worker

-----------------------------------------------------------------------------
(* Readiness with an informer that is up to date.                          *)

\* The database is only changed while the API server says "not ready".
LEMMA ChangesUnready ==
  ASSUME FreshInv, pc \in {"down", "apply"}
  PROVE  ~object.status.ready /\ ~res.status.ready
  <1>1. res.status = object.status
    BY DEF FreshInv, FreshRun, Working
  <1>2. SUFFICES ASSUME object.status.ready PROVE FALSE
    BY <1>1
  <1>3. object.status.applied.hash = data.hash
    BY <1>1, <1>2 DEF FreshInv, FreshRun, Working
  <1>4. db[data.hash.target] = data.hash.files
    BY <1>2, <1>3 DEF FreshInv, ReadyMeansDeployed, InPlace
  <1>5. seen = db[data.hash.target] /\ seen # data.hash.files
    <2>1. seen \in Files /\ data.hash.files \in Files
      BY DataTypes DEF FreshInv, TypeOK
    <2> QED BY <2>1, ConstantsAssumption DEF FreshInv, SeenInv, Files
  <1> QED BY <1>4, <1>5

\* A step that ends the run's work with a copy that is not ready.
LEMMA FreshEnd ==
  ASSUME FreshInv, pc' = "write", ~res'.status.ready, res'.spec.kind = object.spec.kind,
         UNCHANGED object, UNCHANGED <<db, dirState>> \/ ~object.status.ready
  PROVE  ReadyMeansDeployed' /\ FreshRun'
  BY DEF FreshInv, ReadyMeansDeployed, InPlace, FreshRun, InRun, Working

LEMMA FreshStep ==
  ASSUME FreshReads, FreshInv, [Next]_vars
  PROVE  ReadyMeansDeployed' /\ FreshRun'
  <1> USE DataTypes, ReasonsType
  <1>0. TypeOK /\ ReadyMeansDeployed /\ FreshRun /\ StoreInv
    BY DEF FreshInv
  <1>1. CASE Start
    <2>1. UNCHANGED <<object, db, dirState>>
      BY <1>1 DEF Start, api
    <2>2. CASE requeueReconciling(object)
      <3>1. pc' = "write" /\ ~res'.status.ready /\ res'.spec = object.spec
        BY <2>2, <1>0, RequeueEffect DEF TypeOK
      <3> QED BY <2>1, <3>1, FreshEnd
    <2>3. CASE res' = object /\ pc' = "extract"
      BY <2>1, <2>3, <1>0 DEF FreshRun, ReadyMeansDeployed, InPlace, InRun, Working
    <2> QED BY <1>1, <2>2, <2>3 DEF Start
  <1>2. CASE ExtractData
    <2>1. UNCHANGED <<object, db, dirState>> /\ pc = "extract"
      BY <1>2 DEF ExtractData, api
    <2>2. res.spec.kind = object.spec.kind /\ res.status = object.status
      BY <2>1, <1>0 DEF FreshRun, InRun
    <2>3. CASE resultErr("ProtectedFlowError") \/ resultErr("ReadingMigrationData")
      BY <2>1, <2>2, <2>3, <1>0, ResultErrEffect, FreshEnd
    <2>4. CASE requeueReconciling(res)
      BY <2>1, <2>2, <2>4, <1>0, RequeueEffect, FreshEnd DEF TypeOK
    <2>5. CASE /\ ~(res.status.ready /\ data'.hash # res.status.applied.hash)
               /\ pc' = "connect" /\ res' = res
      BY <2>1, <2>2, <2>5, <1>0 DEF FreshRun, ReadyMeansDeployed, InPlace, InRun, Working
    <2> QED BY <1>2, <2>3, <2>4, <2>5 DEF ExtractData, IsHashModified
  <1>3. CASE Connect \/ MigrateStatus \/ PrepareDevDB
    <2>1. UNCHANGED <<object, db, dirState>> /\ Working
      BY <1>3 DEF Connect, MigrateStatus, PrepareDevDB, api, Working
    <2>2. res.spec.kind = object.spec.kind
      BY <2>1, <1>0 DEF FreshRun, InRun, Working
    <2>3. CASE /\ pc' \in {"status", "changes", "down", "apply"}
               /\ UNCHANGED <<res, data>>
      BY <2>1, <2>3, <1>0 DEF FreshRun, ReadyMeansDeployed, InPlace, InRun, Working
    <2>4. CASE resultErr("WhoAmI") \/ resultErr("Migrating")
      BY <2>1, <2>2, <2>4, <1>0, ResultErrEffect, FreshEnd
    <2>5. CASE resultPending("GettingDevDB")
      BY <2>1, <2>2, <2>5, <1>0, ResultPendingEffect, FreshEnd
    <2> QED
      BY <1>3, <2>3, <2>4, <2>5 DEF Connect, MigrateStatus, PrepareDevDB, proceed
  <1>4. CASE NoPendingChanges
    <2>1. UNCHANGED <<object, db, dirState>> /\ Working /\ markReady(seen)
      BY <1>4 DEF NoPendingChanges, api, Working
    <2>2. pc' = "store" /\ res'.spec = res.spec /\ data' = data
      BY <2>1, <1>0, MarkReadyEffect DEF TypeOK
    <2> QED
      BY <2>1, <2>2, <1>0 DEF FreshRun, ReadyMeansDeployed, InPlace, InRun, Working
  <1>5. CASE DownRefused \/ DownReview \/ DownFailed
    <2>1. UNCHANGED object /\ pc = "down"
      BY <1>5 DEF DownRefused, DownReview, DownFailed, DownCall, api
    <2>2. ~object.status.ready /\ res.spec.kind = object.spec.kind
      BY <2>1, <1>0, ChangesUnready DEF FreshRun, InRun
    <2>3. pc' = "write" /\ ~res'.status.ready /\ res'.spec = res.spec
      BY <1>5, <1>0, ResultErrEffect, ResultPendingEffect
      DEF DownRefused, DownReview, DownFailed
    <2> QED BY <2>1, <2>2, <2>3, FreshEnd
  <1>6. CASE DownPanics
    <2>1. UNCHANGED <<object, res>> /\ pc = "down" /\ pc' = "write"
      BY <1>6 DEF DownPanics, api
    <2>2. ~object.status.ready /\ ~res.status.ready /\ res.spec.kind = object.spec.kind
      BY <2>1, <1>0, ChangesUnready DEF FreshRun, InRun
    <2> QED BY <2>1, <2>2, FreshEnd
  <1>7. CASE DownApplied \/ MigrateApply
    <2>1. UNCHANGED object /\ pc \in {"down", "apply"}
      BY <1>7 DEF DownApplied, MigrateApply, DownCall, api
    <2>2. ~object.status.ready /\ res.spec.kind = object.spec.kind
      BY <2>1, <1>0, ChangesUnready DEF FreshRun, InRun
    <2>3. CASE markReady(data.hash.files)
      <3>1. pc' = "store" /\ res'.spec = res.spec
        BY <2>3, <1>0, MarkReadyEffect
      <3> QED
        BY <2>1, <2>2, <3>1 DEF FreshRun, ReadyMeansDeployed, InPlace, InRun, Working
    <2>4. CASE resultErr("Migrating") \/ resultErr("DriftDetected")
      BY <2>1, <2>2, <2>4, <1>0, ResultErrEffect, FreshEnd
    <2> QED BY <1>7, <2>3, <2>4 DEF DownApplied, MigrateApply
  <1>8. CASE StoreDirState
    <2>1. UNCHANGED <<object, db>> /\ pc = "store"
      BY <1>8 DEF StoreDirState, api
    <2>2. /\ res.spec.kind = object.spec.kind
          /\ object.status.ready => object.status.applied.hash = data.hash
      BY <2>1, <1>0 DEF FreshRun, InRun
    <2>3. CASE /\ dirState' = (IF res.spec.kind = "remote" THEN dirState ELSE data.hash.files)
               /\ proceed("write")
      <3>1. /\ res.status.applied = [hash |-> data.hash, version |-> data.hash.files]
            /\ db[data.hash.target] = data.hash.files /\ data.hash \in Hashes
        BY <2>1, <1>0 DEF StoreInv
      <3>2. InPlace(res.status.applied, res.spec.kind)'
        BY <2>1, <2>3, <3>1 DEF InPlace, proceed
      <3>3. ReadyMeansDeployed'
        BY <2>1, <2>2, <2>3, <1>0 DEF ReadyMeansDeployed, InPlace
      <3>4. object.status.ready => object.status.applied.hash = res.status.applied.hash
        BY <2>2, <3>1
      <3> QED
        BY <2>1, <2>2, <2>3, <3>2, <3>3, <3>4 DEF FreshRun, proceed, InRun, Working
    <2>4. CASE resultErr("StoringDirState") /\ UNCHANGED dirState
      BY <2>1, <2>2, <2>4, <1>0, ResultErrEffect, FreshEnd
    <2> QED BY <1>8, <2>3, <2>4 DEF StoreDirState
  <1>9. CASE WriteStatus
    <2>1. UNCHANGED <<db, dirState, res>> /\ pc = "write" /\ pc' = "cleanup"
      BY <1>9 DEF WriteStatus, proceed
    <2>2. res.spec.kind = object.spec.kind
      BY <2>1, <1>0 DEF FreshRun, InRun
    <2>3. CASE object' = [object EXCEPT !.status = res.status]
      <3>1. object'.status = res.status /\ object'.spec = object.spec
        BY <2>3, <1>0 DEF TypeOK, Resources
      <3> QED
        BY <2>1, <2>2, <3>1, <1>0 DEF FreshRun, ReadyMeansDeployed, InPlace, InRun, Working
    <2>4. CASE UNCHANGED object
      BY <2>1, <2>2, <2>4, <1>0 DEF FreshRun, ReadyMeansDeployed, InPlace, InRun, Working
    <2> QED BY <1>9, <2>3, <2>4 DEF WriteStatus
  <1>10. CASE CleanUp \/ Crash \/ Restart
    <2>1. UNCHANGED <<object, db, dirState>> /\ pc' \in {"idle", "off"}
      BY <1>10 DEF CleanUp, Crash, Restart, endRun, api
    <2> QED
      BY <2>1, <1>0 DEF FreshRun, ReadyMeansDeployed, InPlace, InRun, Working
  <1>11. CASE \/ TimerFires \/ Deliver \/ DeliverConfigMap \/ PodStarts
              \/ EditConfigMap \/ UNCHANGED vars
    <2>1. UNCHANGED <<object, db, dirState, pc, res, data>>
      BY <1>11 DEF TimerFires, Deliver, DeliverConfigMap, PodStarts, EditConfigMap,
                   Edit, vars, locals, api
    <2> QED
      BY <2>1, <1>0 DEF FreshRun, ReadyMeansDeployed, InPlace, InRun, Working
  <1>12. CASE EditSpec
    <2>1. UNCHANGED <<db, dirState, pc, res, data>>
      BY <1>12 DEF EditSpec, Edit, locals
    <2>2. object'.status = object.status /\ object'.spec.kind = object.spec.kind
      BY <1>12, <1>0, EditSpecEffect
    <2> QED
      BY <2>1, <2>2, <1>0 DEF FreshRun, ReadyMeansDeployed, InPlace, InRun, Working
  <1> QED
    BY <1>1, <1>2, <1>3, <1>4, <1>5, <1>6, <1>7, <1>8, <1>9, <1>10, <1>11, <1>12
    DEF Next, Worker

LEMMA FreshInductive == FreshReads => (Spec => []FreshInv)
  <1> SUFFICES ASSUME FreshReads PROVE Spec => []FreshInv
    OBVIOUS
  <1>1. Init => FreshInv
    <2> SUFFICES ASSUME Init, TypeOK PROVE FreshInv
      BY InitTypeOK
    <2>1. ~object.status.ready /\ pc = "idle"
      BY DEF Init, NewStatus
    <2> QED
      BY <2>1 DEF FreshInv, SeenInv, StoreInv, ReadyMeansDeployed, FreshRun, InRun, Working
  <1>2. FreshInv /\ [Next]_vars => FreshInv'
    BY TypeStep, WorkStep, FreshStep DEF FreshInv
  <1> QED
    BY <1>1, <1>2, PTL DEF Spec

\* When the reads of the operator are up to date, Ready in the API server always
\* means that what the observed hash stands for is deployed, at every moment of
\* a later run, after any failed call, partial apply, lost status update or crash.
THEOREM ReadyIsSafe == FreshReads => (Spec => []ReadyMeansDeployed)
  <1>1. FreshInv => ReadyMeansDeployed
    BY DEF FreshInv
  <1> QED
    BY <1>1, FreshInductive, PTL

LEMMA RefinementStep ==
  ASSUME FreshReads, FreshInv, [Next]_vars
  PROVE  [Deployment!Next]_<<db, claim>>
  <1> USE DataTypes
  <1>0. TypeOK /\ FreshRun
    BY DEF FreshInv
  <1>1. CASE DownApplied \/ DownFailed \/ MigrateApply
    <2>1. object' = object /\ pc \in {"down", "apply"}
      BY <1>1 DEF DownApplied, DownFailed, MigrateApply, DownCall, api
    <2>2. claim = NoHash /\ claim' = claim
      BY <2>1, ChangesUnready DEF claim
    <2>3. \/ db' = db
          \/ \E v \in Files : db' = [db EXCEPT ![data.hash.target] = v]
      <3>1. seen \in Files /\ data.hash.files \in Files
        BY <1>0 DEF TypeOK
      <3> QED
        BY <1>1, <3>1, ConstantsAssumption DEF DownApplied, DownFailed, MigrateApply, Files
    <2> QED
      BY <1>0, <2>2, <2>3 DEF Deployment!Next, Deployment!Work, Deployment!Files, Files
  <1>2. CASE WriteStatus
    <2>1. db' = db /\ pc = "write"
      BY <1>2 DEF WriteStatus
    <2>2. CASE object' = object
      BY <2>1, <2>2 DEF claim
    <2>3. CASE object' = [object EXCEPT !.status = res.status]
      <3>1. object'.status = res.status
        BY <2>3, <1>0 DEF TypeOK, Resources
      <3>2. CASE ~res.status.ready
        BY <2>1, <3>1, <3>2 DEF claim, Deployment!Next, Deployment!Withdraw
      <3>3. CASE res.status.ready /\ object.status.ready
        <4>1. object.status.applied.hash = res.status.applied.hash
          BY <2>1, <3>3, <1>0 DEF FreshRun
        <4> QED BY <2>1, <3>1, <3>3, <4>1 DEF claim
      <3>4. CASE res.status.ready /\ ~object.status.ready
        <4> DEFINE h == res.status.applied.hash
        <4>1. h \in Hashes /\ db[h.target] = h.files
          BY <2>1, <3>4, <1>0 DEF FreshRun, InPlace
        <4>2. claim = NoHash /\ claim' = h
          BY <3>1, <3>4 DEF claim
        <4> HIDE DEF h
        <4>3. h.target \in Targets /\ h.files \in Files /\ h = [target |-> h.target, files |-> h.files]
          BY <4>1 DEF Hashes
        <4> QED
          BY <2>1, <4>1, <4>2, <4>3 DEF Deployment!Next, Deployment!Certify, Deployment!Files, Files
      <3> QED BY <3>2, <3>3, <3>4
    <2> QED BY <1>2, <2>2, <2>3 DEF WriteStatus
  <1>3. CASE EditSpec
    BY <1>3, <1>0, EditSpecEffect DEF EditSpec, Edit, claim
  <1>4. CASE \/ Start \/ ExtractData \/ Connect \/ MigrateStatus \/ NoPendingChanges
             \/ PrepareDevDB \/ DownRefused \/ DownPanics \/ DownReview \/ StoreDirState
             \/ CleanUp \/ TimerFires \/ Deliver \/ DeliverConfigMap \/ PodStarts
             \/ Crash \/ Restart \/ EditConfigMap \/ UNCHANGED vars
    <2>1. db' = db /\ object' = object
      BY <1>4 DEF Start, ExtractData, Connect, MigrateStatus, NoPendingChanges, PrepareDevDB,
                  DownRefused, DownPanics, DownReview, StoreDirState, CleanUp, TimerFires,
                  Deliver, DeliverConfigMap, PodStarts, Crash, Restart, EditConfigMap, Edit,
                  vars, api
    <2> QED BY <2>1 DEF claim
  <1> QED
    BY <1>1, <1>2, <1>3, <1>4 DEF Next, Worker

\* With up-to-date reads the controller implements DeploymentStatus, the promise
\* its readiness makes to other tools: extractData withdraws the claim in the API
\* server before the CLI touches a database, and a claim never moves directly
\* from one deployment to another.
THEOREM RefinesDeployment == FreshReads => (Spec => ImplementsDeployment)
  <1> SUFFICES ASSUME FreshReads PROVE Spec => ImplementsDeployment
    OBVIOUS
  <1>1. Init => Deployment!Init
    BY DEF Init, Deployment!Init, claim, NewStatus
  <1>2. FreshInv /\ [Next]_vars => [Deployment!Next]_<<db, claim>>
    BY RefinementStep
  <1> QED
    BY <1>1, <1>2, FreshInductive, PTL DEF Spec, ImplementsDeployment, Deployment!Spec

-----------------------------------------------------------------------------
(* Protected flows.                                                        *)

\* A worker that may change the database checked the flows of its copy of the
\* resource when it extracted the data, and noted whether they allow a downgrade.
FlowInv ==
  Working => /\ ~InvalidFlows(res.spec)
             /\ data.down => res.spec.flows.allow

LEMMA FlowStep == TypeOK /\ FlowInv /\ [Next]_vars => FlowInv'
  <1> SUFFICES ASSUME TypeOK, FlowInv, [Next]_vars PROVE FlowInv'
    OBVIOUS
  <1>1. CASE ~Working'
    BY <1>1 DEF FlowInv
  <1>2. CASE UNCHANGED <<res, data>> /\ Working
    BY <1>2 DEF FlowInv
  <1>3. CASE Working' /\ ~Working
    <2>1. ExtractData
      BY <1>3 DEF Next, Worker, Start, NoPendingChanges, StoreDirState, WriteStatus, CleanUp,
                  Connect, MigrateStatus, PrepareDevDB, DownRefused, DownPanics, DownApplied,
                  DownFailed, DownReview, DownCall, MigrateApply, TimerFires, Deliver,
                  DeliverConfigMap, PodStarts, Crash, Restart, EditSpec, EditConfigMap, Edit,
                  vars, requeueReconciling, resultErr, proceed, endRun, Working
    <2>2. ~InvalidFlows(res.spec) /\ UNCHANGED res
          /\ data'.down = extractMigrationData(res.spec, cfgMap).down
      BY <1>3, <2>1 DEF ExtractData, requeueReconciling, resultErr, Working, extractMigrationData
    <2> QED BY <2>2 DEF FlowInv, extractMigrationData
  <1>4. CASE Working' /\ Working
    <2>1. UNCHANGED <<res, data>>
      BY <1>4 DEF Next, Worker, Start, ExtractData, NoPendingChanges, StoreDirState, WriteStatus,
                  CleanUp, Connect, MigrateStatus, PrepareDevDB, DownRefused, DownPanics,
                  DownApplied, DownFailed, DownReview, DownCall, MigrateApply, TimerFires,
                  Deliver, DeliverConfigMap, PodStarts, Crash, Restart, EditSpec, EditConfigMap,
                  Edit, vars, locals, resultErr, resultPending, markReady, proceed, endRun, Working
    <2> QED BY <1>2, <1>4, <2>1
  <1> QED BY <1>1, <1>3, <1>4

\* Only migrateDown takes revisions away, and only for flows that allow it.
LEMMA DownStep ==
  ASSUME TypeOK, SeenInv, FlowInv, [Next]_vars, NEW t \in Targets, db'[t] < db[t]
  PROVE  res.spec.flows.allow /\ (res.spec.flows.autoApprove <=> res.spec.kind # "remote")
  <1>1. db' # db /\ db[t] \in Files
    BY ConstantsAssumption DEF TypeOK, Files
  <1>2. DownApplied \/ DownFailed \/ MigrateApply
    BY <1>1 DEF Next, Worker, Start, ExtractData, NoPendingChanges, StoreDirState, WriteStatus,
                CleanUp, Connect, MigrateStatus, PrepareDevDB, DownRefused, DownPanics,
                DownReview, TimerFires, Deliver, DeliverConfigMap, PodStarts, Crash, Restart,
                EditSpec, EditConfigMap, Edit, vars
  <1>3. CASE MigrateApply
    <2>1. PICK v \in Files : db' = [db EXCEPT ![data.hash.target] = v] /\ seen <= v
      <3>1. data.hash.files \in Files /\ seen \in Files /\ seen < data.hash.files
        BY <1>3 DEF MigrateApply, TypeOK, Data, Hashes, SeenInv
      <3> QED BY <1>1, <1>3, <3>1, ConstantsAssumption DEF MigrateApply, Files
    <2>2. seen = db[data.hash.target] /\ db \in [Targets -> Files]
      BY <1>3 DEF MigrateApply, SeenInv, TypeOK
    <2> QED BY <1>1, <2>1, <2>2, ConstantsAssumption DEF Files
  <1>4. CASE DownCall
    <2>1. res.spec.flows.allow /\ ~InvalidFlows(res.spec)
      BY <1>4 DEF DownCall, FlowInv, Working
    <2>2. res.spec.flows.autoApprove \in BOOLEAN
      BY ConstantsAssumption DEF TypeOK, Resources, Specs, SpecsOf, AllFlows
    <2> QED BY <2>1, <2>2 DEF InvalidFlows
  <1> QED BY <1>2, <1>3, <1>4 DEF DownApplied, DownFailed

\* Whatever the informer lag, failures and edits during the run: a database
\* loses revisions only in a run whose own copy of the resource allows it.
THEOREM DowngradesAreAllowed == Spec => DowngradeIsAllowed
  <1>1. Init => TypeOK /\ SeenInv /\ StoreInv /\ FlowInv
    BY InitTypeOK DEF Init, SeenInv, StoreInv, FlowInv, Working
  <1>2. TypeOK /\ SeenInv /\ StoreInv /\ FlowInv /\ [Next]_vars
          => (TypeOK /\ SeenInv /\ StoreInv /\ FlowInv)'
    BY TypeStep, WorkStep, FlowStep
  <1>3. TypeOK /\ SeenInv /\ FlowInv /\ [Next]_vars
          => [\A t \in Targets : db'[t] < db[t] =>
                /\ res.spec.flows.allow
                /\ res.spec.flows.autoApprove <=> res.spec.kind # "remote"]_vars
    BY DownStep
  <1> QED BY <1>1, <1>2, <1>3, PTL DEF Spec, DowngradeIsAllowed

-----------------------------------------------------------------------------
(* Readiness with an informer that lags behind.                            *)

\* What the worker reads when it starts.
Source == IF FreshReads THEN object ELSE cache

\* Ready, and for the generation it carries.
Settled(o) ==
  o.status.ready /\ o.status.obsGen = o.spec.gen /\ o.spec.kind # "configMap"

\* The directory of the spec is the one observed, and is in place.
SpecInPlace(o) ==
  /\ o.status.applied.hash = Hash(o.spec, 0)
  /\ InPlace(o.status.applied, o.spec.kind)

\* A copy is never newer than the object, and the generation identifies the spec.
Older(o) ==
  o.spec.gen <= object.spec.gen /\ (o.spec.gen = object.spec.gen => o.spec = object.spec)

GenInv ==
  /\ Older(cache) /\ (InRun => Older(res))
  /\ object.status.obsGen <= object.spec.gen
  /\ cache.status.obsGen <= cache.spec.gen
  /\ InRun => res.status.obsGen <= res.spec.gen

\* A settled resource is only ever reconciled for the spec that is in place,
\* whatever copy of it the worker reads.
ObservedInv ==
  /\ \A o \in {object, Source} :
       Settled(o) => SpecInPlace(o) /\ (InRun => res.spec = o.spec)
  /\ Settled(object) => Source.spec = object.spec
  /\ InRun /\ pc # "store" /\ Settled(res) => SpecInPlace(res)
  /\ (Working \/ pc = "store") /\ res.spec.kind # "configMap" =>
       data.hash = Hash(res.spec, 0)

StaleInv == TypeOK /\ SeenInv /\ StoreInv /\ GenInv /\ ObservedInv

-----------------------------------------------------------------------------
(* Generations.                                                            *)

\* Within a run the worker's copy keeps its spec, and its observed generation
\* either stays or becomes the generation of that spec.
RunKeepsSpec ==
  /\ res'.spec = res.spec
  /\ res'.status.obsGen \in {res.status.obsGen, res.spec.gen}

LEMMA RunStep ==
  ASSUME TypeOK, Worker, ~Start, ~CleanUp
  PROVE  RunKeepsSpec /\ InRun
  <1> USE DataTypes, ReasonsType
  <1>0. InRun
    BY DEF Worker, InRun, ExtractData, Connect, MigrateStatus, NoPendingChanges, PrepareDevDB,
           DownRefused, DownPanics, DownApplied, DownFailed, DownReview, DownCall, MigrateApply,
           StoreDirState, WriteStatus
  <1>1. CASE \E reason \in Reasons : resultErr(reason)
    BY <1>0, <1>1, ResultErrEffect DEF RunKeepsSpec
  <1>2. CASE \E reason \in Reasons : resultPending(reason)
    BY <1>0, <1>2, ResultPendingEffect DEF RunKeepsSpec
  <1>3. CASE requeueReconciling(res)
    BY <1>0, <1>3, RequeueEffect DEF RunKeepsSpec, TypeOK
  <1>4. CASE \E v \in Files : markReady(v)
    BY <1>0, <1>4, MarkReadyEffect DEF RunKeepsSpec
  <1>5. CASE res' = res
    BY <1>0, <1>5 DEF RunKeepsSpec
  <1>6. seen \in Files
    BY DEF TypeOK
  <1>7. \/ \E reason \in Reasons : resultErr(reason)
        \/ \E reason \in Reasons : resultPending(reason)
        \/ requeueReconciling(res)
        \/ \E v \in Files : markReady(v)
        \/ res' = res
    <2>1. CASE ExtractData \/ Connect \/ MigrateStatus \/ NoPendingChanges
      BY <1>6, <2>1 DEF ExtractData, Connect, MigrateStatus, NoPendingChanges, proceed
    <2>2. CASE PrepareDevDB \/ DownRefused \/ DownPanics \/ DownApplied
      BY <2>2 DEF PrepareDevDB, DownRefused, DownPanics, DownApplied, proceed
    <2>3. CASE DownFailed \/ DownReview \/ MigrateApply \/ StoreDirState \/ WriteStatus
      BY <2>3 DEF DownFailed, DownReview, MigrateApply, StoreDirState, WriteStatus, proceed
    <2> QED BY <2>1, <2>2, <2>3 DEF Worker
  <1> QED BY <1>1, <1>2, <1>3, <1>4, <1>5, <1>7

\* The generations of the three copies are natural numbers.
LEMMA GenTypes ==
  ASSUME TypeOK
  PROVE  /\ object.spec.gen \in Nat /\ object.status.obsGen \in Nat
         /\ cache.spec.gen \in Nat /\ cache.status.obsGen \in Nat
         /\ res.spec.gen \in Nat /\ res.status.obsGen \in Nat
  BY DEF TypeOK, Resources, Specs, SpecsOf, Statuses

LEMMA GenStep == TypeOK /\ GenInv /\ [Next]_vars => GenInv'
  <1> SUFFICES ASSUME TypeOK, GenInv, [Next]_vars PROVE GenInv'
    OBVIOUS
  <1> USE GenTypes
  <1>1. CASE Start
    <2> DEFINE r == IF FreshReads THEN object ELSE cache
    <2>1. r \in Resources /\ Older(r) /\ r.status.obsGen <= r.spec.gen
      BY DEF GenInv, TypeOK, Older
    <2>2. r.spec.gen \in Nat
      BY DEF TypeOK
    <2>3. UNCHANGED <<object, cache>>
      BY <1>1 DEF Start, api
    <2>4. requeueReconciling(r) \/ res' = r
      BY <1>1 DEF Start
    <2> HIDE DEF r
    <2>5. res'.spec = r.spec /\ res'.status.obsGen <= r.spec.gen
      BY <2>1, <2>2, <2>4, RequeueEffect
    <2> QED BY <2>1, <2>3, <2>5 DEF GenInv, Older
  <1>2. CASE WriteStatus
    <2>1. RunKeepsSpec /\ InRun /\ res' = res /\ cache' = cache
      BY <1>2, RunStep DEF Worker, WriteStatus, proceed, Start, CleanUp
    <2>2. object'.spec = object.spec /\ object'.status \in {object.status, res.status}
      BY <1>2 DEF WriteStatus, TypeOK, Resources
    <2> QED BY <2>1, <2>2 DEF GenInv, Older
  <1>3. CASE Worker /\ ~Start /\ ~CleanUp /\ ~WriteStatus
    <2>1. RunKeepsSpec /\ InRun
      BY <1>3, RunStep
    <2>2. UNCHANGED <<object, cache>>
      BY <1>3 DEF Worker, ExtractData, Connect, MigrateStatus, NoPendingChanges, PrepareDevDB,
             DownRefused, DownPanics, DownApplied, DownFailed, DownReview, MigrateApply,
             StoreDirState, api
    <2> QED BY <2>1, <2>2 DEF GenInv, Older, RunKeepsSpec
  <1>4. CASE CleanUp \/ Crash \/ Restart
    <2>1. object' = object /\ cache' \in {object, cache} /\ ~InRun'
      BY <1>4 DEF CleanUp, Crash, Restart, endRun, api, InRun
    <2> QED BY <2>1 DEF GenInv, Older
  <1>5. CASE EditSpec
    <2>1. /\ object'.status = object.status /\ object'.spec.gen = object.spec.gen + 1
          /\ UNCHANGED <<cache, res, pc>>
      BY <1>5, EditSpecEffect DEF EditSpec, Edit, locals
    <2> QED BY <2>1 DEF GenInv, Older, InRun
  <1>6. CASE \/ TimerFires \/ Deliver \/ DeliverConfigMap \/ PodStarts
             \/ EditConfigMap \/ UNCHANGED vars
    <2>1. object' = object /\ cache' \in {object, cache} /\ UNCHANGED <<res, pc>>
      BY <1>6 DEF TimerFires, Deliver, DeliverConfigMap, PodStarts, EditConfigMap,
                  Edit, vars, locals, api
    <2> QED BY <2>1 DEF GenInv, Older, InRun
  <1> QED
    BY <1>1, <1>2, <1>3, <1>4, <1>5, <1>6 DEF Next

-----------------------------------------------------------------------------
(* Settled resources.                                                      *)

\* A database is only changed for a resource none of whose copies is settled.
LEMMA ChangesUnsettled ==
  ASSUME StaleInv, pc \in {"down", "apply"}
  PROVE  ~Settled(object) /\ ~Settled(Source) /\ ~Settled(res)
  <1>1. seen = db[data.hash.target] /\ seen # data.hash.files
    <2>1. seen \in Files /\ data.hash.files \in Files
      BY DataTypes DEF StaleInv, TypeOK
    <2> QED BY <2>1, ConstantsAssumption DEF StaleInv, SeenInv, Files
  <1>2. InRun /\ Working /\ pc # "store"
    BY DEF InRun, Working
  <1>3. ASSUME NEW o, o.spec = res.spec, Settled(o), SpecInPlace(o)
        PROVE  FALSE
    <2>1. data.hash = Hash(o.spec, 0)
      BY <1>2, <1>3 DEF StaleInv, ObservedInv, Settled
    <2>2. db[data.hash.target] = data.hash.files
      BY <1>3, <2>1 DEF SpecInPlace, InPlace
    <2> QED BY <1>1, <2>2
  <1>4. \A o \in {object, Source} : Settled(o) => SpecInPlace(o) /\ res.spec = o.spec
    BY <1>2 DEF StaleInv, ObservedInv
  <1>5. Settled(res) => SpecInPlace(res)
    BY <1>2 DEF StaleInv, ObservedInv
  <1> QED BY <1>3, <1>4, <1>5

\* A step that ends the run's work with a copy that is not ready.
LEMMA ObservedEnd ==
  ASSUME StaleInv, pc' = "write", ~res'.status.ready, res'.spec = res.spec, InRun,
         UNCHANGED <<object, cache>>,
         UNCHANGED <<db, dirState>> \/ (~Settled(object) /\ ~Settled(Source))
  PROVE  ObservedInv'
  <1>1. Source' = Source
    BY DEF Source
  <1>2. ~Settled(res)'
    BY DEF Settled
  <1>3. ASSUME NEW o \in {object, Source}', Settled(o)' PROVE (SpecInPlace(o) /\ (InRun => res.spec = o.spec))'
    <2>1. o \in {object, Source} /\ Settled(o)
      BY <1>1, <1>3 DEF Settled
    <2>2. UNCHANGED <<db, dirState>>
      BY <2>1
    <2>3. SpecInPlace(o) /\ res.spec = o.spec
      BY <2>1 DEF StaleInv, ObservedInv
    <2> QED BY <2>2, <2>3 DEF SpecInPlace, InPlace
  <1> QED
    BY <1>1, <1>2, <1>3 DEF StaleInv, ObservedInv, Working, Settled

\* A step that leaves the copies, the database and the Secret alone.
LEMMA ObservedQuiet ==
  ASSUME StaleInv, UNCHANGED <<object, cache, db, dirState, res, data>>, InRun',
         InRun, pc # "store", pc' # "store", Working' => Working
  PROVE  ObservedInv'
  BY DEF StaleInv, ObservedInv, Source, Settled, SpecInPlace, InPlace

LEMMA ObservedStep == StaleInv /\ [Next]_vars => ObservedInv'
  <1> SUFFICES ASSUME StaleInv, [Next]_vars PROVE ObservedInv'
    OBVIOUS
  <1> USE DataTypes, ReasonsType
  <1>0. TypeOK /\ StoreInv /\ GenInv /\ ObservedInv
    BY DEF StaleInv
  <1>1. CASE Start
    <2>1. UNCHANGED <<object, cache, db, dirState>> /\ Source' = Source
      BY <1>1 DEF Start, api, Source
    <2>2. CASE requeueReconciling(Source)
      <3>1. pc' = "write" /\ ~res'.status.ready /\ res'.spec = Source.spec
        BY <2>2, <1>0, RequeueEffect DEF TypeOK, Source
      <3> QED BY <2>1, <3>1, <1>0 DEF ObservedInv, Settled, SpecInPlace, InPlace, Working
    <2>3. CASE res' = Source /\ pc' = "extract"
      BY <2>1, <2>3, <1>0 DEF ObservedInv, Settled, SpecInPlace, InPlace, Working
    <2> QED BY <1>1, <2>2, <2>3 DEF Start, Source
  <1>2. CASE ExtractData
    <2>1. UNCHANGED <<object, cache, db, dirState>> /\ pc = "extract" /\ InRun
      BY <1>2 DEF ExtractData, api, InRun
    <2>2. CASE resultErr("ProtectedFlowError") \/ resultErr("ReadingMigrationData")
      BY <2>1, <2>2, <1>0, ResultErrEffect, ObservedEnd
    <2>3. CASE requeueReconciling(res)
      BY <2>1, <2>3, <1>0, RequeueEffect, ObservedEnd DEF TypeOK
    <2>4. CASE /\ \E cm \in Files : data' = extractMigrationData(res.spec, cm)
               /\ pc' = "connect" /\ res' = res
      <3>1. res.spec.kind # "configMap" => data'.hash = Hash(res.spec, 0)
        BY <2>4 DEF extractMigrationData, Hash, Desired
      <3> QED
        BY <2>1, <2>4, <3>1, <1>0
        DEF ObservedInv, Source, Settled, SpecInPlace, InPlace, Working, InRun
    <2> QED BY <1>2, <1>0, <2>2, <2>3, <2>4 DEF ExtractData, TypeOK
  <1>3. CASE Connect \/ MigrateStatus \/ PrepareDevDB
    <2>1. UNCHANGED <<object, cache, db, dirState>> /\ InRun /\ Working
      BY <1>3 DEF Connect, MigrateStatus, PrepareDevDB, api, InRun, Working
    <2>2. CASE /\ pc' \in {"status", "changes", "down", "apply"}
               /\ UNCHANGED <<res, data>>
      BY <2>1, <2>2, ObservedQuiet DEF InRun, Working
    <2>3. CASE resultErr("WhoAmI") \/ resultErr("Migrating")
      BY <2>1, <2>3, <1>0, ResultErrEffect, ObservedEnd
    <2>4. CASE resultPending("GettingDevDB")
      BY <2>1, <2>4, <1>0, ResultPendingEffect, ObservedEnd
    <2> QED
      BY <1>3, <2>2, <2>3, <2>4 DEF Connect, MigrateStatus, PrepareDevDB, proceed
  <1>4. CASE NoPendingChanges
    <2>1. /\ UNCHANGED <<object, cache, db, dirState>> /\ InRun /\ Working /\ markReady(seen)
      BY <1>4 DEF NoPendingChanges, api, InRun, Working
    <2>2. pc' = "store" /\ res'.spec = res.spec /\ data' = data
      BY <2>1, <1>0, MarkReadyEffect DEF TypeOK
    <2> QED
      BY <2>1, <2>2, <1>0
      DEF ObservedInv, Source, Settled, SpecInPlace, InPlace, Working, InRun
  <1>5. CASE DownRefused \/ DownReview \/ DownFailed
    <2>1. UNCHANGED <<object, cache>> /\ pc = "down" /\ InRun
      BY <1>5 DEF DownRefused, DownReview, DownFailed, DownCall, api, InRun
    <2>2. pc' = "write" /\ ~res'.status.ready /\ res'.spec = res.spec
      BY <1>5, <1>0, ResultErrEffect, ResultPendingEffect
      DEF DownRefused, DownReview, DownFailed
    <2> QED BY <2>1, <2>2, ChangesUnsettled, ObservedEnd
  <1>6. CASE DownPanics
    <2>1. UNCHANGED <<object, cache, db, dirState, res>> /\ pc = "down" /\ pc' = "write"
      BY <1>6 DEF DownPanics, api
    <2> QED
      BY <2>1, <1>0, ChangesUnsettled
      DEF ObservedInv, Source, Settled, SpecInPlace, InPlace, Working, InRun
  <1>7. CASE DownApplied \/ MigrateApply
    <2>1. UNCHANGED <<object, cache>> /\ pc \in {"down", "apply"} /\ InRun
      BY <1>7 DEF DownApplied, MigrateApply, DownCall, api, InRun
    <2>2. ~Settled(object) /\ ~Settled(Source)
      BY <2>1, ChangesUnsettled
    <2>3. CASE markReady(data.hash.files)
      <3>1. pc' = "store" /\ res'.spec = res.spec /\ data' = data
        BY <2>3, <1>0, MarkReadyEffect
      <3> QED
        BY <2>1, <2>2, <3>1, <1>0 DEF ObservedInv, Source, Settled, Working, InRun
    <2>4. CASE resultErr("Migrating") \/ resultErr("DriftDetected")
      BY <2>1, <2>2, <2>4, <1>0, ResultErrEffect, ObservedEnd
    <2> QED BY <1>7, <2>3, <2>4 DEF DownApplied, MigrateApply
  <1>8. CASE StoreDirState
    <2>1. UNCHANGED <<object, cache, db>> /\ pc = "store" /\ InRun
      BY <1>8 DEF StoreDirState, api, InRun
    <2>2. CASE /\ dirState' = (IF res.spec.kind = "remote" THEN dirState ELSE data.hash.files)
               /\ proceed("write")
      <3>1. UNCHANGED <<res, data>> /\ pc' = "write" /\ Source' = Source
        BY <2>1, <2>2 DEF proceed, Source
      <3>2. res.spec.kind # "configMap" => data.hash = Hash(res.spec, 0)
        BY <2>1, <1>0 DEF ObservedInv
      <3>3. ASSUME NEW o \in {object, Source}, Settled(o)
            PROVE  SpecInPlace(o)' /\ res.spec = o.spec
        <4>1. SpecInPlace(o) /\ res.spec = o.spec
          BY <2>1, <3>3, <1>0 DEF ObservedInv
        <4>2. o.status.applied.hash = data.hash
          BY <3>2, <3>3, <4>1 DEF Settled, SpecInPlace
        <4> QED BY <2>1, <2>2, <3>1, <4>1, <4>2 DEF SpecInPlace, InPlace
      <3>4. Settled(res) => SpecInPlace(res)'
        <4>1. /\ res.status.applied = [hash |-> data.hash, version |-> data.hash.files]
              /\ db[data.hash.target] = data.hash.files /\ data.hash \in Hashes
          BY <2>1, <1>0 DEF StoreInv
        <4> QED BY <2>1, <2>2, <3>1, <3>2, <4>1 DEF SpecInPlace, InPlace, Settled
      <3> QED
        BY <2>1, <3>1, <3>3, <3>4, <1>0 DEF ObservedInv, Settled, Working, InRun
    <2>3. CASE resultErr("StoringDirState") /\ UNCHANGED dirState
      BY <2>1, <2>3, <1>0, ResultErrEffect, ObservedEnd
    <2> QED BY <1>8, <2>2, <2>3 DEF StoreDirState
  <1>9. CASE WriteStatus
    <2>1. /\ UNCHANGED <<db, dirState, res, data, cache>>
          /\ pc = "write" /\ pc' = "cleanup" /\ InRun /\ InRun'
      BY <1>9 DEF WriteStatus, proceed, InRun
    <2>2. CASE UNCHANGED object
      BY <2>1, <2>2, ObservedQuiet DEF Working
    <2>3. CASE object' = [object EXCEPT !.status = res.status] /\ (FreshReads \/ cache = object)
      <3>1. object'.status = res.status /\ object'.spec = object.spec
        BY <2>3, <1>0 DEF TypeOK, Resources
      <3>2. Settled(object)' => SpecInPlace(object)' /\ res.spec = object.spec
        <4> SUFFICES ASSUME Settled(object)' PROVE SpecInPlace(object)' /\ res.spec = object.spec
          OBVIOUS
        <4>1. res.status.ready /\ res.status.obsGen = object.spec.gen
          BY <3>1 DEF Settled
        <4>2. res.spec = object.spec
          BY <2>1, <4>1, <1>0, GenTypes DEF GenInv, Older
        <4>3. SpecInPlace(res)
          BY <2>1, <3>1, <4>1, <4>2, <1>0 DEF ObservedInv, Settled
        <4> QED BY <2>1, <3>1, <4>2, <4>3 DEF SpecInPlace, InPlace
      <3>3. ~FreshReads => Source' = Source /\ Source'.spec = object'.spec
        BY <2>1, <2>3, <3>1 DEF Source
      <3>4. FreshReads => Source' = object'
        BY DEF Source
      <3>5. ~FreshReads /\ Settled(Source)' => SpecInPlace(Source)' /\ res.spec = Source.spec
        BY <2>1, <3>3, <1>0 DEF ObservedInv, Settled, SpecInPlace, InPlace
      <3>6. Settled(res)' => SpecInPlace(res)'
        BY <2>1, <1>0 DEF ObservedInv, Settled, SpecInPlace, InPlace
      <3>7. \A o \in {object, Source}' : (Settled(o) => SpecInPlace(o) /\ (InRun => res.spec = o.spec))'
        BY <2>1, <3>1, <3>2, <3>3, <3>4, <3>5
      <3> QED
        BY <2>1, <3>3, <3>4, <3>6, <3>7 DEF ObservedInv, Working
    <2> QED BY <1>9, <2>2, <2>3 DEF WriteStatus
  <1>10. CASE CleanUp \/ Crash
    <2>1. UNCHANGED <<object, cache, db, dirState>> /\ pc' \in {"idle", "off"}
      BY <1>10 DEF CleanUp, Crash, endRun, api
    <2> QED
      BY <2>1, <1>0 DEF ObservedInv, Source, Settled, SpecInPlace, InPlace, Working, InRun
  <1>11. CASE Restart \/ Deliver
    <2>1. /\ UNCHANGED <<object, db, dirState, res, data>> /\ cache' = object
          /\ InRun' = InRun /\ Working' = Working /\ (pc' = "store") = (pc = "store")
      BY <1>11 DEF Restart, Deliver, locals, InRun, Working
    <2>2. Source' = object
      BY <2>1 DEF Source
    <2> QED
      BY <2>1, <2>2, <1>0 DEF ObservedInv, Settled, SpecInPlace, InPlace
  <1>12. CASE EditSpec
    <2>1. UNCHANGED <<db, dirState, pc, res, data, cache>>
      BY <1>12 DEF EditSpec, Edit, locals
    <2>2. ~Settled(object)'
      BY <1>12, <1>0, EditSpecEffect, GenTypes DEF GenInv, Settled
    <2>3. Source' \in {object', Source}
      BY <2>1 DEF Source
    <2> QED
      BY <2>1, <2>2, <2>3, <1>0 DEF ObservedInv, Settled, SpecInPlace, InPlace, InRun, Working
  <1>13. CASE \/ TimerFires \/ DeliverConfigMap \/ PodStarts
              \/ EditConfigMap \/ UNCHANGED vars
    <2>1. UNCHANGED <<object, cache, db, dirState, pc, res, data>>
      BY <1>13 DEF TimerFires, DeliverConfigMap, PodStarts, EditConfigMap,
                   Edit, vars, locals, api
    <2> QED
      BY <2>1, <1>0 DEF ObservedInv, Source, Settled, SpecInPlace, InPlace, InRun, Working
  <1> QED
    BY <1>1, <1>2, <1>3, <1>4, <1>5, <1>6, <1>7, <1>8, <1>9, <1>10, <1>11, <1>12, <1>13
    DEF Next, Worker

\* A resource that is Ready with observedGeneration equal to its generation has
\* the directory of its spec deployed on the target of its spec, with any
\* informer lag, failed call, lost or conflicting status update and crash.
THEOREM ObservedReadyIsSafe == Spec => []ObservedReadyIsDeployed
  <1>1. Init => StaleInv
    <2> SUFFICES ASSUME Init, TypeOK PROVE StaleInv
      BY InitTypeOK
    <2>1. ~object.status.ready /\ pc = "idle" /\ cache = object /\ object.status.obsGen = 0
      BY DEF Init, NewStatus
    <2>2. object.spec.gen \in Nat
      BY GenTypes
    <2> QED
      BY <2>1, <2>2 DEF StaleInv, SeenInv, StoreInv, GenInv, Older, ObservedInv, Source,
                        Settled, InRun, Working
  <1>2. StaleInv /\ [Next]_vars => StaleInv'
    BY TypeStep, WorkStep, GenStep, ObservedStep DEF StaleInv
  <1>3. StaleInv => ObservedReadyIsDeployed
    BY DEF StaleInv, ObservedInv, ObservedReadyIsDeployed, Settled, SpecInPlace, Hash, Desired
  <1> QED
    BY <1>1, <1>2, <1>3, PTL DEF Spec

=============================================================================
