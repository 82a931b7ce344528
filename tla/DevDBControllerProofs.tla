------------------------ MODULE DevDBControllerProofs ------------------------
(***************************************************************************)
(* DevDBController implements DevDBService and leaves nothing running, for *)
(* every number of owners, changes, failures, deleted owners and crashes.  *)
(***************************************************************************)
EXTENDS DevDBController, TLAPS

\* What the requests leave and what the informer's copy may say: a copy that is
\* current is right, so an Update that does not conflict was computed from the
\* Deployment as it is.
CopyInv ==
  /\ deployment \in [replicas : {-1, 0, 1}, engine : Engines, owner : Owners \cup {NoOne}]
  /\ current \in BOOLEAN
  /\ current => cached = deployment.replicas

LEMMA EngineType == \A o \in Owners : engine(o) \in Engines
  BY DEF engine, Engines

LEMMA CopyInit == Init => CopyInv
  BY DEF Init, CopyInv, Absent, Engines

LEMMA AbsentType ==
  Absent \in [replicas : {-1, 0, 1}, engine : Engines, owner : Owners \cup {NoOne}]
  BY DEF Absent, Engines

LEMMA CopyStep == CopyInv /\ [Next]_vars => CopyInv'
  <1> SUFFICES ASSUME CopyInv, [Next]_vars PROVE CopyInv'
    OBVIOUS
  <1> DEFINE Deployments == [replicas : {-1, 0, 1}, engine : Engines, owner : Owners \cup {NoOne}]
  \* The Deployment and both parts of the copy stay as they are, or the copy is
  \* outdated from now on.
  <1> DEFINE Kept == UNCHANGED <<deployment, cached, current>>
             Changed == deployment' \in Deployments /\ current' = FALSE
  <1>0. ASSUME Kept \/ Changed PROVE CopyInv'
    <2>1. CASE Kept
      BY <2>1 DEF CopyInv
    <2>2. CASE Changed
      BY <2>2 DEF CopyInv
    <2> QED BY <1>0, <2>1, <2>2
  <1>1. ASSUME NEW o \in Owners, Worker(o) PROVE Kept \/ Changed
    <2>1. CASE CreateDeployment(o)
      <3>1. [replicas |-> 1, engine |-> engine(o), owner |-> o] \in Deployments
        BY EngineType
      <3> QED BY <2>1, <3>1 DEF CreateDeployment
    <2>2. CASE ScaleUp(o)
      <3>1. [deployment EXCEPT !.replicas = 1] \in Deployments
        BY DEF CopyInv
      <3> QED BY <2>2, <3>1 DEF ScaleUp
    <2>3. CASE GetFails(o) \/ FindDeployment(o) \/ ListPods(o)
      BY <2>3 DEF GetFails, FindDeployment, ListPods, kubernetes
    <2>4. CASE NothingToDo(o) \/ CLISucceeds(o) \/ CLIFails(o)
      BY <2>4 DEF NothingToDo, CLISucceeds, CLIFails, EndsReady, kubernetes
    <2>5. CASE CleanUp(o)
      <3>1. [deployment EXCEPT !.replicas = 0] \in Deployments
        BY DEF CopyInv
      <3> QED BY <2>5, <3>1 DEF CleanUp, ScaleDown, DeletePods, CopyInv
    <2> QED BY <1>1, <2>1, <2>2, <2>3, <2>4, <2>5 DEF Worker
  <1>2. ASSUME NEW o \in Owners, OwnerChanges(o) PROVE Kept
    BY <1>2 DEF OwnerChanges, kubernetes
  <1>3. ASSUME NEW o \in Owners, OwnerDeleted(o) PROVE Kept \/ Changed
    BY <1>3, AbsentType DEF OwnerDeleted
  <1>4. ASSUME PodStarts \/ PodGone PROVE Kept \/ Changed
    BY <1>4 DEF PodStarts, PodGone, CopyInv
  <1>5. ASSUME InformerDelivers \/ OperatorRestarts PROVE CopyInv'
    BY <1>5 DEF InformerDelivers, OperatorRestarts, CopyInv
  <1>6. ASSUME UNCHANGED vars PROVE Kept
    BY <1>6 DEF vars, kubernetes
  <1> QED BY <1>0, <1>1, <1>2, <1>3, <1>4, <1>5, <1>6 DEF Next

-----------------------------------------------------------------------------
(* The refinement.                                                         *)

database == [replicas |-> deployment.replicas, pod |-> pod]

LEMMA ServiceInit == Init => Service!Init
  BY DEF Init, Absent, Service!Init, Service!NoDeployment

\* The calls of DevDB on a Deployment that they change.
LEMMA Calls ==
  ASSUME NEW r \in {-1, 0, 1}, NEW p
  PROVE  LET d == [replicas |-> r, pod |-> p]
         IN  /\ r # 1 => Service!devURL(d) = [replicas |-> 1, pod |-> "starting"]
             /\ r = 1 => Service!cleanUp(d, FALSE) = [replicas |-> 0, pod |-> "none"]
             /\ r = 1 => Service!cleanUp(d, TRUE) = [replicas |-> 1, pod |-> "starting"]
  BY DEF Service!devURL, Service!cleanUp

LEMMA ServiceStep == CopyInv /\ [Next]_vars => [Service!Next]_database
  <1> SUFFICES ASSUME CopyInv, [Next]_vars PROVE Service!Next \/ database' = database
    BY DEF database
  <1> DEFINE Same == UNCHANGED <<deployment, pod>>
  <1>0. /\ Same => database' = database
        /\ database = [replicas |-> deployment.replicas, pod |-> pod]
        /\ database' = [replicas |-> deployment'.replicas, pod |-> pod']
        /\ deployment.replicas \in {-1, 0, 1}
    BY DEF database, CopyInv
  <1>1. ASSUME NEW o \in Owners, CreateDeployment(o) \/ ScaleUp(o)
        PROVE  Service!Asked \/ Same
    <2>1. CASE Same
      BY <2>1
    <2>2. CASE ~Same
      <3>1. deployment.replicas \in {-1, 0} /\ deployment'.replicas = 1 /\ pod' = "starting"
        BY <1>1, <2>2 DEF CreateDeployment, ScaleUp, Absent, CopyInv
      <3>2. database' = Service!devURL(database)
        BY <1>0, <3>1, Calls
      <3> QED BY <3>2 DEF Service!Asked, database
    <2> QED BY <2>1, <2>2
  <1>2. ASSUME NEW o \in Owners, \/ GetFails(o) \/ FindDeployment(o) \/ ListPods(o)
                                 \/ NothingToDo(o) \/ CLISucceeds(o) \/ CLIFails(o)
        PROVE  Same
    BY <1>2 DEF GetFails, FindDeployment, ListPods, NothingToDo, CLISucceeds, CLIFails, EndsReady,
                kubernetes
  <1>3. ASSUME NEW o \in Owners, CleanUp(o) PROVE Service!CleanedUp \/ Same
    <2>1. CASE Same
      BY <2>1
    <2>2. CASE ScaleDown(o) /\ ~Same
      <3>1. deployment.replicas = 1 /\ deployment'.replicas = 0 /\ pod' = "none"
        BY <2>2 DEF ScaleDown, PodStops, CopyInv
      <3>2. database' = Service!cleanUp(database, FALSE)
        BY <1>0, <3>1, Calls
      <3> QED BY <3>2 DEF Service!CleanedUp, database
    <2>3. CASE DeletePods(o) /\ ~Same
      <3>1. deployment.replicas = 1 /\ deployment' = deployment /\ pod' = "starting"
        BY <1>3, <2>3 DEF DeletePods, PodStops
      <3>2. database' = Service!cleanUp(database, TRUE)
        BY <1>0, <3>1, Calls
      <3> QED BY <3>2 DEF Service!CleanedUp, database
    <2> QED BY <1>3, <2>1, <2>2, <2>3 DEF CleanUp
  <1>4. ASSUME NEW o \in Owners, OwnerDeleted(o) PROVE Service!Collected \/ Same
    BY <1>4 DEF OwnerDeleted, PodStops, Absent, Service!Collected, Service!NoDeployment
  <1>5. ASSUME PodStarts PROVE Service!Started
    BY <1>5 DEF PodStarts, Service!Started, Service!PodReady
  <1>6. ASSUME NEW o \in Owners, OwnerChanges(o) PROVE Same
    BY <1>6 DEF OwnerChanges, kubernetes
  <1>7. ASSUME PodGone \/ InformerDelivers \/ OperatorRestarts \/ UNCHANGED vars PROVE Same
    BY <1>7 DEF PodGone, InformerDelivers, OperatorRestarts, vars, kubernetes
  <1> QED BY <1>0, <1>1, <1>2, <1>3, <1>4, <1>5, <1>6, <1>7 DEF Next, Worker, Service!Next

\* However the requests of the owners interleave, and whatever copies they start
\* from, they amount to the calls of devDBReconciler made at once: the dev
\* database that AtlasMigration and AtlasSchema rely on.
THEOREM RefinesService == Spec => ImplementsService
  <1>1. Init => CopyInv
    BY CopyInit
  <1>2. CopyInv /\ [Next]_vars => CopyInv'
    BY CopyStep
  <1>3. Init => Service!Init
    BY ServiceInit
  <1>4. CopyInv /\ [Next]_vars => [Service!Next]_database
    BY ServiceStep
  <1> QED BY <1>1, <1>2, <1>3, <1>4, PTL DEF Spec, ImplementsService, Service!Spec, database

-----------------------------------------------------------------------------
(* Nothing is left running.                                                *)

\* Somebody will still clean up: an owner that is not ready, one that is about
\* to, or the owner of the Deployment, who has a run ahead (after a crash).
WillCleanUp(q) ==
  \/ q \in alive \ ready
  \/ step[q] = "clean"
  \/ q = deployment.owner /\ (q \in requeued \/ step[q] \in {"list", "use"})

\* A Deployment goes with its owner, and one that runs is somebody's to stop.
OwnerInv ==
  /\ step \in [Owners -> {"idle", "list", "use", "clean"}]
  /\ alive \subseteq Owners
  /\ deployment.replicas # -1 => deployment.owner \in alive

DebtInv ==
  deployment.replicas = 1 /\ prewarmed = {} /\ ~skipped => \E q \in Owners : WillCleanUp(q)

LEMMA DebtInit == Init => OwnerInv /\ DebtInv
  BY DEF Init, OwnerInv, DebtInv, Absent

LEMMA OwnerStep == CopyInv /\ OwnerInv /\ [Next]_vars => OwnerInv'
  <1> SUFFICES ASSUME CopyInv, OwnerInv, [Next]_vars PROVE OwnerInv'
    OBVIOUS
  <1>1. ASSUME NEW o \in Owners, Worker(o) PROVE OwnerInv'
    <2>1. alive' = alive
      BY <1>1 DEF Worker, CreateDeployment, ScaleUp, GetFails, FindDeployment, ListPods,
                  NothingToDo, CLISucceeds, CLIFails, CleanUp, EndsReady, Waits, resources
    <2>2. step' \in [Owners -> {"idle", "list", "use", "clean"}]
      BY <1>1 DEF OwnerInv, Worker, CreateDeployment, ScaleUp, GetFails, FindDeployment, ListPods,
                  NothingToDo, CLISucceeds, CLIFails, CleanUp, EndsReady, Waits
    <2>3. deployment'.replicas # -1 => deployment'.owner \in alive
      <3>1. CASE CreateDeployment(o)
        BY <3>1 DEF CreateDeployment, Runs, OwnerInv
      <3>2. CASE ScaleUp(o)
        <4>1. \/ UNCHANGED deployment
              \/ deployment' = [deployment EXCEPT !.replicas = 1] /\ current
          BY <3>2 DEF ScaleUp
        <4>2. current => deployment.replicas = 0
          BY <3>2 DEF ScaleUp, CopyInv
        <4>3. /\ deployment'.owner = deployment.owner
              /\ deployment'.replicas = -1 <=> deployment.replicas = -1
          BY <4>1, <4>2 DEF CopyInv
        <4> QED BY <4>3 DEF OwnerInv
      <3>3. CASE CleanUp(o)
        <4>1. \/ UNCHANGED deployment
              \/ deployment' = [deployment EXCEPT !.replicas = 0] /\ deployment.replicas = 1
          BY <3>3 DEF CleanUp, ScaleDown, DeletePods, CopyInv
        <4> QED BY <4>1 DEF OwnerInv, CopyInv
      <3>4. CASE \/ GetFails(o) \/ FindDeployment(o) \/ ListPods(o)
                 \/ NothingToDo(o) \/ CLISucceeds(o) \/ CLIFails(o)
        BY <3>4 DEF GetFails, FindDeployment, ListPods, NothingToDo, CLISucceeds, CLIFails,
                    EndsReady, kubernetes, OwnerInv
      <3> QED BY <1>1, <3>1, <3>2, <3>3, <3>4 DEF Worker
    <2> QED BY <2>1, <2>2, <2>3 DEF OwnerInv
  <1>2. ASSUME NEW o \in Owners, OwnerChanges(o) PROVE OwnerInv'
    BY <1>2 DEF OwnerChanges, kubernetes, workers, OwnerInv
  <1>3. ASSUME NEW o \in Owners, OwnerDeleted(o) PROVE OwnerInv'
    BY <1>3 DEF OwnerDeleted, OwnerInv, Absent
  <1>4. ASSUME PodStarts \/ PodGone \/ InformerDelivers \/ OperatorRestarts \/ UNCHANGED vars
        PROVE  OwnerInv'
    BY <1>4 DEF PodStarts, PodGone, InformerDelivers, OperatorRestarts, vars, kubernetes,
                resources, workers, OwnerInv
  <1> QED BY <1>1, <1>2, <1>3, <1>4 DEF Next

\* What an owner's prewarm setting is does not change while the operator works.
LEMMA PrewarmedStays == [Next]_vars => prewarmed' = prewarmed
  <1> SUFFICES ASSUME [Next]_vars PROVE prewarmed' = prewarmed
    OBVIOUS
  <1>1. ASSUME NEW o \in Owners, Worker(o) PROVE prewarmed' = prewarmed
    <2>1. CASE CreateDeployment(o) \/ ScaleUp(o) \/ GetFails(o)
      BY <2>1 DEF CreateDeployment, ScaleUp, GetFails, Waits
    <2>2. CASE FindDeployment(o) \/ ListPods(o)
      BY <2>2 DEF FindDeployment, ListPods, Waits, resources
    <2>3. CASE NothingToDo(o) \/ CLISucceeds(o) \/ CLIFails(o)
      BY <2>3 DEF NothingToDo, CLISucceeds, CLIFails, EndsReady
    <2>4. CASE CleanUp(o)
      BY <2>4 DEF CleanUp, resources
    <2> QED BY <1>1, <2>1, <2>2, <2>3, <2>4 DEF Worker
  <1>2. ASSUME NEW o \in Owners, OwnerChanges(o) \/ OwnerDeleted(o) PROVE prewarmed' = prewarmed
    BY <1>2 DEF OwnerChanges, OwnerDeleted
  <1>3. ASSUME PodStarts \/ PodGone \/ InformerDelivers \/ OperatorRestarts \/ UNCHANGED vars
        PROVE  prewarmed' = prewarmed
    BY <1>3 DEF PodStarts, PodGone, InformerDelivers, OperatorRestarts, vars, resources
  <1> QED BY <1>1, <1>2, <1>3 DEF Next

LEMMA DebtStep == CopyInv /\ OwnerInv /\ DebtInv /\ [Next]_vars => DebtInv'
  <1> SUFFICES ASSUME CopyInv, OwnerInv, DebtInv, [Next]_vars,
                      deployment'.replicas = 1, prewarmed' = {}, ~skipped'
               PROVE  \E q \in Owners : WillCleanUp(q)'
    BY DEF DebtInv
  <1>0. prewarmed = {}
    BY PrewarmedStays
  \* The steps after which the owner itself is not ready.
  <1>1. ASSUME NEW o \in Owners, CreateDeployment(o) \/ ScaleUp(o) \/ GetFails(o)
        PROVE  WillCleanUp(o)'
    <2>1. o \in alive /\ alive' = alive /\ ready' = ready \ {o}
      BY <1>1 DEF CreateDeployment, ScaleUp, GetFails, Runs, Waits
    <2> QED BY <2>1 DEF WillCleanUp
  \* The steps after which it cleans up.
  <1>2. ASSUME NEW o \in Owners, NothingToDo(o) \/ CLISucceeds(o) PROVE WillCleanUp(o)'
    <2>1. step' = [step EXCEPT ![o] = "clean"]
      BY <1>2 DEF NothingToDo, CLISucceeds, EndsReady
    <2> QED BY <2>1 DEF WillCleanUp, OwnerInv
  \* The others: the Deployment ran before, and somebody was to stop it.
  <1>3. ASSUME deployment.replicas = 1, ~skipped
        PROVE  \E q \in Owners : WillCleanUp(q)
    BY <1>0, <1>3 DEF DebtInv
  <1>4. ASSUME NEW o \in Owners, FindDeployment(o) \/ ListPods(o) \/ CLIFails(o)
        PROVE  \E q \in Owners : WillCleanUp(q)'
    \* It goes on with the run that it is in, or it is not ready.
    <2>1. UNCHANGED <<deployment, alive, skipped>>
      BY <1>4 DEF FindDeployment, ListPods, CLIFails, Waits, kubernetes, resources, devHistory
    <2>2. /\ step[o] # "clean"
          /\ \/ UNCHANGED ready /\ step' \in {[step EXCEPT ![o] = s] : s \in {"list", "use"}}
             \/ ready' = ready \ {o} /\ step' = [step EXCEPT ![o] = "idle"]
      <3>1. CASE FindDeployment(o)
        BY <3>1 DEF FindDeployment, Runs
      <3>2. CASE ListPods(o)
        BY <3>2 DEF ListPods, Waits, resources
      <3>3. CASE CLIFails(o)
        BY <3>3 DEF CLIFails
      <3> QED BY <1>4, <3>1, <3>2, <3>3
    <2>3. \A q \in Owners \ {o} : q \in requeued => q \in requeued' \/ q \notin alive
      <3>1. CASE FindDeployment(o)
        BY <3>1 DEF FindDeployment
      <3>2. CASE ListPods(o)
        BY <3>2 DEF ListPods, Waits, resources
      <3>3. CASE CLIFails(o)
        BY <3>3 DEF CLIFails
      <3> QED BY <1>4, <3>1, <3>2, <3>3
    <2>4. PICK q \in Owners : WillCleanUp(q)
      BY <1>3, <2>1
    <2>5. q = deployment.owner => q \in alive
      BY <2>1 DEF OwnerInv
    <2>6. CASE q # o
      <3>1. step'[q] = step[q]
        BY <2>2, <2>6 DEF OwnerInv
      <3>2. q \notin ready => q \notin ready'
        BY <2>2
      <3> QED BY <2>1, <2>3, <2>4, <2>5, <2>6, <3>1, <3>2 DEF WillCleanUp
    <2>7. CASE q = o
      <3>1. q \in alive /\ (q \in ready => q = deployment.owner)
        BY <2>2, <2>4, <2>5, <2>7 DEF WillCleanUp
      <3>2. q \notin ready' \/ (q \in ready /\ step'[q] \in {"list", "use"})
        BY <2>2, <2>7 DEF OwnerInv
      <3> QED BY <2>1, <3>1, <3>2 DEF WillCleanUp
    <2> QED BY <2>6, <2>7
  <1>5. ASSUME NEW o \in Owners, CleanUp(o) PROVE FALSE
    <2>1. ScaleDown(o)
      BY <1>0, <1>5 DEF CleanUp, DeletePods
    <2>2. CASE current /\ cached = 1
      <3>1. deployment.replicas = 1
        BY <2>2 DEF CopyInv
      <3>2. deployment' = [deployment EXCEPT !.replicas = 0] \/ skipped'
        BY <2>1, <2>2, <3>1 DEF ScaleDown
      <3>3. deployment' # [deployment EXCEPT !.replicas = 0]
        BY DEF CopyInv
      <3> QED BY <3>2, <3>3
    <2>3. CASE current /\ cached # 1
      BY <2>1, <2>3 DEF ScaleDown, CopyInv
    <2>4. CASE ~current
      BY <2>1, <2>4 DEF ScaleDown, CopyInv
    <2> QED BY <2>2, <2>3, <2>4 DEF CopyInv
  <1>6. ASSUME NEW o \in Owners, OwnerChanges(o) PROVE \E q \in Owners : WillCleanUp(q)'
    <2>1. /\ UNCHANGED <<deployment, alive, ready, step, skipped>>
          /\ requeued \subseteq requeued'
      BY <1>6 DEF OwnerChanges, kubernetes, workers, devHistory
    <2>2. PICK q \in Owners : WillCleanUp(q)
      BY <1>3, <2>1
    <2> QED BY <2>1, <2>2 DEF WillCleanUp
  <1>7. ASSUME NEW o \in Owners, OwnerDeleted(o) PROVE \E q \in Owners : WillCleanUp(q)'
    <2>1. deployment.owner # o
      BY <1>7 DEF OwnerDeleted, Absent
    <2>2. /\ UNCHANGED <<deployment, ready, step>> /\ ~skipped /\ o \in ready
          /\ alive' = alive \ {o} /\ requeued' = requeued \ {o}
      BY <1>7, <2>1 DEF OwnerDeleted
    <2>3. PICK q \in Owners : WillCleanUp(q)
      BY <1>3, <2>2
    <2> QED BY <2>1, <2>2, <2>3 DEF WillCleanUp
  <1>8. ASSUME OperatorRestarts PROVE \E q \in Owners : WillCleanUp(q)'
    <2>1. UNCHANGED deployment /\ requeued' = alive
      BY <1>8 DEF OperatorRestarts
    <2>2. deployment.owner \in alive /\ alive \subseteq Owners
      BY <2>1 DEF OwnerInv
    <2> QED BY <2>1, <2>2 DEF WillCleanUp
  <1>9. ASSUME PodStarts \/ PodGone \/ InformerDelivers \/ UNCHANGED vars
        PROVE  \E q \in Owners : WillCleanUp(q)'
    <2>1. UNCHANGED <<deployment, resources, step, skipped>>
      BY <1>9 DEF PodStarts, PodGone, InformerDelivers, vars, kubernetes, workers, devHistory
    <2>2. PICK q \in Owners : WillCleanUp(q)
      BY <1>3, <2>1
    <2> QED BY <2>1, <2>2 DEF WillCleanUp, resources
  <1> QED BY <1>1, <1>2, <1>4, <1>5, <1>6, <1>7, <1>8, <1>9 DEF Next, Worker

\* When every owner is ready and none works, no database is left running, unless
\* the clean-up of the last one was lost or its owner deleted before it could.
THEOREM NothingRuns == Spec => []NothingLeftRunning
  <1>1. Init => CopyInv /\ OwnerInv /\ DebtInv
    BY CopyInit, DebtInit
  <1>2. CopyInv /\ OwnerInv /\ DebtInv /\ [Next]_vars => CopyInv' /\ OwnerInv' /\ DebtInv'
    BY CopyStep, OwnerStep, DebtStep
  <1>3. DebtInv => NothingLeftRunning
    BY DEF DebtInv, WillCleanUp, NothingLeftRunning, AtRest
  <1> QED BY <1>1, <1>2, <1>3, PTL DEF Spec
=============================================================================
