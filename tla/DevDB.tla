------------------------------- MODULE DevDB -------------------------------
(***************************************************************************)
(* The dev database of a resource: a Deployment named after the resource   *)
(* (nameDevDB) and its pod.  A dev database is the record                  *)
(*    replicas  -1 no Deployment, otherwise its replica count              *)
(*    pod       "none", "starting" or "ready" (condition PodReady)         *)
(* The operators are the calls of devDBReconciler on that record; the pods *)
(* themselves are run by Kubernetes.                                       *)
(***************************************************************************)
EXTENDS Integers

NoDeployment == [replicas |-> -1, pod |-> "none"]

DevDBs == [replicas : {-1, 0, 1}, pod : {"none", "starting", "ready"}]

\* Mutant: scaling up adds replicas instead of setting them.
devURLAdds(d) ==
  IF d.replicas \in {-1, 0} THEN [replicas |-> d.replicas + 2, pod |-> "starting"] ELSE d

\* devURL: what the call leaves behind ...
devURL(d) ==
  IF d.replicas \in {-1, 0} THEN [replicas |-> 1, pod |-> "starting"] ELSE d

\* ... and whether it returns a connection string or errWaitDevDB / "no
\* running pods found".  Only a pod that was ready before the call counts.
devURLReady(d) == d.replicas = 1 /\ d.pod = "ready"

\* cleanUp without prewarm scales to 0; with prewarm it deletes the pods, and
\* the Deployment starts a fresh one.
cleanUp(d, prewarm) ==
  CASE d.replicas = -1              -> d
    [] d.replicas # -1 /\ ~prewarm  -> [replicas |-> 0, pod |-> "none"]
    [] d.replicas = 0 /\ prewarm    -> d
    [] d.replicas = 1 /\ prewarm    -> [replicas |-> 1, pod |-> "starting"]

\* Kubernetes reports the pod ready.
PodReady(d) == [d EXCEPT !.pod = "ready"]
=============================================================================
