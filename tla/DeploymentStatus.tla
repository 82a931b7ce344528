-------------------------- MODULE DeploymentStatus --------------------------
(***************************************************************************)
(* What the readiness of a resource promises to the tools that watch it:   *)
(* a claim names a deployment that is in place, the claim is withdrawn     *)
(* before a database is touched, and a claim for another deployment is     *)
(* made only after the old one was withdrawn.                              *)
(***************************************************************************)
EXTENDS Integers

CONSTANTS Targets, MaxVersion, NoHash

VARIABLES
  db,      \* Revisions applied to each target.
  claim    \* The deployment advertised as ready, or NoHash.

Files == 0..MaxVersion

Init == db = [t \in Targets |-> 0] /\ claim = NoHash

Withdraw == claim' = NoHash /\ UNCHANGED db

\* Deploying, rolling back, or failing halfway.
Work ==
  /\ claim = NoHash /\ UNCHANGED claim
  /\ \E t \in Targets, v \in Files : db' = [db EXCEPT ![t] = v]

Certify ==
  /\ claim = NoHash
  /\ \E t \in Targets, v \in Files :
       db[t] = v /\ claim' = [target |-> t, files |-> v]
  /\ UNCHANGED db

Next == Withdraw \/ Work \/ Certify

Spec == Init /\ [][Next]_<<db, claim>>
=============================================================================
