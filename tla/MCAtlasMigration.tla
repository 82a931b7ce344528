-------------------------- MODULE MCAtlasMigration --------------------------
(* Instances of AtlasMigration for TLC. *)
EXTENDS AtlasMigration

CONSTANTS t1, t2

AnyFlow  == AllFlows
OnlyDown == {[allow |-> TRUE, autoApprove |-> TRUE]}
NoDown   == {[allow |-> FALSE, autoApprove |-> FALSE]}
SomeFlow == OnlyDown \cup NoDown
=============================================================================
