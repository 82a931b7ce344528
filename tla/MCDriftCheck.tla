---------------------------- MODULE MCDriftCheck ----------------------------
(***************************************************************************)
(* Values for the constants of DriftCheck: two fingerprints, which are     *)
(* only compared for equality.                                             *)
(***************************************************************************)
EXTENDS DriftCheck

CONSTANTS f1, f2
=============================================================================
