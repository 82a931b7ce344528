--------------------------- MODULE MCSecurityScan ---------------------------
(***************************************************************************)
(* Values for the constants of SecurityScan.                               *)
(***************************************************************************)
EXTENDS SecurityScan

\* A waiver without an expiry, which never lapses.
NoWaiver == {NoTime}
=============================================================================
