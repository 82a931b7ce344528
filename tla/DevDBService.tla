---------------------------- MODULE DevDBService ----------------------------
(***************************************************************************)
(* What a resource may assume of its dev database: every change of it is   *)
(* one of the calls of module DevDB, made at once, on the database as it   *)
(* is.  AtlasMigration and AtlasSchema use the database in this way;       *)
(* DevDBController shows that the calls, each of several requests on a     *)
(* copy that may be outdated, amount to it.                                *)
(***************************************************************************)
EXTENDS DevDB

VARIABLE database

Init == database = NoDeployment

\* A run that needs the database asks for its URL.
Asked == database' = devURL(database)

\* A run that ends ready cleans up, with or without prewarm.
CleanedUp == \E prewarm \in BOOLEAN : database' = cleanUp(database, prewarm)

Started == database.pod = "starting" /\ database' = PodReady(database)

\* Its owner is deleted, and the Deployment with it.
Collected == database' = NoDeployment

Next == Asked \/ CleanedUp \/ Started \/ Collected

Spec == Init /\ [][Next]_database
=============================================================================
