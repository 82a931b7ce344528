--------------------------- MODULE MCAtlasSchema ---------------------------
(* Instances of AtlasSchema for TLC. *)
EXTENDS AtlasSchema, TLC

CONSTANTS t1, t2, a, b

NoPolicy     == {[review |-> "", destructive |-> "unset"]}
AlwaysPolicy == {[review |-> "ALWAYS", destructive |-> "unset"]}
LintPolicy   == [review : {""}, destructive : {"unset", "true"}]
ReviewPolicy == NoPolicy \cup AlwaysPolicy
                  \cup [review : {"WARNING", "ERROR"}, destructive : {"false"}]
AnyDB       == SUBSET Tables
EmptyDB     == {{}}

\* Tables are interchangeable in every property of the safety runs.
Symmetry == Permutations(Tables)
=============================================================================
