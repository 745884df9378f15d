-------------------------- MODULE MCEntityDatabase --------------------------
(* Two databases, which are alike, and two entities for TLC.  The Save of  *)
(* one entity may throw.                                                   *)
EXTENDS EntityDatabase, TLC

Alike == Permutations(Paths)
=============================================================================
