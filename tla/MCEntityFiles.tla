--------------------------- MODULE MCEntityFiles ---------------------------
(* Two roots, which are alike, for TLC.                                    *)
EXTENDS EntityFiles

Alike == Permutations(Roots)
=============================================================================
