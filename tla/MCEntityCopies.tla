--------------------------- MODULE MCEntityCopies ---------------------------
(* Two entities with up to two members each, one class derived from Entity. *)
EXTENDS EntityCopies, TLC

CONSTANTS k1, k2
MCOrder == <<k1, k2>>
MCLazyKeys == {k2}
MCNewKeys == {k1}
Alike == Permutations(Objects) \cup Permutations(Roots)
=============================================================================
