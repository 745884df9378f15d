-------------------------- MODULE MCResourceRows ---------------------------
(* One resource, two keys and three rows, for TLC; two contents with       *)
(* different checksums in a row of two.                                    *)
EXTENDS ResourceRows, TLC

CONSTANTS d1, d2

Wide == {<<1, 2>>}
CrcOf == (d1 :> 1) @@ (d2 :> 2)
KeysAlike == Permutations(Keys)
=============================================================================
