-------------------------- MODULE MCResourceFiles ---------------------------
(* Two threads save two resources under one key, for TLC; two values with  *)
(* different checksums.                                                    *)
EXTENDS ResourceFiles

CONSTANTS d1, d2

CrcOf == [d \in {d1, d2} |-> IF d = d1 THEN 1 ELSE 2]
=============================================================================
