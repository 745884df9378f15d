--------------------------- MODULE MCEventChannel ---------------------------
(* A channel and its copy, one key of an emitter, two keys of consumers, for *)
(* TLC: two emitters and a consumer of one signature, a consumer of another. *)
EXTENDS EventChannel

CONSTANTS ch1, ch2, e1, e2, c1, c2, k1

SignatureOf == [x \in {e1, e2, c1, c2} |-> IF x = c2 THEN "void(int)" ELSE "void()"]
=============================================================================
