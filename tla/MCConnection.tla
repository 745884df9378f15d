---------------------------- MODULE MCConnection ----------------------------
(* One connection for TLC: two messages of any sizes, two io threads.      *)
EXTENDS Connection

AnySizes == [Messages -> Sizes]
=============================================================================
