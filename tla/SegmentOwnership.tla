-------------------------- MODULE SegmentOwnership --------------------------
(***************************************************************************)
(* What ISharedMemory promises of the names of segments: a name has at     *)
(* most one holder, only a free name can be taken, and only its holder     *)
(* gives it up.  What a holder leaves behind without giving it up, because *)
(* it died or its Create failed half way, nobody can take or free again.   *)
(***************************************************************************)
CONSTANTS Objects, Names, Free, Abandoned

VARIABLE holder \* who holds each name

Init == holder = [n \in Names |-> Free]

Take(o, n) == holder[n] = Free /\ holder' = [holder EXCEPT ![n] = o]

GiveUp(o, n) == holder[n] = o /\ holder' = [holder EXCEPT ![n] = Free]

Abandon(o, n) == holder[n] = o /\ holder' = [holder EXCEPT ![n] = Abandoned]

Next == \E o \in Objects, n \in Names : Take(o, n) \/ GiveUp(o, n) \/ Abandon(o, n)

Spec == Init /\ [][Next]_holder
=============================================================================
