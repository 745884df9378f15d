--------------------------- MODULE KeyValueStore ---------------------------
(***************************************************************************)
(* What the files that ResourceSerializer writes promise to their readers: *)
(* a store of whole values under keys, in which every save, removal and    *)
(* load takes effect at one instant, and in which a crash changes nothing. *)
(***************************************************************************)
CONSTANTS Keys, Values, None

VARIABLES
  store, \* the value under each key
  answer \* the last load: which key, which value

TypeOK ==
  /\ store \in [Keys -> Values \cup {None}]
  /\ answer \in [key : Keys, value : Values] \cup {None}

Init ==
  /\ store = [k \in Keys |-> None]
  /\ answer = None

Save(k, v) ==
  /\ store' = [store EXCEPT ![k] = v]
  /\ UNCHANGED answer

Remove(k) ==
  /\ store' = [store EXCEPT ![k] = None]
  /\ UNCHANGED answer

Load(k) ==
  /\ store[k] # None
  /\ answer' = [key |-> k, value |-> store[k]]
  /\ UNCHANGED store

Next ==
  \E k \in Keys :
    \/ \E v \in Values : Save(k, v)
    \/ Remove(k)
    \/ Load(k)

Spec == Init /\ [][Next]_<<store, answer>>
=============================================================================
