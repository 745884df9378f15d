--------------------------- MODULE SnapshotStore ---------------------------
(***************************************************************************)
(* What the table of resources promises to a reader: a store of values     *)
(* under keys.  A load takes time.  It returns the value its key had when  *)
(* it began, or nothing.                                                   *)
(***************************************************************************)
CONSTANTS Keys, Values, None

VARIABLES
  store,   \* the value under each key
  pending, \* the load that has begun, with the value it is going to return
  answer   \* what a load returned last

Answers == [key : Keys, value : Values]

Init ==
  /\ store = [k \in Keys |-> None]
  /\ pending = None
  /\ answer = None

Save(k, v) ==
  /\ store' = [store EXCEPT ![k] = v]
  /\ UNCHANGED <<pending, answer>>

\* A load of what is removed may fail because of it.
Remove(k) ==
  /\ store' = [store EXCEPT ![k] = None]
  /\ pending' \in {pending, None}
  /\ UNCHANGED answer

Begin(k) ==
  /\ pending = None /\ store[k] # None
  /\ pending' = [key |-> k, value |-> store[k]]
  /\ UNCHANGED <<store, answer>>

Return ==
  /\ pending # None
  /\ answer' = pending
  /\ pending' = None
  /\ UNCHANGED store

Fail ==
  /\ pending' = None
  /\ UNCHANGED <<store, answer>>

Next ==
  \/ \E k \in Keys, v \in Values : Save(k, v)
  \/ \E k \in Keys : Remove(k) \/ Begin(k)
  \/ Return \/ Fail

Spec == Init /\ [][Next]_<<store, pending, answer>>
=============================================================================
