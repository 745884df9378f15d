--------------------------- MODULE RESTDictionary ---------------------------
(***************************************************************************)
(* What RESTServer promises to the callers of RESTClient: a dictionary in  *)
(* which every request takes effect at one instant, after it was made and  *)
(* before its answer is seen, at most once, and is answered accordingly.   *)
(* A caller may give up; its request can take effect later all the same.   *)
(* The promise ends for good when the handlers race.                       *)
(***************************************************************************)
CONSTANTS Slots, Clients, Keys, Requests, None, NotString

VARIABLES
  dict,     \* the dictionary
  calls,    \* the requests made: what is asked, and what the caller will be told
  waits,    \* the call each client waits for
  raced

vars == <<dict, calls, waits, raced>>

\* The string values that a request puts, the dictionary after it, and its answer to
\* a key, in the dictionary d.
Puts(r) ==
  IF r.method = "PUT" /\ "body" \in DOMAIN r
  THEN {k \in DOMAIN r.body : r.body[k] # NotString} ELSE {}

Deletes(r) == IF r.method = "DEL" /\ "body" \in DOMAIN r THEN r.body ELSE {}

After(r, d) ==
  [k \in Keys |-> IF k \in Puts(r) THEN r.body[k] ELSE IF k \in Deletes(r) THEN None ELSE d[k]]

AnswerTo(r, k, d) ==
  IF r.method = "GET" THEN d[k]
  ELSE IF k \in Puts(r) THEN IF d[k] = None THEN "<put>" ELSE "<updated>"
  ELSE IF k \in Deletes(r) THEN IF d[k] = None THEN "<failed>" ELSE "<deleted>"
  ELSE IF r.method = "POST" /\ k \in r.body THEN IF d[k] = None THEN "<nil>" ELSE d[k]
  ELSE None

\* A body that cannot be used gets no answer, and null an empty one.
Outcome(r, d) ==
  IF "bad" \notin DOMAIN r
  THEN [kind |-> "json", answer |-> [k \in Keys |-> AnswerTo(r, k, d)]]
  ELSE IF r.bad = "null" THEN [kind |-> "json", answer |-> [k \in Keys |-> None]]
  ELSE [kind |-> "null"]

Init ==
  /\ dict = [k \in Keys |-> None]
  /\ calls = [s \in Slots |-> None]
  /\ waits = [c \in Clients |-> None]
  /\ raced = FALSE

Make(c, s, r) ==
  /\ waits[c] = None /\ calls[s] = None
  /\ calls' = [calls EXCEPT ![s] = [request |-> r, told |-> None]]
  /\ waits' = [waits EXCEPT ![c] = s]
  /\ UNCHANGED <<dict, raced>>

TakeEffect(s) ==
  /\ calls[s] # None /\ calls[s].told = None
  /\ calls' = [calls EXCEPT ![s].told = Outcome(calls[s].request, dict)]
  /\ dict' = After(calls[s].request, dict)
  /\ UNCHANGED <<waits, raced>>

Tell(c) ==
  /\ waits[c] # None /\ calls[waits[c]].told # None
  /\ calls' = [calls EXCEPT ![waits[c]] = None]
  /\ waits' = [waits EXCEPT ![c] = None]
  /\ UNCHANGED <<dict, raced>>

GiveUp(c) ==
  /\ waits[c] # None
  /\ waits' = [waits EXCEPT ![c] = None]
  /\ UNCHANGED <<dict, calls, raced>>

\* Nobody waits for it any more: it is dropped, before or after its effect.
Forget(s) ==
  /\ \A c \in Clients : waits[c] # s
  /\ calls' = [calls EXCEPT ![s] = None]
  /\ UNCHANGED <<dict, waits, raced>>

Next ==
  \/ \E c \in Clients, s \in Slots, r \in Requests : Make(c, s, r)
  \/ \E s \in Slots : TakeEffect(s) \/ Forget(s)
  \/ \E c \in Clients : Tell(c) \/ GiveUp(c)
  \/ raced'

Spec == Init /\ [][Next]_vars
=============================================================================
