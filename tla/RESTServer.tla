----------------------------- MODULE RESTServer -----------------------------
(***************************************************************************)
(* interprocess::RESTServer, a dictionary of strings behind HTTP requests, *)
(* and RESTClient, whose calls block until they are answered.              *)
(*                                                                         *)
(* The listener (cpprest, external) runs a handler per request on threads  *)
(* of its own.  The handlers use dictionary_ without a lock: when one that *)
(* writes overlaps with another the behaviour is undefined (raced).  The   *)
(* server may then end, or go on with contents that the model no longer    *)
(* follows.                                                                *)
(*                                                                         *)
(* A client may time out; its request may then still be on its way, and    *)
(* its handler run.  No request is repeated by the classes.                *)
(***************************************************************************)
EXTENDS Naturals

CONSTANTS
  Clients, Keys, Values,
  Slots,     \* requests that may be on their way or in a handler at once
  Requests,  \* what the clients ask for
  None,
  NotString  \* a JSON value that is not a string

Bodyless == {"GET", "HEAD"}
Writers == {"PUT", "DEL"}

\* The bodies: an object (of PUT) or an array of strings (as the set of its
\* elements), or JSON of another type, null, or no JSON.
Objects == UNION {[S -> Values \cup {NotString}] : S \in SUBSET Keys}
Unusable == {"wrong type", "null", "malformed"}

AllRequests ==
  [method : {"PUT"}, body : Objects] \cup
  [method : {"POST", "DEL"}, body : SUBSET Keys] \cup
  [method : {"PUT", "POST", "DEL"}, bad : Unusable] \cup
  [method : Bodyless]

Messages == {"<put>", "<updated>", "<nil>", "<deleted>", "<failed>"}

\* What a handler answers for each key; how it is tracked; what its caller is told.
Answers == [Keys -> Values \cup Messages \cup {None}]

Handlers ==
  [request : Requests, pc : {"sent", "keys", "erase", "answered"},
   todo : SUBSET Keys, erase : SUBSET Keys, answer : Answers,
   status : {"OK", "BadRequest", "InternalError"}]

Results == [kind : {"json"}, answer : Answers] \cup [kind : {"null"}]

ASSUME RESTAssumption ==
  /\ Requests \subseteq AllRequests
  /\ None \notin Slots \cup Values \cup Handlers \cup Results
  /\ None \notin [request : Requests, told : Results \cup {None}]
  /\ NotString \notin Values

VARIABLES
  dictionary, \* dictionary_
  handler,    \* per slot: the request and how far its handler is, or None
  waits,      \* per client: the slot of the request it waits for
  up,         \* the server runs
  raced       \* two handlers, one of which writes, have overlapped

vars == <<dictionary, handler, waits, up, raced>>

Empty == [k \in Keys |-> None]

Init ==
  /\ dictionary = Empty
  /\ handler = [s \in Slots |-> None]
  /\ waits = [c \in Clients |-> None]
  /\ up = TRUE
  /\ raced = FALSE

\* The handlers that have begun to use the dictionary and have not answered.
Inside == {s \in Slots : handler[s] # None /\ handler[s].pc \in {"keys", "erase"}}

-----------------------------------------------------------------------------
(* RESTClient.                                                             *)

\* MakeRequest: GET and HEAD are sent without a body.
MakeRequest(c, r) ==
  /\ waits[c] = None
  /\ up
  /\ \E s \in Slots :
       /\ handler[s] = None
       /\ handler' = [handler EXCEPT ![s] =
            [request |-> r, pc |-> "sent", todo |-> {}, erase |-> {},
             answer |-> Empty, status |-> "OK"]]
       /\ waits' = [waits EXCEPT ![c] = s]
  /\ UNCHANGED <<dictionary, up, raced>>

\* MakeResponseTask: the text of a reply whose status is not OK is dropped.
ClientResult(status, answer) ==
  IF status = "OK" THEN [kind |-> "json", answer |-> answer] ELSE [kind |-> "null"]

\* GetJSON turns the http_exception of a lost connection, or of the client's
\* timeout, into an error value.  The request or its reply may still be on its way.
ConnectionLost(c) ==
  /\ waits[c] # None
  /\ waits' = [waits EXCEPT ![c] = None]
  /\ UNCHANGED <<dictionary, handler, up, raced>>

\* A request nobody waits for may never arrive.
Dropped(s) ==
  /\ handler[s] # None /\ handler[s].pc = "sent"
  /\ \A c \in Clients : waits[c] # s
  /\ handler' = [handler EXCEPT ![s] = None]
  /\ UNCHANGED <<dictionary, waits, up, raced>>

-----------------------------------------------------------------------------
(* RESTServer.                                                             *)

Answered(h, status) == [h EXCEPT !.pc = "answered", !.status = status]

\* The keys that the loop of a handler goes over.
KeysOf(r) == IF r.method = "GET" THEN Keys
             ELSE IF r.method = "PUT" THEN DOMAIN r.body
             ELSE r.body

BugMalformedNotCaught(s) ==
  /\ handler[s] # None /\ handler[s].pc = "sent"
  /\ LET h == handler[s]
         r == h.request
     IN  \/ /\ r.method = "HEAD" \/ ("bad" \in DOMAIN r /\ r.bad = "null")
            /\ handler' = [handler EXCEPT ![s] = Answered(h, "OK")]
         \/ /\ "bad" \in DOMAIN r /\ r.bad = "wrong type"
            /\ handler' = [handler EXCEPT ![s] = Answered(h, "InternalError")]
  /\ UNCHANGED <<dictionary, waits, up, raced>>

\* HEADHandler, and HandleRequest with a body no handler is called for or that it
\* throws for at once: only an http_exception is turned into a reply, anything else
\* leaves HandleRequest, and the listener answers.
AnswerAtOnce(s) ==
  /\ handler[s] # None /\ handler[s].pc = "sent"
  /\ LET h == handler[s]
         r == h.request
     IN  \/ /\ r.method = "HEAD" \/ ("bad" \in DOMAIN r /\ r.bad = "null")
            /\ handler' = [handler EXCEPT ![s] = Answered(h, "OK")]
         \/ /\ "bad" \in DOMAIN r /\ r.bad = "malformed"
            /\ handler' = [handler EXCEPT ![s] = Answered(h, "BadRequest")]
         \/ /\ "bad" \in DOMAIN r /\ r.bad \in {"malformed", "wrong type"}
            /\ handler' = [handler EXCEPT ![s] = Answered(h, "InternalError")]
  /\ UNCHANGED <<dictionary, waits, up, raced>>

\* GETHandler, POSTHandler, PUTHandler or DELHandler begins.
BeginHandler(s) ==
  /\ handler[s] # None /\ handler[s].pc = "sent"
  /\ LET r == handler[s].request
         overlap == \E t \in Inside : {r.method, handler[t].request.method} \cap Writers # {}
     IN  /\ "bad" \notin DOMAIN r /\ r.method # "HEAD"
         /\ handler' = [handler EXCEPT ![s].pc = "keys", ![s].todo = KeysOf(r)]
         /\ raced' = (raced \/ overlap)
         /\ dictionary' = IF raced' THEN Empty ELSE dictionary
  /\ UNCHANGED <<waits, up>>

\* What one turn of a handler's loop answers for a key, None for nothing.
BugPutAlwaysNew(r, k, d) ==
  CASE r.method = "GET" -> d[k]
    [] r.method = "POST" -> IF d[k] = None THEN "<nil>" ELSE d[k]
    [] r.method = "PUT" -> IF r.body[k] = NotString THEN None ELSE "<put>"
    [] r.method = "DEL" -> IF d[k] = None THEN "<failed>" ELSE "<deleted>"

AnswerFor(r, k, d) ==
  CASE r.method = "GET" -> d[k]
    [] r.method = "POST" -> IF d[k] = None THEN "<nil>" ELSE d[k]
    [] r.method = "PUT" -> IF r.body[k] = NotString THEN None
                           ELSE IF d[k] = None THEN "<put>" ELSE "<updated>"
    [] r.method = "DEL" -> IF d[k] = None THEN "<failed>" ELSE "<deleted>"

\* One turn of the loop.  DELHandler erases later.
HandleKey(s, k) ==
  /\ handler[s] # None /\ handler[s].pc = "keys"
  /\ LET h == handler[s]
         r == h.request
     IN  /\ k \in h.todo
         /\ handler' = [handler EXCEPT
              ![s].todo = @ \ {k},
              ![s].answer[k] = IF raced THEN None ELSE AnswerFor(r, k, dictionary),
              ![s].erase = IF r.method = "DEL" /\ dictionary[k] # None THEN @ \cup {k} ELSE @]
         /\ dictionary' = IF r.method = "PUT" /\ r.body[k] # NotString /\ ~raced
                          THEN [dictionary EXCEPT ![k] = r.body[k]]
                          ELSE dictionary
  /\ UNCHANGED <<waits, up, raced>>

EraseKey(s, k) ==
  /\ handler[s] # None /\ handler[s].pc = "erase"
  /\ k \in handler[s].erase
  /\ handler' = [handler EXCEPT ![s].erase = @ \ {k}]
  /\ dictionary' = [dictionary EXCEPT ![k] = None]
  /\ UNCHANGED <<waits, up, raced>>

BugReplyBeforeErase(s) ==
  /\ handler[s] # None
  /\ handler[s].pc = "keys" /\ handler[s].todo = {}
  /\ handler' = [handler EXCEPT ![s] = Answered(@, "OK")]
  /\ UNCHANGED <<dictionary, waits, up, raced>>

\* The end of a loop: DELHandler's second one, or the reply.
EndLoop(s) ==
  /\ handler[s] # None
  /\ \/ /\ handler[s].pc = "keys" /\ handler[s].todo = {}
        /\ handler' = [handler EXCEPT ![s] =
             IF @.erase = {} THEN Answered(@, "OK") ELSE [@ EXCEPT !.pc = "erase"]]
     \/ /\ handler[s].pc = "erase" /\ handler[s].erase = {}
        /\ handler' = [handler EXCEPT ![s] = Answered(@, "OK")]
  /\ UNCHANGED <<dictionary, waits, up, raced>>

\* request.reply; MakeRequest returns ClientResult of it if the client still waits.
Reply(s) ==
  /\ handler[s] # None /\ handler[s].pc = "answered"
  /\ handler' = [handler EXCEPT ![s] = None]
  /\ waits' = [c \in Clients |-> IF waits[c] = s THEN None ELSE waits[c]]
  /\ UNCHANGED <<dictionary, up, raced>>

\* What racing handlers may do to the process.
Crash ==
  /\ raced /\ up
  /\ up' = FALSE
  /\ handler' = [s \in Slots |-> None]
  /\ dictionary' = Empty
  /\ waits' = [c \in Clients |-> None]
  /\ UNCHANGED raced

ServerStep(s) ==
  \/ AnswerAtOnce(s) \/ BeginHandler(s)
  \/ \E k \in Keys : HandleKey(s, k) \/ EraseKey(s, k)
  \/ EndLoop(s)
  \/ Reply(s)

ClientStep(c) ==
  \/ \E r \in Requests : MakeRequest(c, r)
  \/ ConnectionLost(c)

Next ==
  \/ \E c \in Clients : ClientStep(c)
  \/ \E s \in Slots : ServerStep(s) \/ Dropped(s)
  \/ Crash

\* The listener runs every handler and, without a race, the loops are finite.
Spec == Init /\ [][Next]_vars /\ \A s \in Slots : WF_vars(ServerStep(s))

-----------------------------------------------------------------------------
(* Properties.                                                             *)

\* Types; a handler that has answered with an error has no keys left to handle; two
\* clients never wait for one request.
TypeOK ==
  /\ dictionary \in [Keys -> Values \cup {None}]
  /\ handler \in [Slots -> Handlers \cup {None}]
  /\ waits \in [Clients -> Slots \cup {None}]
  /\ up \in BOOLEAN /\ raced \in BOOLEAN
  /\ \A s \in Slots : handler[s] # None =>
       LET h == handler[s]
       IN  /\ h.pc \in {"sent", "answered"} => h.todo = {} /\ h.erase = {}
           /\ h.erase # {} => h.request.method = "DEL"
  /\ \A c \in Clients : waits[c] # None => handler[waits[c]] # None
  /\ \A c, d \in Clients : waits[c] = waits[d] /\ waits[c] # None => c = d

\* The dictionary as the handler that writes, if there is one, will leave it.
FinalDictionary ==
  LET writers == {s \in Inside : handler[s].request.method \in Writers}
      h == handler[CHOOSE s \in writers : TRUE]
  IN  IF writers = {} THEN dictionary
      ELSE [k \in Keys |->
             IF k \notin h.todo \cup h.erase THEN dictionary[k]
             ELSE IF h.request.method = "DEL" THEN None
             ELSE IF h.request.body[k] = NotString THEN dictionary[k]
             ELSE h.request.body[k]]

\* What the caller will be told: a handler's answers are settled when it begins.
Told(h) ==
  IF h.pc = "sent" THEN None
  ELSE ClientResult(h.status,
         [k \in Keys |-> IF k \in h.todo THEN AnswerFor(h.request, k, dictionary)
                         ELSE h.answer[k]])

\* The calls, as their callers see them.
Calls ==
  [s \in Slots |-> IF handler[s] = None THEN None
     ELSE [request |-> handler[s].request, told |-> Told(handler[s])]]

\* As long as no handler that writes overlaps with another, every request takes
\* effect at one instant, at most once, also when its caller has given up before;
\* its answer is that of this instant, and one that is refused changes nothing.
\* (RESTServer.hpp:19-45,93-181, RESTClient.hpp:60-115).
Dictionary == INSTANCE RESTDictionary WITH dict <- FinalDictionary, calls <- Calls

ImplementsDictionary == Dictionary!Spec

\* As long as no handlers have raced (after that a loop may never end), every call of
\* RESTClient returns, whatever its body and whatever other callers ask and give up
\* (RESTServer.hpp:28-44, RESTClient.hpp:93-115).
CallsReturn == \A c \in Clients : waits[c] # None ~> (waits[c] = None \/ raced)
=============================================================================
