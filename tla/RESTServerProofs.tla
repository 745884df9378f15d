-------------------------- MODULE RESTServerProofs --------------------------
(***************************************************************************)
(* Theorems about RESTServer for every set of clients, keys, values,       *)
(* requests and handlers at once.                                          *)
(***************************************************************************)
EXTENDS RESTServer, TLAPS

-----------------------------------------------------------------------------
(* The inductive invariant.                                                *)

\* How far a handler can be with its request: what it has answered, which keys and
\* which status go with each part of it.
Fine(h) ==
  /\ h.pc = "sent" => h.answer = Empty
  /\ h.pc # "answered" => h.status = "OK"
  /\ h.pc \in {"keys", "erase"} =>
       "bad" \notin DOMAIN h.request /\ h.request.method # "HEAD"
  /\ h.pc = "keys" => h.todo \subseteq KeysOf(h.request)
  /\ h.pc \in {"sent", "erase", "answered"} => h.todo = {}
  /\ h.pc \in {"sent", "answered"} => h.erase = {}
  /\ h.erase # {} => h.request.method = "DEL"

\* Without a race, a handler that writes is alone in using the dictionary.
WriterAlone ==
  ~raced => \A s, t \in Inside :
              s # t => {handler[s].request.method, handler[t].request.method} \cap Writers = {}

IInv ==
  /\ TypeOK
  /\ \A s \in Slots : handler[s] # None => Fine(handler[s])
  /\ WriterAlone

-----------------------------------------------------------------------------
(* Requests.                                                               *)

\* The four kinds of requests.
LEMMA RequestKinds ==
  ASSUME NEW r \in Requests
  PROVE  /\ r.method \in {"PUT", "POST", "DEL", "GET", "HEAD"}
         /\ \/ /\ r.method = "PUT" /\ "bad" \notin DOMAIN r /\ "body" \in DOMAIN r
               /\ DOMAIN r.body \subseteq Keys
               /\ \A k \in DOMAIN r.body : r.body[k] \in Values \cup {NotString}
            \/ /\ r.method \in {"POST", "DEL"} /\ "bad" \notin DOMAIN r /\ "body" \in DOMAIN r
               /\ r.body \subseteq Keys
            \/ /\ "bad" \in DOMAIN r /\ "body" \notin DOMAIN r
               /\ r.method \in {"PUT", "POST", "DEL"} /\ r.bad \in Unusable
            \/ /\ "bad" \notin DOMAIN r /\ "body" \notin DOMAIN r
               /\ r.method \in {"GET", "HEAD"}
<1>1. r \in AllRequests
  BY RESTAssumption
<1>2. CASE r \in [method : {"PUT"}, body : Objects]
  <2>1. r.method = "PUT" /\ r.body \in Objects /\ DOMAIN r = {"method", "body"}
    BY <1>2
  <2>2. PICK S \in SUBSET Keys : r.body \in [S -> Values \cup {NotString}]
    BY <2>1 DEF Objects
  <2>3. DOMAIN r.body = S /\ \A k \in S : r.body[k] \in Values \cup {NotString}
    BY <2>2
  <2> QED BY <2>1, <2>3
<1>3. CASE r \in [method : {"POST", "DEL"}, body : SUBSET Keys]
  <2>1. r.method \in {"POST", "DEL"} /\ r.body \subseteq Keys /\ DOMAIN r = {"method", "body"}
    BY <1>3
  <2> QED BY <2>1
<1>4. CASE r \in [method : {"PUT", "POST", "DEL"}, bad : Unusable]
  <2>1. /\ r.method \in {"PUT", "POST", "DEL"} /\ r.bad \in Unusable
        /\ DOMAIN r = {"method", "bad"}
    BY <1>4
  <2> QED BY <2>1
<1>5. CASE r \in [method : Bodyless]
  <2>1. r.method \in {"GET", "HEAD"} /\ DOMAIN r = {"method"}
    BY <1>5 DEF Bodyless
  <2> QED BY <2>1
<1> QED BY <1>1, <1>2, <1>3, <1>4, <1>5 DEF AllRequests

\* A handler goes over keys of the dictionary.
LEMMA KeysOfType ==
  ASSUME NEW r \in Requests, "bad" \notin DOMAIN r, r.method # "HEAD"
  PROVE  KeysOf(r) \subseteq Keys
BY RequestKinds DEF KeysOf

\* The answer to a key is a value, a message or nothing.
LEMMA AnswerType ==
  ASSUME NEW r \in Requests, "bad" \notin DOMAIN r, r.method # "HEAD",
         NEW k \in KeysOf(r), NEW d, d[k] \in Values \cup {None}
  PROVE  AnswerFor(r, k, d) \in Values \cup Messages \cup {None}
<1>1. r.method \in {"GET", "POST", "PUT", "DEL"}
  BY RequestKinds
<1> QED BY <1>1 DEF AnswerFor, Messages

-----------------------------------------------------------------------------
(* What a step of the server does to the one handler that it is about.      *)

\* The handler in slot s has become g.
Becomes(s, g) ==
  /\ g \in Handlers /\ Fine(g)
  /\ handler' = [handler EXCEPT ![s] = g]
  /\ UNCHANGED <<waits, up>>

LEMMA AtOnceBecomes ==
  ASSUME IInv, NEW s \in Slots, AnswerAtOnce(s)
  PROVE  \E g : /\ Becomes(s, g)
                /\ g.request = handler[s].request /\ g.pc = "answered"
                /\ g.todo = {} /\ g.answer = handler[s].answer
                /\ UNCHANGED <<dictionary, raced>>
<1> DEFINE h == handler[s]
           r == h.request
<1>1. h \in Handlers /\ h.pc = "sent" /\ Fine(h) /\ UNCHANGED <<dictionary, raced, waits, up>>
  BY DEF AnswerAtOnce, IInv, TypeOK
<1>2. PICK status \in {"OK", "BadRequest", "InternalError"} :
        handler' = [handler EXCEPT ![s] = Answered(h, status)]
  BY DEF AnswerAtOnce
<1> DEFINE g == [h EXCEPT !.pc = "answered", !.status = status]
<1>3. /\ g \in Handlers /\ g.request = h.request /\ g.pc = "answered" /\ g.todo = h.todo
      /\ g.erase = h.erase /\ g.answer = h.answer /\ g.status = status
  BY <1>1 DEF Handlers
<1>4. handler' = [handler EXCEPT ![s] = g]
  BY <1>2 DEF Answered
<1> HIDE DEF g
<1>5. Fine(g)
  BY <1>1, <1>3 DEF Fine
<1> QED BY <1>1, <1>3, <1>4, <1>5 DEF Becomes, Fine

LEMMA BeginBecomes ==
  ASSUME IInv, NEW s \in Slots, BeginHandler(s)
  PROVE  \E g : /\ Becomes(s, g)
                /\ g.request = handler[s].request /\ g.pc = "keys"
                /\ g.todo = KeysOf(g.request) /\ g.erase = {} /\ g.answer = Empty
<1> DEFINE h == handler[s]
           r == h.request
<1>1. h \in Handlers /\ h.pc = "sent" /\ Fine(h) /\ UNCHANGED <<waits, up>>
  BY DEF BeginHandler, IInv, TypeOK
<1>2. "bad" \notin DOMAIN r /\ r.method # "HEAD" /\ r \in Requests
  BY <1>1 DEF BeginHandler, Handlers
<1>3. KeysOf(r) \subseteq Keys
  BY <1>2, KeysOfType
<1> DEFINE g == [h EXCEPT !.pc = "keys", !.todo = KeysOf(r)]
<1>4. /\ g \in Handlers /\ g.request = h.request /\ g.pc = "keys" /\ g.todo = KeysOf(r)
      /\ g.erase = h.erase /\ g.answer = h.answer /\ g.status = h.status
  BY <1>1, <1>3 DEF Handlers
<1>5. handler' = [handler EXCEPT ![s].pc = "keys", ![s].todo = KeysOf(r)]
  BY DEF BeginHandler
<1>6. handler' = [handler EXCEPT ![s] = g]
  BY <1>5 DEF IInv, TypeOK
<1> HIDE DEF g
<1>7. Fine(g)
  BY <1>1, <1>2, <1>4 DEF Fine
<1> QED BY <1>1, <1>4, <1>6, <1>7 DEF Becomes, Fine

LEMMA KeyBecomes ==
  ASSUME IInv, NEW s \in Slots, NEW k \in Keys, HandleKey(s, k)
  PROVE  \E g : /\ Becomes(s, g)
                /\ g.request = handler[s].request /\ g.pc = "keys"
                /\ g.todo = handler[s].todo \ {k}
                /\ g.erase = IF g.request.method = "DEL" /\ dictionary[k] # None
                             THEN handler[s].erase \cup {k} ELSE handler[s].erase
                /\ g.answer = [handler[s].answer EXCEPT ![k] =
                                 IF raced THEN None ELSE AnswerFor(g.request, k, dictionary)]
<1> DEFINE h == handler[s]
           r == h.request
           a == IF raced THEN None ELSE AnswerFor(r, k, dictionary)
           e == IF r.method = "DEL" /\ dictionary[k] # None THEN h.erase \cup {k} ELSE h.erase
<1>1. h \in Handlers /\ h.pc = "keys" /\ Fine(h) /\ k \in h.todo /\ UNCHANGED <<waits, up>>
  BY DEF HandleKey, IInv, TypeOK
<1>2. r \in Requests /\ "bad" \notin DOMAIN r /\ r.method # "HEAD" /\ k \in KeysOf(r)
  BY <1>1 DEF Handlers, Fine
<1>3. dictionary[k] \in Values \cup {None}
  BY DEF IInv, TypeOK
<1>4. a \in Values \cup Messages \cup {None}
  BY <1>2, <1>3, AnswerType
<1>5. e \subseteq Keys /\ (e # {} => r.method = "DEL")
  BY <1>1 DEF Handlers, Fine
<1>6. handler' = [handler EXCEPT ![s].todo = @ \ {k}, ![s].answer[k] = a, ![s].erase = e]
  BY DEF HandleKey
<1> HIDE DEF a, e
<1> DEFINE g == [h EXCEPT !.todo = @ \ {k}, !.answer = [@ EXCEPT ![k] = a], !.erase = e]
<1>7. [h.answer EXCEPT ![k] = a] \in Answers
  BY <1>1, <1>4 DEF Handlers, Answers
<1>8. /\ g \in Handlers /\ g.request = h.request /\ g.pc = "keys" /\ g.todo = h.todo \ {k}
      /\ g.erase = e /\ g.answer = [h.answer EXCEPT ![k] = a] /\ g.status = h.status
  BY <1>1, <1>5, <1>7 DEF Handlers
<1>9. handler' = [handler EXCEPT ![s] = g]
  BY <1>1, <1>6 DEF IInv, TypeOK, Handlers
<1> HIDE DEF g
<1>10. Fine(g)
  BY <1>1, <1>5, <1>8 DEF Fine
<1>11. /\ g.erase = IF g.request.method = "DEL" /\ dictionary[k] # None
                    THEN h.erase \cup {k} ELSE h.erase
       /\ g.answer = [h.answer EXCEPT ![k] =
                         IF raced THEN None ELSE AnswerFor(g.request, k, dictionary)]
  BY <1>8 DEF a, e
<1>12. Becomes(s, g)
  BY <1>1, <1>8, <1>9, <1>10 DEF Becomes
<1> QED BY <1>8, <1>11, <1>12

LEMMA EraseBecomes ==
  ASSUME IInv, NEW s \in Slots, NEW k \in Keys, EraseKey(s, k)
  PROVE  \E g : /\ Becomes(s, g)
                /\ g.request = handler[s].request /\ g.pc = "erase" /\ g.todo = {}
                /\ g.erase = handler[s].erase \ {k} /\ g.answer = handler[s].answer
<1> DEFINE h == handler[s]
<1>1. h \in Handlers /\ h.pc = "erase" /\ Fine(h) /\ UNCHANGED <<waits, up>>
  BY DEF EraseKey, IInv, TypeOK
<1>2. handler' = [handler EXCEPT ![s].erase = @ \ {k}]
  BY DEF EraseKey
<1> DEFINE g == [h EXCEPT !.erase = @ \ {k}]
<1>3. /\ g \in Handlers /\ g.request = h.request /\ g.pc = "erase" /\ g.todo = h.todo
      /\ g.erase = h.erase \ {k} /\ g.answer = h.answer /\ g.status = h.status
  BY <1>1 DEF Handlers
<1>4. handler' = [handler EXCEPT ![s] = g]
  BY <1>2 DEF IInv, TypeOK
<1> HIDE DEF g
<1>5. Fine(g)
  BY <1>1, <1>3 DEF Fine
<1> QED BY <1>1, <1>3, <1>4, <1>5 DEF Becomes, Fine

LEMMA EndBecomes ==
  ASSUME IInv, NEW s \in Slots, EndLoop(s)
  PROVE  \E g : /\ Becomes(s, g)
                /\ g.request = handler[s].request /\ g.todo = {}
                /\ \/ handler[s].erase = {} /\ g.pc = "answered" /\ g.erase = {}
                   \/ g.pc = "erase" /\ g.erase = handler[s].erase
                /\ g.answer = handler[s].answer /\ g.status = "OK"
                /\ handler[s].pc \in {"keys", "erase"} /\ handler[s].todo = {}
                /\ UNCHANGED <<dictionary, raced>>
<1> DEFINE h == handler[s]
<1>1. /\ h \in Handlers /\ h.pc \in {"keys", "erase"} /\ h.todo = {} /\ Fine(h)
      /\ UNCHANGED <<dictionary, raced, waits, up>>
  BY DEF EndLoop, IInv, TypeOK, Fine
<1>2. CASE h.erase = {} /\ handler' = [handler EXCEPT ![s] = Answered(h, "OK")]
  <2> DEFINE g == [h EXCEPT !.pc = "answered", !.status = "OK"]
  <2>1. /\ g \in Handlers /\ g.request = h.request /\ g.pc = "answered" /\ g.todo = h.todo
        /\ g.erase = h.erase /\ g.answer = h.answer /\ g.status = "OK"
    BY <1>1 DEF Handlers
  <2>2. handler' = [handler EXCEPT ![s] = g]
    BY <1>2 DEF Answered
  <2> HIDE DEF g
  <2>3. Fine(g)
    BY <1>1, <1>2, <2>1 DEF Fine
  <2> QED BY <1>1, <1>2, <2>1, <2>2, <2>3 DEF Becomes
<1>3. CASE h.pc = "keys" /\ h.erase # {} /\ handler' = [handler EXCEPT ![s] = [h EXCEPT !.pc = "erase"]]
  <2> DEFINE g == [h EXCEPT !.pc = "erase"]
  <2>1. /\ g \in Handlers /\ g.request = h.request /\ g.pc = "erase" /\ g.todo = h.todo
        /\ g.erase = h.erase /\ g.answer = h.answer /\ g.status = h.status
    BY <1>1 DEF Handlers
  <2> HIDE DEF g
  <2>2. Fine(g)
    BY <1>1, <1>3, <2>1 DEF Fine
  <2>3. handler' = [handler EXCEPT ![s] = g]
    BY <1>3 DEF g
  <2>4. h.status = "OK"
    BY <1>1 DEF Fine
  <2> QED BY <1>1, <1>3, <2>1, <2>2, <2>3, <2>4 DEF Becomes
<1>4. h # None
  BY DEF EndLoop
<1> QED
  BY <1>2, <1>3 DEF EndLoop

-----------------------------------------------------------------------------
(* The invariant.                                                          *)

\* It is kept by a handler's step, unless the handler has begun to use the dictionary
\* beside a writer, or as a writer, without that being noted.
LEMMA BecomesKeeps ==
  ASSUME IInv, NEW s \in Slots, handler[s] # None, NEW g, Becomes(s, g),
         g.request = handler[s].request,
         dictionary' \in [Keys -> Values \cup {None}], raced' \in BOOLEAN,
         ~raced' => ~raced,
         \/ g.pc \notin {"keys", "erase"}
         \/ s \in Inside
         \/ ~raced' => \A t \in Inside :
                {g.request.method, handler[t].request.method} \cap Writers = {}
  PROVE  IInv'
<1>1. /\ handler' \in [Slots -> Handlers \cup {None}] /\ g # None
      /\ handler'[s] = g /\ \A t \in Slots \ {s} : handler'[t] = handler[t]
  BY RESTAssumption DEF IInv, TypeOK, Becomes
<1>2. \A t \in Slots : handler'[t] # None => Fine(handler'[t])
  BY <1>1 DEF IInv, Becomes
<1>3. \A t \in Slots : handler'[t] = None <=> handler[t] = None
  BY <1>1
<1>4. TypeOK'
  <2>1. \A t \in Slots : handler'[t] # None =>
          /\ handler'[t].pc \in {"sent", "answered"} => handler'[t].todo = {} /\ handler'[t].erase = {}
          /\ handler'[t].erase # {} => handler'[t].request.method = "DEL"
    BY <1>2 DEF Fine
  <2>2. UNCHANGED <<waits, up>>
    BY DEF Becomes
  <2>3. \A c \in Clients : waits[c] # None => handler'[waits[c]] # None
    BY <1>3 DEF IInv, TypeOK
  <2> QED BY <1>1, <2>1, <2>2, <2>3 DEF IInv, TypeOK
<1>5. WriterAlone'
  <2>1. Inside' \subseteq Inside \cup {s}
    BY <1>1 DEF Inside
  <2>2. g.pc \notin {"keys", "erase"} => Inside' \subseteq Inside \ {s}
    BY <1>1 DEF Inside
  <2>3. \A t \in Slots : t \in Inside' => handler'[t].request = handler[t].request
    BY <1>1
  <2>4. ASSUME ~raced', NEW t \in Inside', NEW u \in Inside', t # u
        PROVE  {handler'[t].request.method, handler'[u].request.method} \cap Writers = {}
    <3>1. ~raced /\ t \in Slots /\ u \in Slots
      BY <2>4 DEF Inside
    <3>2. CASE t \in Inside /\ u \in Inside
      BY <2>3, <2>4, <3>1, <3>2 DEF IInv, WriterAlone
    <3>3. CASE s \notin Inside /\ g.pc \in {"keys", "erase"} /\ s \in {t, u}
      BY <1>1, <2>1, <2>3, <2>4, <3>1, <3>3
    <3> QED BY <2>1, <2>2, <2>4, <3>2, <3>3
  <2> QED BY <2>4 DEF WriterAlone
<1> QED
  BY <1>2, <1>4, <1>5 DEF IInv, Fine, Empty, KeysOf

\* A slot becomes free, or gets a request that no handler has begun with.
LEMMA SlotKeeps ==
  ASSUME IInv, NEW s \in Slots, NEW g, g = None \/ (g \in Handlers /\ Fine(g) /\ g.pc = "sent"),
         handler' = [handler EXCEPT ![s] = g],
         waits' \in [Clients -> Slots \cup {None}],
         \A c \in Clients : waits'[c] # None => handler'[waits'[c]] # None,
         \A c, d \in Clients : waits'[c] = waits'[d] /\ waits'[c] # None => c = d,
         UNCHANGED <<dictionary, up, raced>>
  PROVE  IInv'
<1>1. /\ handler' \in [Slots -> Handlers \cup {None}]
      /\ handler'[s] = g /\ \A t \in Slots \ {s} : handler'[t] = handler[t]
  BY DEF IInv, TypeOK
<1>2. \A t \in Slots : handler'[t] # None => Fine(handler'[t])
  BY <1>1 DEF IInv
<1>3. TypeOK'
  <2>1. \A t \in Slots : handler'[t] # None =>
          /\ handler'[t].pc \in {"sent", "answered"} => handler'[t].todo = {} /\ handler'[t].erase = {}
          /\ handler'[t].erase # {} => handler'[t].request.method = "DEL"
    BY <1>2 DEF Fine
  <2> QED BY <1>1, <2>1 DEF IInv, TypeOK
<1>4. WriterAlone'
  <2>1. Inside' \subseteq Inside \ {s}
    BY <1>1 DEF Inside
  <2>2. \A t \in Inside' : handler'[t] = handler[t]
    BY <1>1, <2>1 DEF Inside
  <2> QED BY <2>1, <2>2 DEF IInv, WriterAlone
<1> QED BY <1>2, <1>3, <1>4 DEF IInv, Fine, Empty, KeysOf

\* Nothing happens to the handlers.
LEMMA WaitsKeep ==
  ASSUME IInv, UNCHANGED <<dictionary, handler, up, raced>>,
         waits' \in [Clients -> Slots \cup {None}],
         \A c \in Clients : waits'[c] \in {waits[c], None}
  PROVE  IInv'
<1>1. TypeOK'
  <2>1. \A c \in Clients : waits'[c] # None => handler[waits'[c]] # None
    BY DEF IInv, TypeOK
  <2>2. \A c, d \in Clients : waits'[c] = waits'[d] /\ waits'[c] # None => c = d
    BY DEF IInv, TypeOK
  <2> QED BY <2>1, <2>2 DEF IInv, TypeOK
<1>2. Inside' = Inside
  BY DEF Inside
<1>3. WriterAlone'
  BY <1>2 DEF IInv, WriterAlone
<1> QED BY <1>1, <1>3 DEF IInv, Fine, Empty, KeysOf

LEMMA InvariantStep ==
  ASSUME IInv, [Next]_vars
  PROVE  IInv'
<1>1. ASSUME NEW c \in Clients, NEW r \in Requests, MakeRequest(c, r)
      PROVE  IInv'
  <2>1. PICK s \in Slots :
          /\ handler[s] = None
          /\ handler' = [handler EXCEPT ![s] =
               [request |-> r, pc |-> "sent", todo |-> {}, erase |-> {},
                answer |-> Empty, status |-> "OK"]]
          /\ waits' = [waits EXCEPT ![c] = s]
    BY <1>1 DEF MakeRequest
  <2> DEFINE g == [request |-> r, pc |-> "sent", todo |-> {}, erase |-> {},
                   answer |-> Empty, status |-> "OK"]
  <2>2. g \in Handlers /\ Fine(g) /\ g.pc = "sent" /\ g # None
    BY RESTAssumption DEF Handlers, Answers, Empty, Fine
  <2>3. handler' = [handler EXCEPT ![s] = g]
    BY <2>1
  <2> HIDE DEF g
  <2>4. \A d \in Clients : waits[d] # s
    BY <2>1, RESTAssumption DEF IInv, TypeOK
  <2>5. handler'[s] = g /\ \A t \in Slots \ {s} : handler'[t] = handler[t]
    BY <2>3 DEF IInv, TypeOK
  <2>6. \A d \in Clients : waits'[d] # None => handler'[waits'[d]] # None
    BY <2>1, <2>2, <2>5 DEF IInv, TypeOK
  <2>7. \A d, e \in Clients : waits'[d] = waits'[e] /\ waits'[d] # None => d = e
    BY <2>1, <2>4 DEF IInv, TypeOK
  <2>8. waits' \in [Clients -> Slots \cup {None}]
    BY <2>1 DEF IInv, TypeOK
  <2> QED BY <1>1, <2>2, <2>3, <2>6, <2>7, <2>8, SlotKeeps DEF MakeRequest
<1>2. ASSUME NEW c \in Clients, ConnectionLost(c)
      PROVE  IInv'
  <2>1. waits' \in [Clients -> Slots \cup {None}] /\ \A d \in Clients : waits'[d] \in {waits[d], None}
    BY <1>2 DEF ConnectionLost, IInv, TypeOK
  <2> QED BY <1>2, <2>1, WaitsKeep DEF ConnectionLost
<1>3. ASSUME NEW s \in Slots, Dropped(s) \/ Reply(s)
      PROVE  IInv'
  <2>1. /\ waits' \in [Clients -> Slots \cup {None}]
        /\ \A c \in Clients : waits'[c] \in {waits[c], None} /\ waits'[c] # s
    BY <1>3, RESTAssumption DEF Dropped, Reply, IInv, TypeOK
  <2>2. handler' = [handler EXCEPT ![s] = None] /\ UNCHANGED <<dictionary, up, raced>>
    BY <1>3 DEF Dropped, Reply
  <2>3. \A c \in Clients : waits'[c] # None => handler'[waits'[c]] # None
    BY <2>1, <2>2 DEF IInv, TypeOK
  <2>4. \A c, d \in Clients : waits'[c] = waits'[d] /\ waits'[c] # None => c = d
    BY <2>1 DEF IInv, TypeOK
  <2> QED BY <2>1, <2>2, <2>3, <2>4, SlotKeeps
<1>4. ASSUME NEW s \in Slots, AnswerAtOnce(s)
      PROVE  IInv'
  <2>1. PICK g : /\ Becomes(s, g)
                 /\ g.request = handler[s].request /\ g.pc = "answered"
                 /\ UNCHANGED <<dictionary, raced>>
    BY <1>4, AtOnceBecomes
  <2>2. handler[s] # None
    BY <1>4 DEF AnswerAtOnce
  <2> QED BY <2>1, <2>2, BecomesKeeps DEF IInv, TypeOK
<1>5. ASSUME NEW s \in Slots, BeginHandler(s)
      PROVE  IInv'
  <2>1. PICK g : Becomes(s, g) /\ g.request = handler[s].request
    BY <1>5, BeginBecomes
  <2>2. handler[s] # None
    BY <1>5 DEF BeginHandler
  <2>3. raced' = (raced \/ \E t \in Inside :
                    {handler[s].request.method, handler[t].request.method} \cap Writers # {})
    BY <1>5 DEF BeginHandler
  <2>4. dictionary' \in [Keys -> Values \cup {None}]
    BY <1>5 DEF BeginHandler, Empty, IInv, TypeOK
  <2>5. raced' \in BOOLEAN /\ (~raced' => ~raced)
    BY <2>3 DEF IInv, TypeOK
  <2>6. ~raced' => \A t \in Inside : {g.request.method, handler[t].request.method} \cap Writers = {}
    BY <2>1, <2>3
  <2> QED BY <2>1, <2>2, <2>4, <2>5, <2>6, BecomesKeeps
<1>6. ASSUME NEW s \in Slots, NEW k \in Keys, HandleKey(s, k)
      PROVE  IInv'
  <2>1. PICK g : Becomes(s, g) /\ g.request = handler[s].request
    BY <1>6, KeyBecomes
  <2>2. handler[s] # None /\ s \in Inside
    BY <1>6 DEF HandleKey, Inside
  <2>3. dictionary' \in [Keys -> Values \cup {None}]
    <3> DEFINE r == handler[s].request
    <3>1. CASE r.method = "PUT" /\ r.body[k] # NotString
      <4>1. r \in Requests /\ "bad" \notin DOMAIN r /\ k \in KeysOf(r)
        BY <1>6 DEF HandleKey, IInv, TypeOK, Handlers, Fine
      <4>2. r.body[k] \in Values
        BY <3>1, <4>1, RequestKinds DEF KeysOf
      <4> QED BY <1>6, <4>2 DEF HandleKey, IInv, TypeOK
    <3>2. CASE ~(r.method = "PUT" /\ r.body[k] # NotString)
      BY <1>6, <3>2 DEF HandleKey, IInv, TypeOK
    <3> QED BY <3>1, <3>2
  <2>4. UNCHANGED raced
    BY <1>6 DEF HandleKey
  <2> QED BY <2>1, <2>2, <2>3, <2>4, BecomesKeeps DEF IInv, TypeOK
<1>7. ASSUME NEW s \in Slots, NEW k \in Keys, EraseKey(s, k)
      PROVE  IInv'
  <2>1. PICK g : Becomes(s, g) /\ g.request = handler[s].request
    BY <1>7, EraseBecomes
  <2>2. handler[s] # None /\ s \in Inside /\ UNCHANGED raced
    BY <1>7 DEF EraseKey, Inside
  <2>3. dictionary' \in [Keys -> Values \cup {None}]
    BY <1>7 DEF EraseKey, IInv, TypeOK
  <2> QED BY <2>1, <2>2, <2>3, BecomesKeeps DEF IInv, TypeOK
<1>8. ASSUME NEW s \in Slots, EndLoop(s)
      PROVE  IInv'
  <2>1. PICK g : /\ Becomes(s, g) /\ g.request = handler[s].request
                 /\ handler[s].pc \in {"keys", "erase"}
                 /\ UNCHANGED <<dictionary, raced>>
    BY <1>8, EndBecomes
  <2>2. handler[s] # None /\ s \in Inside
    BY <1>8, <2>1 DEF EndLoop, Inside
  <2> QED BY <2>1, <2>2, BecomesKeeps DEF IInv, TypeOK
<1>9. ASSUME Crash
      PROVE  IInv'
  <2>1. /\ handler' = [s \in Slots |-> None] /\ waits' = [c \in Clients |-> None]
        /\ dictionary' = Empty /\ up' = FALSE /\ raced' = raced
    BY <1>9 DEF Crash
  <2>2. TypeOK'
    BY <2>1 DEF IInv, TypeOK, Empty
  <2>3. Inside' = {}
    BY <2>1 DEF Inside
  <2> QED BY <2>1, <2>2, <2>3 DEF IInv, WriterAlone
<1>10. ASSUME UNCHANGED vars
       PROVE  IInv'
  BY <1>10, WaitsKeep DEF vars, IInv, TypeOK
<1> QED
  BY <1>1, <1>2, <1>3, <1>4, <1>5, <1>6, <1>7, <1>8, <1>9, <1>10
  DEF Next, ClientStep, ServerStep

LEMMA InitInvariant ==
  ASSUME Init
  PROVE  IInv
<1>1. Inside = {}
  BY DEF Init, Inside
<1> QED BY <1>1 DEF Init, IInv, TypeOK, Empty, WriterAlone

LEMMA Invariance == Spec => []IInv
BY InitInvariant, InvariantStep, PTL DEF Spec

-----------------------------------------------------------------------------
(* The refinement: what the abstract dictionary and its calls are.         *)

Writing == {s \in Inside : handler[s].request.method \in Writers}

\* The dictionary d as the handler h, which writes, will leave it.
Left(h, d) ==
  [k \in Keys |->
     IF k \notin h.todo \cup h.erase THEN d[k]
     ELSE IF h.request.method = "DEL" THEN None
     ELSE IF h.request.body[k] = NotString THEN d[k]
     ELSE h.request.body[k]]

\* What the caller of h will be told if h goes on in the dictionary d.
ToldIn(h, d) ==
  IF h.pc = "sent" THEN None
  ELSE ClientResult(h.status,
         [k \in Keys |-> IF k \in h.todo THEN AnswerFor(h.request, k, d) ELSE h.answer[k]])

CallIn(h, d) == IF h = None THEN None ELSE [request |-> h.request, told |-> ToldIn(h, d)]

LEMMA CallsAre ==
  /\ Calls = [s \in Slots |-> CallIn(handler[s], dictionary)]
  /\ Calls' = [s \in Slots |-> CallIn(handler'[s], dictionary')]
BY DEF Calls, Told, CallIn, ToldIn

\* If s is the only one that may write, the abstract dictionary is what s will leave.
LEMMA FinalIs ==
  ASSUME NEW s, Writing \subseteq {s}
  PROVE  FinalDictionary = IF s \in Writing THEN Left(handler[s], dictionary) ELSE dictionary
<1>1. CASE s \in Writing
  <2>1. {t \in Inside : handler[t].request.method \in Writers} = {s}
    BY <1>1 DEF Writing
  <2>2. (CHOOSE t \in {s} : TRUE) = s
    OBVIOUS
  <2> QED BY <1>1, <2>1, <2>2 DEF FinalDictionary, Left
<1>2. CASE s \notin Writing
  <2>1. {t \in Inside : handler[t].request.method \in Writers} = {}
    BY <1>2 DEF Writing
  <2> QED BY <1>2, <2>1 DEF FinalDictionary
<1> QED BY <1>1, <1>2

LEMMA FinalIsNext ==
  ASSUME NEW s, Writing' \subseteq {s}
  PROVE  FinalDictionary' = IF s \in Writing' THEN Left(handler'[s], dictionary') ELSE dictionary'
<1>1. CASE s \in Writing'
  <2>1. {t \in Inside' : handler'[t].request.method \in Writers} = {s}
    BY <1>1 DEF Writing
  <2>2. (CHOOSE t \in {s} : TRUE) = s
    OBVIOUS
  <2> QED BY <1>1, <2>1, <2>2 DEF FinalDictionary, Left
<1>2. CASE s \notin Writing'
  <2>1. {t \in Inside' : handler'[t].request.method \in Writers} = {}
    BY <1>2 DEF Writing
  <2> QED BY <1>2, <2>1 DEF FinalDictionary
<1> QED BY <1>1, <1>2

LEMMA FinalType ==
  ASSUME IInv
  PROVE  FinalDictionary = [k \in Keys |-> FinalDictionary[k]]
<1>1. dictionary = [k \in Keys |-> dictionary[k]]
  BY DEF IInv, TypeOK
<1> QED BY <1>1 DEF FinalDictionary

\* It stays the same if nothing happens to those that use the dictionary.
LEMMA FinalSame ==
  ASSUME Inside' = Inside, \A s \in Inside : handler'[s] = handler[s], UNCHANGED dictionary
  PROVE  UNCHANGED FinalDictionary
<1>1. Writing' = Writing
  BY DEF Writing
<1>2. CASE Writing = {}
  BY <1>1, <1>2, FinalIs, FinalIsNext
<1>3. CASE Writing # {}
  <2> DEFINE s == CHOOSE t \in Writing : TRUE
  <2>1. s \in Inside /\ handler'[s] = handler[s]
    BY <1>3 DEF Writing
  <2>2. FinalDictionary = Left(handler[s], dictionary)
    BY <1>3 DEF FinalDictionary, Left, Writing
  <2>3. FinalDictionary' = Left(handler'[CHOOSE t \in Writing' : TRUE], dictionary')
    BY <1>1, <1>3 DEF FinalDictionary, Left, Writing
  <2>4. FinalDictionary' = Left(handler'[s], dictionary')
    BY <1>1, <2>3
  <2> QED BY <2>1, <2>2, <2>4
<1> QED BY <1>2, <1>3

\* What others will be told does not change with the dictionary unless they are
\* going over it.
LEMMA CallsChange ==
  ASSUME IInv, NEW s \in Slots, NEW g, handler' = [handler EXCEPT ![s] = g],
         UNCHANGED dictionary \/ \A t \in Inside : t = s
  PROVE  Calls' = [Calls EXCEPT ![s] = CallIn(g, dictionary')]
<1>1. handler'[s] = g /\ \A t \in Slots \ {s} : handler'[t] = handler[t]
  BY DEF IInv, TypeOK
<1>2. ASSUME NEW t \in Slots, t # s
      PROVE  CallIn(handler'[t], dictionary') = CallIn(handler[t], dictionary)
  <2>1. CASE UNCHANGED dictionary
    BY <1>1, <1>2, <2>1
  <2>2. CASE t \notin Inside /\ handler[t] # None
    <3>1. handler[t].todo = {}
      BY <2>2 DEF Inside, IInv, TypeOK, Handlers, Fine
    <3> QED BY <1>1, <1>2, <3>1 DEF CallIn, ToldIn
  <2>3. CASE handler[t] = None
    BY <1>1, <1>2, <2>3 DEF CallIn
  <2> QED BY <1>2, <2>1, <2>2, <2>3
<1> QED BY <1>1, <1>2, CallsAre

\* Without a race: if a handler is inside, or gets inside, only that one may write; and
\* if it writes no other is there.
LEMMA OnlyWriter ==
  ASSUME IInv, IInv', ~raced, ~raced', NEW s \in Slots, NEW g, Becomes(s, g),
         handler[s] # None, g.request = handler[s].request,
         s \in Inside \/ g.pc \in {"keys", "erase"}
  PROVE  /\ Writing \subseteq {s} /\ Writing' \subseteq {s}
         /\ s \in Writing' <=> g.pc \in {"keys", "erase"} /\ g.request.method \in Writers
         /\ g.request.method \in Writers => \A t \in Inside : t = s
<1>1. /\ handler'[s] = g /\ g # None
      /\ \A t \in Slots \ {s} : handler'[t] = handler[t]
  BY RESTAssumption DEF IInv, TypeOK, Becomes
<1>2. \A t \in Slots \ {s} : t \in Inside' <=> t \in Inside
  BY <1>1 DEF Inside
<1>3. s \in Inside' <=> g.pc \in {"keys", "erase"}
  BY <1>1 DEF Inside
<1>4. \A t \in Inside \ {s} :
        {g.request.method, handler[t].request.method} \cap Writers = {}
  <2>1. CASE s \in Inside
    BY <2>1 DEF IInv, WriterAlone
  <2>2. CASE s \in Inside'
    <3>1. \A t \in Inside' \ {s} :
            {handler'[s].request.method, handler'[t].request.method} \cap Writers = {}
      BY <2>2 DEF IInv, WriterAlone
    <3> QED BY <1>1, <1>2, <3>1 DEF Inside
  <2> QED BY <1>3, <2>1, <2>2
<1> QED BY <1>1, <1>2, <1>3, <1>4 DEF Writing, Inside

-----------------------------------------------------------------------------
(* The refinement: each step.                                              *)

LEMMA TakesEffect ==
  ASSUME IInv, NEW s \in Slots, handler[s] # None, handler[s].pc = "sent",
         NEW r, r = handler[s].request,
         Calls' = [Calls EXCEPT ![s] = [request |-> r, told |-> Dictionary!Outcome(r, FinalDictionary)]],
         FinalDictionary' = Dictionary!After(r, FinalDictionary),
         UNCHANGED <<waits, raced>>
  PROVE  Dictionary!TakeEffect(s)
<1>1. r \in Requests
  BY DEF IInv, TypeOK, Handlers
<1>2. Calls[s] = [request |-> r, told |-> None]
  BY CallsAre DEF CallIn, ToldIn
<1>3. Calls[s] # None /\ Calls[s].request = r /\ Calls[s].told = None
  BY <1>1, <1>2, RESTAssumption
<1> DEFINE o == Dictionary!Outcome(r, FinalDictionary)
<1> HIDE DEF o
<1>4. [Calls[s] EXCEPT !.told = o] = [request |-> r, told |-> o]
  BY <1>2
<1>5. Calls' = [Calls EXCEPT ![s].told = o]
  BY <1>4 DEF o
<1> QED BY <1>3, <1>5 DEF Dictionary!TakeEffect, o

\* A request that is refused, or a HEAD, takes effect when it is answered.
LEMMA AtOnceRefines ==
  ASSUME IInv, NEW s \in Slots, AnswerAtOnce(s)
  PROVE  Dictionary!TakeEffect(s)
<1> DEFINE h == handler[s]
           r == h.request
<1>1. /\ h \in Handlers /\ h # None /\ h.pc = "sent" /\ h.todo = {} /\ h.answer = Empty
      /\ r \in Requests
  BY DEF AnswerAtOnce, IInv, TypeOK, Fine, Handlers
<1>2. PICK g : /\ Becomes(s, g)
               /\ g.request = r /\ g.pc = "answered" /\ g.todo = {} /\ g.answer = h.answer
               /\ UNCHANGED <<dictionary, raced>>
  BY AtOnceBecomes
<1>3. handler'[s] = g /\ handler' = [handler EXCEPT ![s] = g] /\ g \in Handlers /\ g # None
  BY <1>2, RESTAssumption DEF Becomes, IInv, TypeOK
<1>4. Calls' = [Calls EXCEPT ![s] = CallIn(g, dictionary)]
  BY <1>2, <1>3, CallsChange
<1>5. \/ g.status = "OK" /\ (r.method = "HEAD" \/ ("bad" \in DOMAIN r /\ r.bad = "null"))
      \/ g.status # "OK" /\ "bad" \in DOMAIN r /\ r.bad # "null"
  <2> DEFINE With(status) ==
        /\ handler' = [handler EXCEPT ![s] = Answered(h, status)]
        /\ \/ status = "OK" /\ (r.method = "HEAD" \/ ("bad" \in DOMAIN r /\ r.bad = "null"))
           \/ status # "OK" /\ "bad" \in DOMAIN r /\ r.bad # "null"
  <2>a. With("OK") \/ With("BadRequest") \/ With("InternalError")
    BY DEF AnswerAtOnce
  <2> HIDE DEF With
  <2>b. PICK status : With(status)
    BY <2>a
  <2>1. /\ handler' = [handler EXCEPT ![s] = Answered(h, status)]
        /\ \/ status = "OK" /\ (r.method = "HEAD" \/ ("bad" \in DOMAIN r /\ r.bad = "null"))
           \/ status # "OK" /\ "bad" \in DOMAIN r /\ r.bad # "null"
    BY <2>b DEF With
  <2>2. g = [h EXCEPT !.pc = "answered", !.status = status]
    BY <1>3, <2>1 DEF Answered, IInv, TypeOK
  <2>3. g.status = status
    BY <1>1, <2>2 DEF Handlers
  <2> QED BY <2>1, <2>3
<1>6. /\ r.method # "POST" \/ "body" \notin DOMAIN r
      /\ r.method = "HEAD" => "bad" \notin DOMAIN r /\ "body" \notin DOMAIN r
      /\ "bad" \in DOMAIN r => "body" \notin DOMAIN r
  BY <1>1, <1>5, RequestKinds
<1>7. Dictionary!Puts(r) = {} /\ Dictionary!Deletes(r) = {}
  BY <1>5, <1>6 DEF Dictionary!Puts, Dictionary!Deletes
<1>8. ToldIn(g, dictionary) = Dictionary!Outcome(r, FinalDictionary)
  <2>1. ToldIn(g, dictionary) = ClientResult(g.status, [k \in Keys |-> None])
    BY <1>1, <1>2 DEF ToldIn, Empty
  <2>2. CASE r.method = "HEAD"
    <3>1. \A k \in Keys : Dictionary!AnswerTo(r, k, FinalDictionary) = None
      BY <1>7, <2>2 DEF Dictionary!AnswerTo
    <3> QED BY <1>5, <1>6, <2>1, <2>2, <3>1 DEF Dictionary!Outcome, ClientResult
  <2>3. CASE "bad" \in DOMAIN r
    BY <1>5, <1>6, <2>1, <2>3 DEF Dictionary!Outcome, ClientResult
  <2> QED BY <1>5, <2>2, <2>3
<1>9. FinalDictionary' = FinalDictionary
  <2>1. Inside' = Inside /\ s \notin Inside
    BY <1>1, <1>2, <1>3 DEF Inside, IInv, TypeOK
  <2> QED BY <1>2, <1>3, <2>1, FinalSame DEF IInv, TypeOK, Inside
<1>10. FinalDictionary = Dictionary!After(r, FinalDictionary)
  <2>1. Dictionary!After(r, FinalDictionary) = [k \in Keys |-> FinalDictionary[k]]
    BY <1>7 DEF Dictionary!After
  <2> QED BY <2>1, FinalType
<1>11. Calls' = [Calls EXCEPT ![s] = [request |-> r, told |-> Dictionary!Outcome(r, FinalDictionary)]]
  BY <1>2, <1>3, <1>4, <1>8 DEF CallIn
<1> HIDE DEF h, r
<1> QED
  BY <1>1, <1>2, <1>9, <1>10, <1>11, TakesEffect DEF Becomes, h, r

\* GET, POST, PUT and DEL take effect when their handlers begin.
LEMMA BeginRefines ==
  ASSUME IInv, IInv', ~raced, ~raced', NEW s \in Slots, BeginHandler(s)
  PROVE  Dictionary!TakeEffect(s)
<1> DEFINE h == handler[s]
           r == h.request
           d == dictionary
<1>1. /\ h \in Handlers /\ h # None /\ h.pc = "sent" /\ r \in Requests
      /\ "bad" \notin DOMAIN r /\ r.method # "HEAD"
      /\ UNCHANGED <<dictionary, waits, raced>>
  BY DEF BeginHandler, IInv, TypeOK, Handlers
<1>2. PICK g : /\ Becomes(s, g)
               /\ g.request = r /\ g.pc = "keys"
               /\ g.todo = KeysOf(r) /\ g.erase = {} /\ g.answer = Empty
  BY BeginBecomes
<1>3. /\ handler'[s] = g /\ handler' = [handler EXCEPT ![s] = g]
      /\ g \in Handlers /\ g # None /\ g.status = "OK"
  BY <1>2, RESTAssumption DEF Becomes, IInv, TypeOK, Fine
<1>4. /\ Writing \subseteq {s} /\ Writing' \subseteq {s}
      /\ s \in Writing' <=> r.method \in Writers
  BY <1>1, <1>2, OnlyWriter
<1>5. FinalDictionary = d
  BY <1>1, <1>4, FinalIs DEF Writing, Inside
<1>6. FinalDictionary' = IF r.method \in Writers THEN Left(g, d) ELSE d
  BY <1>1, <1>3, <1>4, FinalIsNext
<1>7. d = [k \in Keys |-> d[k]]
  BY DEF IInv, TypeOK
<1>8. FinalDictionary' = Dictionary!After(r, d)
  <2>1. CASE r.method = "PUT"
    <3>1. "body" \in DOMAIN r /\ KeysOf(r) = DOMAIN r.body
      BY <1>1, <2>1, RequestKinds DEF KeysOf
    <3>2. Left(g, d) = [k \in Keys |-> IF k \notin DOMAIN r.body THEN d[k]
                                      ELSE IF r.body[k] = NotString THEN d[k] ELSE r.body[k]]
      BY <1>2, <2>1, <3>1 DEF Left
    <3>3. Dictionary!Puts(r) = {k \in DOMAIN r.body : r.body[k] # NotString} /\ Dictionary!Deletes(r) = {}
      BY <2>1, <3>1 DEF Dictionary!Puts, Dictionary!Deletes
    <3> QED BY <1>6, <2>1, <3>2, <3>3 DEF Dictionary!After, Writers
  <2>2. CASE r.method = "DEL"
    <3>1. "body" \in DOMAIN r /\ KeysOf(r) = r.body
      BY <1>1, <2>2, RequestKinds DEF KeysOf
    <3>2. Left(g, d) = [k \in Keys |-> IF k \notin r.body THEN d[k] ELSE None]
      BY <1>2, <2>2, <3>1 DEF Left
    <3>3. Dictionary!Puts(r) = {} /\ Dictionary!Deletes(r) = r.body
      BY <2>2, <3>1 DEF Dictionary!Puts, Dictionary!Deletes
    <3> QED BY <1>6, <2>2, <3>2, <3>3 DEF Dictionary!After, Writers
  <2>3. CASE r.method \notin Writers
    <3>1. Dictionary!Puts(r) = {} /\ Dictionary!Deletes(r) = {}
      BY <2>3 DEF Dictionary!Puts, Dictionary!Deletes, Writers
    <3>2. Dictionary!After(r, d) = [k \in Keys |-> d[k]]
      BY <3>1 DEF Dictionary!After
    <3> QED BY <1>6, <1>7, <2>3, <3>2
  <2> QED BY <2>1, <2>2, <2>3 DEF Writers
<1>9. ToldIn(g, d) = Dictionary!Outcome(r, d)
  <2>1. ASSUME NEW k \in Keys
        PROVE  (IF k \in KeysOf(r) THEN AnswerFor(r, k, d) ELSE None) = Dictionary!AnswerTo(r, k, d)
    <3>1. CASE r.method = "GET"
      BY <3>1 DEF KeysOf, AnswerFor, Dictionary!AnswerTo
    <3>2. CASE r.method = "POST"
      <4>1. Dictionary!Puts(r) = {} /\ Dictionary!Deletes(r) = {}
        BY <3>2 DEF Dictionary!Puts, Dictionary!Deletes
      <4> QED BY <3>2, <4>1 DEF KeysOf, AnswerFor, Dictionary!AnswerTo
    <3>3. CASE r.method = "PUT"
      <4>1. "body" \in DOMAIN r
        BY <1>1, <3>3, RequestKinds
      <4>2. Dictionary!Puts(r) = {j \in DOMAIN r.body : r.body[j] # NotString} /\ Dictionary!Deletes(r) = {}
        BY <3>3, <4>1 DEF Dictionary!Puts, Dictionary!Deletes
      <4> QED BY <3>3, <4>2 DEF KeysOf, AnswerFor, Dictionary!AnswerTo
    <3>4. CASE r.method = "DEL"
      <4>1. "body" \in DOMAIN r
        BY <1>1, <3>4, RequestKinds
      <4>2. Dictionary!Puts(r) = {} /\ Dictionary!Deletes(r) = r.body
        BY <3>4, <4>1 DEF Dictionary!Puts, Dictionary!Deletes
      <4> QED BY <3>4, <4>2 DEF KeysOf, AnswerFor, Dictionary!AnswerTo
    <3> QED BY <1>1, <3>1, <3>2, <3>3, <3>4, RequestKinds
  <2>2. ToldIn(g, d) = [kind |-> "json",
          answer |-> [k \in Keys |-> IF k \in KeysOf(r) THEN AnswerFor(r, k, d) ELSE None]]
    BY <1>2, <1>3 DEF ToldIn, ClientResult, Empty
  <2> QED BY <1>1, <2>1, <2>2 DEF Dictionary!Outcome
<1>10. Calls' = [Calls EXCEPT ![s] = [request |-> r, told |-> Dictionary!Outcome(r, d)]]
  <2>1. Calls' = [Calls EXCEPT ![s] = CallIn(g, d)]
    BY <1>1, <1>3, CallsChange
  <2> QED BY <1>2, <1>3, <1>9, <2>1 DEF CallIn
<1> HIDE DEF h, r, d
<1> QED
  BY <1>1, <1>5, <1>8, <1>10, TakesEffect DEF h, r

\* A turn of a loop, and the end of one, are no steps of the abstract dictionary.
LEMMA KeyStutters ==
  ASSUME IInv, IInv', ~raced, ~raced', NEW s \in Slots, NEW k \in Keys, HandleKey(s, k)
  PROVE  UNCHANGED <<FinalDictionary, Calls, waits, raced>>
<1> DEFINE h == handler[s]
           r == h.request
           d == dictionary
<1>1. /\ h \in Handlers /\ h # None /\ h.pc = "keys" /\ r \in Requests /\ s \in Inside
      /\ "bad" \notin DOMAIN r /\ r.method # "HEAD" /\ h.status = "OK"
      /\ k \in h.todo /\ k \in KeysOf(r)
      /\ UNCHANGED <<waits, raced>>
  <2>1. /\ h # None /\ h.pc = "keys" /\ k \in h.todo /\ s \in Inside /\ UNCHANGED <<waits, raced>>
    BY DEF HandleKey, Inside
  <2>2. h \in Handlers /\ r \in Requests /\ Fine(h)
    BY <2>1 DEF IInv, TypeOK, Handlers
  <2> QED BY <2>1, <2>2 DEF Fine
<1>0. PICK g : /\ Becomes(s, g)
               /\ g.request = handler[s].request /\ g.pc = "keys"
               /\ g.todo = handler[s].todo \ {k}
               /\ g.erase = IF g.request.method = "DEL" /\ dictionary[k] # None
                            THEN handler[s].erase \cup {k} ELSE handler[s].erase
               /\ g.answer = [handler[s].answer EXCEPT ![k] =
                                IF raced THEN None ELSE AnswerFor(g.request, k, dictionary)]
  BY KeyBecomes
<1>2. /\ Becomes(s, g)
      /\ g.request = r /\ g.pc = "keys" /\ g.todo = h.todo \ {k}
      /\ g.erase = IF r.method = "DEL" /\ d[k] # None THEN h.erase \cup {k} ELSE h.erase
      /\ g.answer = [h.answer EXCEPT ![k] = AnswerFor(r, k, d)]
  BY <1>0
<1>3. /\ handler'[s] = g /\ handler' = [handler EXCEPT ![s] = g]
      /\ g \in Handlers /\ g # None /\ g.status = "OK"
  BY <1>2, RESTAssumption DEF Becomes, IInv, TypeOK, Fine
<1>4. /\ Writing \subseteq {s} /\ Writing' \subseteq {s}
      /\ s \in Writing' <=> r.method \in Writers
      /\ r.method \in Writers => \A t \in Inside : t = s
  BY <1>1, <1>2, OnlyWriter
<1>5. s \in Writing <=> r.method \in Writers
  BY <1>1 DEF Writing
<1>6. dictionary' = IF r.method = "PUT" /\ r.body[k] # NotString
                    THEN [d EXCEPT ![k] = r.body[k]] ELSE d
  BY DEF HandleKey
<1>7. d \in [Keys -> Values \cup {None}]
  BY DEF IInv, TypeOK
<1>8. FinalDictionary' = FinalDictionary
  <2>1. FinalDictionary = IF r.method \in Writers THEN Left(h, d) ELSE d
    BY <1>4, <1>5, FinalIs
  <2>2. FinalDictionary' = IF r.method \in Writers THEN Left(g, dictionary') ELSE dictionary'
    BY <1>3, <1>4, FinalIsNext
  <2>3. CASE r.method = "PUT"
    <3>1. g.erase = h.erase /\ h.erase = {}
      BY <1>1, <1>2, <2>3 DEF IInv, Fine
    <3>2. ASSUME NEW j \in Keys
          PROVE  Left(g, dictionary')[j] = Left(h, d)[j]
      BY <1>1, <1>2, <1>6, <1>7, <2>3, <3>1 DEF Left
    <3> QED BY <2>1, <2>2, <2>3, <3>2 DEF Left, Writers
  <2>4. CASE r.method = "DEL"
    <3>1. ASSUME NEW j \in Keys
          PROVE  Left(g, dictionary')[j] = Left(h, d)[j]
      BY <1>1, <1>2, <1>6, <1>7, <2>4 DEF Left
    <3> QED BY <2>1, <2>2, <2>4, <3>1 DEF Left, Writers
  <2>5. CASE r.method \notin Writers
    BY <1>6, <2>1, <2>2, <2>5 DEF Writers
  <2> QED BY <2>3, <2>4, <2>5 DEF Writers
<1>9. ToldIn(g, dictionary') = ToldIn(h, d)
  <2>1. h.answer \in Answers
    BY <1>1 DEF Handlers
  <2>2. ASSUME NEW j \in Keys, j # k
        PROVE  AnswerFor(r, j, dictionary') = AnswerFor(r, j, d)
    <3>1. dictionary'[j] = d[j]
      BY <1>6, <1>7, <2>2
    <3> QED BY <3>1 DEF AnswerFor
  <2>3. ASSUME NEW j \in Keys
        PROVE  (IF j \in g.todo THEN AnswerFor(r, j, dictionary') ELSE g.answer[j])
                 = IF j \in h.todo THEN AnswerFor(r, j, d) ELSE h.answer[j]
    BY <1>1, <1>2, <2>1, <2>2 DEF Answers
  <2> QED BY <1>1, <1>2, <1>3, <2>3 DEF ToldIn
<1>10. Calls' = Calls
  <2>1. UNCHANGED dictionary \/ \A t \in Inside : t = s
    BY <1>4, <1>6 DEF Writers
  <2>2. Calls' = [Calls EXCEPT ![s] = CallIn(g, dictionary')]
    BY <1>3, <2>1, CallsChange
  <2>3. CallIn(g, dictionary') = CallIn(h, d)
    BY <1>1, <1>2, <1>3, <1>9 DEF CallIn
  <2> QED BY <2>2, <2>3, CallsAre
<1> QED BY <1>1, <1>8, <1>10

LEMMA EraseStutters ==
  ASSUME IInv, IInv', ~raced, ~raced', NEW s \in Slots, NEW k \in Keys, EraseKey(s, k)
  PROVE  UNCHANGED <<FinalDictionary, Calls, waits, raced>>
<1> DEFINE h == handler[s]
           r == h.request
           d == dictionary
<1>1. /\ h \in Handlers /\ h # None /\ h.pc = "erase" /\ h.todo = {} /\ s \in Inside
      /\ k \in h.erase /\ r.method = "DEL" /\ h.status = "OK"
      /\ UNCHANGED <<waits, raced>> /\ dictionary' = [d EXCEPT ![k] = None]
  BY DEF EraseKey, IInv, TypeOK, Fine, Inside
<1>2. PICK g : /\ Becomes(s, g)
               /\ g.request = r /\ g.pc = "erase" /\ g.todo = {}
               /\ g.erase = h.erase \ {k} /\ g.answer = h.answer
  BY EraseBecomes
<1>3. /\ handler'[s] = g /\ handler' = [handler EXCEPT ![s] = g]
      /\ g \in Handlers /\ g # None /\ g.status = "OK"
  BY <1>2, RESTAssumption DEF Becomes, IInv, TypeOK, Fine
<1>4. /\ Writing \subseteq {s} /\ Writing' \subseteq {s}
      /\ s \in Writing' /\ s \in Writing /\ \A t \in Inside : t = s
  BY <1>1, <1>2, OnlyWriter DEF Writers, Writing
<1>5. FinalDictionary' = FinalDictionary
  <2>1. FinalDictionary = Left(h, d) /\ FinalDictionary' = Left(g, dictionary')
    BY <1>3, <1>4, FinalIs, FinalIsNext
  <2>2. d \in [Keys -> Values \cup {None}]
    BY DEF IInv, TypeOK
  <2>3. ASSUME NEW j \in Keys
        PROVE  Left(g, dictionary')[j] = Left(h, d)[j]
    BY <1>1, <1>2, <2>2 DEF Left
  <2> QED BY <2>1, <2>3 DEF Left
<1>6. Calls' = Calls
  <2>1. Calls' = [Calls EXCEPT ![s] = CallIn(g, dictionary')]
    BY <1>3, <1>4, CallsChange
  <2>2. CallIn(g, dictionary') = CallIn(h, d)
    BY <1>1, <1>2, <1>3 DEF CallIn, ToldIn
  <2> QED BY <2>1, <2>2, CallsAre
<1> QED BY <1>1, <1>5, <1>6

LEMMA EndStutters ==
  ASSUME IInv, IInv', ~raced, ~raced', NEW s \in Slots, EndLoop(s)
  PROVE  UNCHANGED <<FinalDictionary, Calls, waits, raced>>
<1> DEFINE h == handler[s]
           r == h.request
           d == dictionary
<1>1. PICK g : /\ Becomes(s, g)
               /\ g.request = r /\ g.todo = {}
               /\ \/ h.erase = {} /\ g.pc = "answered" /\ g.erase = {}
                  \/ g.pc = "erase" /\ g.erase = h.erase
               /\ g.answer = h.answer /\ g.status = "OK"
               /\ h.pc \in {"keys", "erase"} /\ h.todo = {}
               /\ UNCHANGED <<dictionary, raced>>
  BY EndBecomes
<1>2. h # None /\ h.status = "OK" /\ s \in Inside /\ UNCHANGED waits
  BY <1>1 DEF EndLoop, IInv, Fine, Inside
<1>3. handler'[s] = g /\ handler' = [handler EXCEPT ![s] = g] /\ g # None
  BY <1>1, RESTAssumption DEF Becomes, IInv, TypeOK
<1>4. /\ Writing \subseteq {s} /\ Writing' \subseteq {s}
      /\ s \in Writing' <=> g.pc \in {"keys", "erase"} /\ r.method \in Writers
      /\ s \in Writing <=> r.method \in Writers
  BY <1>1, <1>2, OnlyWriter DEF Writing
<1>5. FinalDictionary' = FinalDictionary
  <2>1. FinalDictionary = IF r.method \in Writers THEN Left(h, d) ELSE d
    BY <1>4, FinalIs
  <2>2. FinalDictionary' = IF s \in Writing' THEN Left(g, d) ELSE d
    BY <1>1, <1>3, <1>4, FinalIsNext
  <2>3. d = [k \in Keys |-> d[k]]
    BY DEF IInv, TypeOK
  <2>4. h.erase = {} => Left(h, d) = d
    BY <1>1, <2>3 DEF Left
  <2>5. g.erase = h.erase => Left(g, d) = Left(h, d)
    BY <1>1 DEF Left
  <2> QED BY <1>1, <1>4, <2>1, <2>2, <2>4, <2>5
<1>6. Calls' = Calls
  <2>1. Calls' = [Calls EXCEPT ![s] = CallIn(g, d)]
    BY <1>1, <1>3, CallsChange
  <2>2. CallIn(g, d) = CallIn(h, d)
    BY <1>1, <1>2, <1>3 DEF CallIn, ToldIn
  <2> QED BY <2>1, <2>2, CallsAre
<1> QED BY <1>1, <1>2, <1>5, <1>6

\* A request is made, and a slot that nobody has begun to handle, or that is answered,
\* becomes free.
LEMMA SlotChange ==
  ASSUME IInv, NEW s \in Slots, NEW g, handler' = [handler EXCEPT ![s] = g],
         s \notin Inside, g = None \/ g.pc = "sent", UNCHANGED dictionary
  PROVE  /\ UNCHANGED FinalDictionary
         /\ Calls' = [Calls EXCEPT ![s] = IF g = None THEN None
                                          ELSE [request |-> g.request, told |-> None]]
<1>1. handler'[s] = g /\ \A t \in Slots \ {s} : handler'[t] = handler[t]
  BY DEF IInv, TypeOK
<1>2. Inside' = Inside
  BY <1>1 DEF Inside
<1>3. Inside \subseteq Slots \ {s}
  BY DEF Inside
<1>4. UNCHANGED FinalDictionary
  BY <1>1, <1>2, <1>3, FinalSame
<1>5. CallIn(g, dictionary) = IF g = None THEN None ELSE [request |-> g.request, told |-> None]
  BY DEF CallIn, ToldIn
<1> QED BY <1>4, <1>5, CallsChange

LEMMA MakeRefines ==
  ASSUME IInv, NEW c \in Clients, NEW r \in Requests, MakeRequest(c, r)
  PROVE  \E s \in Slots : Dictionary!Make(c, s, r)
<1>1. PICK s \in Slots :
        /\ handler[s] = None
        /\ handler' = [handler EXCEPT ![s] =
             [request |-> r, pc |-> "sent", todo |-> {}, erase |-> {},
              answer |-> Empty, status |-> "OK"]]
        /\ waits' = [waits EXCEPT ![c] = s]
  BY DEF MakeRequest
<1> DEFINE g == [request |-> r, pc |-> "sent", todo |-> {}, erase |-> {},
                 answer |-> Empty, status |-> "OK"]
<1>2. g \in Handlers /\ g.pc = "sent" /\ g.request = r
  BY DEF Handlers, Answers, Empty
<1>3. handler' = [handler EXCEPT ![s] = g] /\ g # None
  BY <1>1, <1>2, RESTAssumption
<1> HIDE DEF g
<1>4. s \notin Inside /\ UNCHANGED <<dictionary, raced>> /\ waits[c] = None
  BY <1>1 DEF MakeRequest, Inside
<1>5. /\ UNCHANGED FinalDictionary
      /\ Calls' = [Calls EXCEPT ![s] = [request |-> r, told |-> None]]
  BY <1>2, <1>3, <1>4, SlotChange
<1>6. Calls[s] = None
  BY <1>1, CallsAre DEF CallIn
<1> QED BY <1>1, <1>4, <1>5, <1>6 DEF Dictionary!Make

LEMMA FreeRefines ==
  ASSUME IInv, NEW s \in Slots, Dropped(s) \/ Reply(s)
  PROVE  Dictionary!Forget(s) \/ \E c \in Clients : Dictionary!Tell(c)
<1>1. /\ handler[s] # None /\ handler[s] \in Handlers /\ handler[s].pc \in {"sent", "answered"}
      /\ handler' = [handler EXCEPT ![s] = None] /\ UNCHANGED <<dictionary, raced>>
  BY DEF Dropped, Reply, IInv, TypeOK
<1>2. /\ UNCHANGED FinalDictionary
      /\ Calls' = [Calls EXCEPT ![s] = None]
  BY <1>1, SlotChange DEF Inside
<1>3. CASE \A c \in Clients : waits[c] # s
  <2>1. UNCHANGED waits
    BY <1>3 DEF Dropped, Reply, IInv, TypeOK
  <2> QED BY <1>1, <1>2, <1>3, <2>1 DEF Dictionary!Forget
<1>4. ASSUME NEW c \in Clients, waits[c] = s
      PROVE  Dictionary!Tell(c)
  <2>1. Reply(s) /\ handler[s].pc = "answered"
    BY <1>4 DEF Dropped, Reply
  <2>2. s # None
    BY RESTAssumption
  <2>3. waits' = [waits EXCEPT ![c] = None]
    <3>1. waits' = [d \in Clients |-> IF waits[d] = s THEN None ELSE waits[d]]
      BY <2>1 DEF Reply
    <3>2. \A d \in Clients : waits[d] = s <=> d = c
      BY <1>4, <2>2 DEF IInv, TypeOK
    <3> QED BY <3>1, <3>2 DEF IInv, TypeOK
  <2>4. Calls[s] = [request |-> handler[s].request, told |-> ToldIn(handler[s], dictionary)]
    BY <1>1, CallsAre DEF CallIn
  <2>5. handler[s].request \in Requests /\ handler[s].answer \in Answers /\ handler[s].todo = {}
    BY <1>1, <2>1 DEF Handlers, IInv, Fine
  <2>6. ToldIn(handler[s], dictionary) \in Results
    <3>1. [k \in Keys |-> handler[s].answer[k]] \in Answers
      BY <2>5 DEF Answers
    <3>2. ToldIn(handler[s], dictionary) =
            ClientResult(handler[s].status, [k \in Keys |-> handler[s].answer[k]])
      BY <2>1, <2>5 DEF ToldIn
    <3> QED BY <3>1, <3>2 DEF ClientResult, Results
  <2>7. Calls[s] # None /\ Calls[s].told # None
    BY <2>4, <2>5, <2>6, RESTAssumption
  <2> QED BY <1>1, <1>2, <1>4, <2>2, <2>3, <2>7 DEF Dictionary!Tell
<1> QED BY <1>3, <1>4

LEMMA DictionaryStep ==
  ASSUME IInv, IInv', [Next]_vars
  PROVE  [Dictionary!Next]_(Dictionary!vars)
<1> DEFINE Stutter == UNCHANGED <<FinalDictionary, Calls, waits, raced>>
<1>1. CASE raced'
  BY <1>1 DEF Dictionary!Next
<1>2. CASE UNCHANGED vars
  <2>1. Inside' = Inside
    BY <1>2 DEF vars, Inside
  <2>2. UNCHANGED FinalDictionary
    BY <1>2, <2>1, FinalSame DEF vars
  <2>3. UNCHANGED Calls
    BY <1>2, CallsAre DEF vars
  <2> QED BY <1>2, <2>2, <2>3 DEF vars, Dictionary!vars
<1>3. ASSUME NEW c \in Clients, NEW r \in Requests, MakeRequest(c, r)
      PROVE  Dictionary!Next
  BY <1>3, MakeRefines DEF Dictionary!Next
<1>4. ASSUME NEW c \in Clients, ConnectionLost(c)
      PROVE  Dictionary!Next
  <2>1. Inside' = Inside /\ UNCHANGED <<handler, dictionary, raced>>
    BY <1>4 DEF ConnectionLost, Inside
  <2>2. UNCHANGED FinalDictionary
    BY <2>1, FinalSame
  <2>3. UNCHANGED Calls
    BY <2>1, CallsAre
  <2> QED BY <1>4, <2>1, <2>2, <2>3 DEF ConnectionLost, Dictionary!Next, Dictionary!GiveUp
<1>5. ASSUME NEW s \in Slots, Dropped(s) \/ Reply(s)
      PROVE  Dictionary!Next
  BY <1>5, FreeRefines DEF Dictionary!Next
<1>6. ASSUME NEW s \in Slots, AnswerAtOnce(s)
      PROVE  Dictionary!Next
  BY <1>6, AtOnceRefines DEF Dictionary!Next
<1>7. ASSUME ~raced', NEW s \in Slots, BeginHandler(s)
      PROVE  Dictionary!Next
  <2>1. ~raced
    BY <1>7 DEF BeginHandler
  <2> QED BY <1>7, <2>1, BeginRefines DEF Dictionary!Next
<1>8. ASSUME ~raced', NEW s \in Slots, NEW k \in Keys, HandleKey(s, k)
      PROVE  Stutter
  <2>1. ~raced
    BY <1>8 DEF HandleKey
  <2> QED BY <1>8, <2>1, KeyStutters
<1>9. ASSUME ~raced', NEW s \in Slots, NEW k \in Keys, EraseKey(s, k)
      PROVE  Stutter
  <2>1. ~raced
    BY <1>9 DEF EraseKey
  <2> QED BY <1>9, <2>1, EraseStutters
<1>10. ASSUME ~raced', NEW s \in Slots, EndLoop(s)
       PROVE  Stutter
  <2>1. ~raced
    BY <1>10 DEF EndLoop
  <2> QED BY <1>10, <2>1, EndStutters
<1>11. CASE Crash
  BY <1>1, <1>11 DEF Crash
<1>12. Stutter => UNCHANGED Dictionary!vars
  BY DEF Dictionary!vars
<1> HIDE DEF Stutter
<1> QED
  BY <1>1, <1>2, <1>3, <1>4, <1>5, <1>6, <1>7, <1>8, <1>9, <1>10, <1>11, <1>12
  DEF Next, ClientStep, ServerStep

LEMMA DictionaryInit ==
  ASSUME Init
  PROVE  Dictionary!Init
<1>1. Inside = {}
  BY DEF Init, Inside
<1>2. FinalDictionary = Empty
  BY <1>1 DEF FinalDictionary, Init
<1>3. Calls = [s \in Slots |-> None]
  BY CallsAre DEF Init, CallIn
<1> QED BY <1>2, <1>3 DEF Init, Dictionary!Init, Empty

-----------------------------------------------------------------------------
(* The theorems.                                                           *)

\* Types; a handler that is not in its loops has no keys left; no two clients wait for
\* one request (RESTServer.hpp:19-45, RESTClient.hpp:93-115).
THEOREM TypeCorrect == Spec => []TypeOK
<1>1. IInv => TypeOK
  BY DEF IInv
<1> QED BY Invariance, <1>1, PTL

\* Until handlers race, requests take effect one at a time, each at one instant between
\* its call and its answer, at most once, and with the answer of that instant
\* (RESTServer.hpp:19-45,93-181, RESTClient.hpp:60-115).
THEOREM Refinement == Spec => ImplementsDictionary
<1>1. IInv /\ IInv' /\ [Next]_vars => [Dictionary!Next]_(Dictionary!vars)
  BY DictionaryStep
<1> QED
  BY DictionaryInit, Invariance, <1>1, PTL DEF Spec, ImplementsDictionary, Dictionary!Spec
=============================================================================
