-------------------------- MODULE ConnectionProofs --------------------------
(***************************************************************************)
(* Theorems about a connection for every set of messages, of any sizes,    *)
(* and every number of threads that run the io_context, and about the      *)
(* server that makes connections, for any numbers of clients and threads.  *)
(***************************************************************************)
EXTENDS Connection, TCPServer, TLAPS, FiniteSetTheorems, FunctionTheorems, SequenceTheorems

-----------------------------------------------------------------------------
(* The inductive invariant: the sender.                                    *)

\* How many messages SendMessageStart has taken off the queue.
Taken == Len(pushed) - Len(outQue)

\* Every message is queued at most once, and taken in the order of queueing.
Fifo ==
  /\ \A i, j \in DOMAIN pushed : pushed[i] = pushed[j] => i = j
  /\ \A m \in Messages :
       call[m] \in {"pushed", "posted"} <=> \E i \in DOMAIN pushed : pushed[i] = m
  /\ Len(outQue) <= Len(pushed)
  /\ \A i \in DOMAIN outQue : outQue[i] = pushed[Taken + i]

\* A write belongs to a message that was taken; what it has put on the wire, and how
\* it can fail.
Writes ==
  /\ \A m \in Messages :
       write[m] # "none" <=> \E i \in DOMAIN pushed : i <= Taken /\ pushed[i] = m
  /\ \A m \in Messages :
       /\ write[m] \in {"none", "popped"} => sent[m] = 0
       /\ write[m] = "writing" => sent[m] < Len(Frame(m))
       /\ write[m] \in {"failed", "lost"} =>
            sent[m] < Len(Frame(m)) /\ (sent[m] > 0 => socket = "closed")

Sender == TypeOK /\ Fifo /\ Writes

-----------------------------------------------------------------------------
(* The inductive invariant: what holds while no writes have overlapped.    *)

\* Only the message taken last can be in flight.
OneInFlight == \A i \in DOMAIN pushed : i < Taken => pushed[i] \notin InFlight

\* The pieces of a message are on the wire, one behind the other, as far as they were
\* sent; and the messages stand there in the order of queueing.
Whole ==
  /\ \A m \in Messages : sent[m] > 0 => \E p \in DOMAIN wire : wire[p] = <<m, "header">>
  /\ \A p \in DOMAIN wire, m \in Messages :
       /\ wire[p] = <<m, "header">> => sent[m] > 0
       /\ wire[p] = <<m, "body">> => sent[m] = 2 /\ p > 1 /\ wire[p - 1] = <<m, "header">>
       /\ wire[p] = <<m, "header">> /\ p = Len(wire) => sent[m] = 1
       /\ wire[p] = <<m, "header">> /\ p < Len(wire) /\ size[m] # "empty"
            => wire[p + 1] = <<m, "body">>
  /\ \A m \in Messages : write[m] = "writing" /\ sent[m] = 1
       => wire # <<>> /\ wire[Len(wire)] = <<m, "header">>

Ordered ==
  \A p, q \in DOMAIN wire, i, j \in DOMAIN pushed :
    /\ p < q
    /\ wire[p] = <<pushed[i], "header">>
    /\ wire[q] = <<pushed[j], "header">>
    => i < j

\* The receiver has read the frames of the messages it has, and knows where in the
\* stream it is.
Receives ==
  /\ reading # "garbled"
  /\ socket \in {"unconnected", "connecting"} => reading = "none"
  /\ \A i \in DOMAIN Delivered :
       /\ 2 * i <= consumed
       /\ wire[2 * i - 1] = <<Delivered[i], "header">>
       /\ wire[2 * i] = <<Delivered[i], "body">>
  /\ reading \in {"none", "header"} => consumed = 2 * Len(Delivered)
  /\ reading = "none" => consumed = 0
  /\ reading = "body" =>
       /\ consumed = 2 * Len(Delivered) + 1
       /\ awaited \in Messages /\ size[awaited] # "empty"
       /\ wire[consumed] = <<awaited, "header">>

Stream == OneInFlight /\ Whole /\ Ordered /\ Receives

IInv == Sender /\ (~overlapped => Stream)

-----------------------------------------------------------------------------
(* The sender.                                                             *)

\* A frame is a header, and a body unless the message is empty.
LEMMA FrameParts ==
  ASSUME NEW m
  PROVE  /\ Len(Frame(m)) = IF size[m] = "empty" THEN 1 ELSE 2
         /\ Frame(m)[1] = "header"
         /\ size[m] # "empty" => Frame(m)[2] = "body"
BY DEF Frame

\* The next piece of a frame that is not over.
LEMMA NextOfFrame ==
  ASSUME Sender, NEW m \in Messages, write[m] = "writing"
  PROVE  \/ sent[m] = 0 /\ Frame(m)[sent[m] + 1] = "header"
         \/ sent[m] = 1 /\ Frame(m)[sent[m] + 1] = "body" /\ size[m] # "empty"
<1>1. sent[m] \in 0..2 /\ sent[m] < Len(Frame(m))
  BY DEF Sender, TypeOK, Writes
<1> QED BY <1>1, FrameParts

LEMMA TypeStep ==
  ASSUME Sender, [Next]_vars
  PROVE  TypeOK'
<1> USE DEF sendVars, recvVars
<1>0. TypeOK
  BY DEF Sender
<1>1. CASE Connect \/ Connected \/ Disconnect
  BY <1>0, <1>1 DEF Connect, Connected, Disconnect, TypeOK, Frame
<1>2. ASSUME NEW m \in Messages, PostThrows(m) \/ Dispatch(m)
      PROVE  TypeOK'
  <2>1. starts' \in Nat
    BY <1>0, <1>2 DEF PostThrows, Dispatch, TypeOK
  <2>2. call' \in [Messages -> {"none", "threw", "pushed", "posted"}]
    BY <1>0, <1>2 DEF PostThrows, Dispatch, TypeOK
  <2>3. UNCHANGED <<size, outQue, write, sent, pushed, overlapped, socket, wire, recvVars>>
    BY <1>2 DEF PostThrows, Dispatch
  <2> QED BY <1>0, <2>1, <2>2, <2>3 DEF TypeOK, Frame
<1>3. ASSUME NEW m \in Messages, Push(m)
      PROVE  TypeOK'
  <2>1. outQue' \in Seq(Messages) /\ pushed' \in Seq(Messages)
    BY <1>0, <1>3, AppendProperties DEF Push, TypeOK
  <2> QED BY <1>0, <1>3, <2>1 DEF Push, TypeOK, Frame
<1>4. CASE StartIdle
  BY <1>0, <1>4 DEF StartIdle, TypeOK, Frame
<1>5. CASE StartPop
  <2>1. Head(outQue) \in Messages /\ outQue' \in Seq(Messages)
    BY <1>0, <1>5, HeadTailProperties DEF StartPop, TypeOK
  <2>2. starts' \in Nat /\ overlapped' \in BOOLEAN
    BY <1>0, <1>5 DEF StartPop, TypeOK
  <2>3. write' \in [Messages -> {"none", "popped", "writing", "complete", "failed", "over", "lost"}]
    BY <1>0, <1>5, <2>1 DEF StartPop, TypeOK
  <2>4. \A m \in Messages : write'[m] \in {"complete", "over"} => sent'[m] = Len(Frame(m))'
    BY <1>0, <1>5, <2>1 DEF StartPop, TypeOK, Frame
  <2> QED BY <1>0, <1>5, <2>1, <2>2, <2>3, <2>4 DEF StartPop, TypeOK
<1>6. ASSUME NEW m \in Messages, StartWrite(m) \/ WriteFails(m)
      PROVE  TypeOK'
  BY <1>0, <1>6 DEF StartWrite, WriteFails, TypeOK, Frame
<1>7. ASSUME NEW m \in Messages, WriteDone(m)
      PROVE  TypeOK'
  BY <1>0, <1>7 DEF WriteDone, TypeOK, Frame
<1>8. ASSUME NEW m \in Messages, WriteSome(m)
      PROVE  TypeOK'
  <2>1. sent[m] \in 0..1 /\ Frame(m)[sent[m] + 1] \in {"header", "body"}
    BY <1>8, NextOfFrame DEF WriteSome
  <2>2. wire' \in Seq(Messages \X {"header", "body"}) /\ Len(wire') = Len(wire) + 1
    BY <1>0, <1>8, <2>1, AppendProperties DEF WriteSome, TypeOK
  <2>3. sent' \in [Messages -> 0..2]
    BY <1>0, <1>8, <2>1 DEF WriteSome, TypeOK
  <2>4. /\ write' \in [Messages -> {"none", "popped", "writing", "complete", "failed", "over", "lost"}]
        /\ \A k \in Messages : write'[k] \in {"complete", "over"} => sent'[k] = Len(Frame(k))
    BY <1>0, <1>8 DEF WriteSome, TypeOK
  <2>5. \A k \in Messages : Len(Frame(k))' = Len(Frame(k))
    BY <1>8 DEF WriteSome, Frame
  <2>6. consumed' \in 0..Len(wire')
    BY <1>0, <1>8, <2>2, LenProperties DEF WriteSome, TypeOK
  <2> QED BY <1>0, <1>8, <2>2, <2>3, <2>4, <2>5, <2>6 DEF WriteSome, TypeOK
<1>9. CASE ReadHeader \/ ReadBody
  <2>1. consumed + 1 \in 1..Len(wire)
    BY <1>0, <1>9, LenProperties DEF ReadHeader, ReadBody, TypeOK
  <2>2. NextPiece \in Messages \X {"header", "body"}
    BY <1>0, <2>1, ElementOfSeq DEF NextPiece, TypeOK
  <2>3. awaited' \in Messages \cup {"none"} /\ consumed' \in 0..Len(wire)
    BY <1>0, <1>9, <2>1, <2>2, LenProperties DEF ReadHeader, ReadBody, TypeOK
  <2>4. reading' \in {"none", "header", "body", "stopped", "crashed", "garbled"}
    BY <1>0, <1>9 DEF ReadHeader, ReadBody, AfterHeader, TypeOK
  <2>5. inQue' \in Seq(Messages)
    <3>1. CASE inQue' = inQue
      BY <1>0, <3>1 DEF TypeOK
    <3>2. CASE ReadBody /\ NextPiece = <<awaited, "body">> /\ inQue' = Append(inQue, awaited)
      <4>1. awaited \in Messages
        BY <2>2, <3>2
      <4> QED BY <1>0, <3>2, <4>1, AppendProperties DEF TypeOK
    <3> QED BY <1>9, <3>1, <3>2 DEF ReadHeader, ReadBody
  <2>6. UNCHANGED <<size, sendVars, socket, wire, got>>
    BY <1>9 DEF ReadHeader, ReadBody
  <2> QED BY <1>0, <2>3, <2>4, <2>5, <2>6 DEF TypeOK, Frame
<1>10. CASE ReadFails
  BY <1>0, <1>10 DEF ReadFails, TypeOK, Frame
<1>11. CASE GetOneMessage
  <2>1. Head(inQue) \in Messages /\ inQue' \in Seq(Messages)
    BY <1>0, <1>11, HeadTailProperties DEF GetOneMessage, TypeOK
  <2>2. got' \in Seq(Messages)
    BY <1>0, <1>11, <2>1, AppendProperties DEF GetOneMessage, TypeOK
  <2> QED BY <1>0, <1>11, <2>1, <2>2 DEF GetOneMessage, TypeOK, Frame
<1>12. CASE UNCHANGED vars
  BY <1>0, <1>12 DEF vars, TypeOK, Frame
<1> QED
  BY <1>1, <1>2, <1>3, <1>4, <1>5, <1>6, <1>7, <1>8, <1>9, <1>10, <1>11, <1>12
  DEF Next, SendStep

\* A message is queued once: at the place after the others.
LEMMA FifoStep ==
  ASSUME Sender, [Next]_vars
  PROVE  Fifo'
<1>0. TypeOK /\ Fifo /\ TypeOK'
  BY TypeStep DEF Sender
<1>1. CASE UNCHANGED <<call, outQue, pushed>>
  BY <1>0, <1>1 DEF Fifo, Taken
<1>2. ASSUME NEW m \in Messages, PostThrows(m) \/ Dispatch(m)
      PROVE  Fifo'
  <2>1. /\ UNCHANGED <<outQue, pushed>>
        /\ \A k \in Messages : call'[k] \in {"pushed", "posted"} <=> call[k] \in {"pushed", "posted"}
    BY <1>0, <1>2 DEF PostThrows, Dispatch, TypeOK
  <2> QED BY <1>0, <2>1 DEF Fifo, Taken
<1>3. ASSUME NEW m \in Messages, Push(m)
      PROVE  Fifo'
  <2>1. /\ pushed \in Seq(Messages) /\ pushed' = Append(pushed, m)
        /\ outQue \in Seq(Messages) /\ outQue' = Append(outQue, m)
    BY <1>0, <1>3 DEF Push, TypeOK
  <2>2. /\ Len(pushed') = Len(pushed) + 1 /\ DOMAIN pushed' = 1..Len(pushed) + 1
        /\ \A i \in 1..Len(pushed) : pushed'[i] = pushed[i]
        /\ pushed'[Len(pushed) + 1] = m
        /\ Len(pushed) \in Nat /\ DOMAIN pushed = 1..Len(pushed)
    BY <2>1
  <2>3. /\ Len(outQue') = Len(outQue) + 1 /\ DOMAIN outQue' = 1..Len(outQue) + 1
        /\ \A i \in 1..Len(outQue) : outQue'[i] = outQue[i]
        /\ outQue'[Len(outQue) + 1] = m
        /\ Len(outQue) \in Nat /\ DOMAIN outQue = 1..Len(outQue)
    BY <2>1
  <2>4. /\ call[m] = "none"
        /\ \A k \in Messages : call'[k] = IF k = m THEN "pushed" ELSE call[k]
    BY <1>0, <1>3 DEF Push, TypeOK
  <2>5. ~ \E i \in DOMAIN pushed : pushed[i] = m
    BY <1>0, <2>4 DEF Fifo
  <2>6. \A i, j \in DOMAIN pushed' : pushed'[i] = pushed'[j] => i = j
    BY <1>0, <2>2, <2>5 DEF Fifo
  <2>7. \A k \in Messages :
          call'[k] \in {"pushed", "posted"} <=> \E i \in DOMAIN pushed' : pushed'[i] = k
    BY <1>0, <2>2, <2>4 DEF Fifo
  <2>8. Taken' = Taken /\ Taken \in Int /\ Len(outQue') <= Len(pushed') /\ Taken >= 0
    BY <1>0, <2>2, <2>3 DEF Taken, Fifo
  <2>9. ASSUME NEW i \in DOMAIN outQue'
        PROVE  outQue'[i] = pushed'[Taken' + i]
    <3>1. CASE i = Len(outQue) + 1
      BY <2>2, <2>3, <3>1, <2>8 DEF Taken
    <3>2. CASE i \in 1..Len(outQue)
      <4>1. outQue[i] = pushed[Taken + i] /\ Taken + i \in 1..Len(pushed)
        BY <1>0, <3>2, <2>2, <2>3 DEF Taken, Fifo
      <4> QED BY <2>2, <2>3, <2>8, <3>2, <4>1
    <3> QED BY <2>3, <3>1, <3>2
  <2> QED BY <2>6, <2>7, <2>8, <2>9 DEF Fifo
<1>4. CASE StartPop
  <2>1. /\ outQue \in Seq(Messages) /\ outQue # <<>> /\ outQue' = Tail(outQue)
        /\ UNCHANGED <<call, pushed>>
    BY <1>0, <1>4 DEF StartPop, TypeOK
  <2>2. /\ Len(outQue') = Len(outQue) - 1 /\ DOMAIN outQue' = 1..Len(outQue) - 1
        /\ \A i \in 1..Len(outQue) - 1 : outQue'[i] = outQue[i + 1]
        /\ Len(outQue) \in Nat \ {0} /\ DOMAIN outQue = 1..Len(outQue)
    BY <2>1
  <2>3. Len(pushed) \in Nat
    BY <1>0 DEF TypeOK
  <2>4. Taken' = Taken + 1
    BY <2>1, <2>2, <2>3 DEF Taken
  <2>5. \A i \in DOMAIN outQue' : outQue'[i] = pushed'[Taken' + i]
    BY <1>0, <2>1, <2>2, <2>3, <2>4 DEF Fifo, Taken
  <2> QED BY <1>0, <2>1, <2>2, <2>3, <2>5 DEF Fifo
<1> QED
  <2>1. \/ UNCHANGED <<call, outQue, pushed>>
        \/ \E m \in Messages : PostThrows(m) \/ Dispatch(m) \/ Push(m)
        \/ StartPop
    BY DEF Next, SendStep, vars, sendVars, recvVars, Connect, Connected, Disconnect, StartIdle,
           StartWrite, WriteSome, WriteFails, WriteDone, ReadHeader, ReadBody, ReadFails,
           GetOneMessage
  <2> QED BY <1>1, <1>2, <1>3, <1>4, <2>1

\* A write starts with nothing sent, and fails on an open connection only before its
\* first piece.
LEMMA WritesStep ==
  ASSUME Sender, [Next]_vars
  PROVE  Writes'
<1>0. TypeOK /\ Fifo /\ Writes /\ TypeOK'
  BY TypeStep DEF Sender
<1> DEFINE WasTaken(m) == \E i \in DOMAIN pushed : i <= Taken /\ pushed[i] = m
           Fails(m) == sent[m] < Len(Frame(m)) /\ (sent[m] > 0 => socket = "closed")
           Part(m) == /\ write[m] \in {"none", "popped"} => sent[m] = 0
                      /\ write[m] = "writing" => sent[m] < Len(Frame(m))
                      /\ write[m] \in {"failed", "lost"} => Fails(m)
<1>a. /\ \A m \in Messages : write[m] # "none" <=> WasTaken(m)
      /\ \A m \in Messages : Part(m)
  BY <1>0 DEF Writes
<1>b. SUFFICES /\ \A m \in Messages : write'[m] # "none" <=> WasTaken(m)'
               /\ \A m \in Messages : Part(m)'
  BY DEF Writes
<1>c. \A m \in Messages : Len(Frame(m))' = Len(Frame(m))
  BY DEF Frame, Next, vars, SendStep, sendVars, recvVars, Connect, Connected, Disconnect,
         PostThrows, Push, Dispatch, StartIdle, StartPop, StartWrite, WriteSome, WriteFails,
         WriteDone, ReadHeader, ReadBody, ReadFails, GetOneMessage
<1>1. ASSUME UNCHANGED <<outQue, pushed>>
      PROVE  \A m \in Messages : WasTaken(m)' <=> WasTaken(m)
  BY <1>1 DEF Taken
<1>2. ASSUME UNCHANGED <<write, sent>>, socket = "closed" => socket' = "closed"
      PROVE  \A m \in Messages : Part(m)'
  BY <1>a, <1>c, <1>2
<1>3. CASE UNCHANGED <<outQue, pushed, write, sent>> /\ (socket = "closed" => socket' = "closed")
  <2> HIDE DEF WasTaken, Part
  <2> QED BY <1>a, <1>1, <1>2, <1>3
<1>4. ASSUME NEW m \in Messages, Push(m)
      PROVE  /\ \A k \in Messages : write'[k] # "none" <=> WasTaken(k)'
             /\ \A k \in Messages : Part(k)'
  <2>1. /\ Len(pushed) \in Nat /\ DOMAIN pushed = 1..Len(pushed)
        /\ DOMAIN pushed' = 1..Len(pushed) + 1 /\ Len(pushed') = Len(pushed) + 1
        /\ \A i \in 1..Len(pushed) : pushed'[i] = pushed[i]
        /\ Len(outQue) \in Nat /\ Len(outQue') = Len(outQue) + 1
    BY <1>0, <1>4 DEF Push, TypeOK
  <2>2. Taken' = Taken /\ Taken <= Len(pushed) /\ Taken \in Int
    BY <2>1 DEF Taken
  <2>3. UNCHANGED <<write, sent, socket>>
    BY <1>4 DEF Push
  <2>4. ASSUME NEW k \in Messages
        PROVE  WasTaken(k)' <=> WasTaken(k)
    BY <2>1, <2>2
  <2> HIDE DEF WasTaken, Part
  <2> QED BY <1>a, <1>2, <2>3, <2>4
<1>5. CASE StartPop
  <2>1. /\ outQue \in Seq(Messages) /\ outQue # <<>> /\ outQue' = Tail(outQue)
        /\ UNCHANGED <<sent, pushed, socket>>
        /\ write' = [write EXCEPT ![Head(outQue)] = "popped"]
    BY <1>0, <1>5 DEF StartPop, TypeOK
  <2>2. /\ Len(outQue') = Len(outQue) - 1 /\ Head(outQue) = outQue[1]
        /\ Head(outQue) \in Messages
        /\ Len(outQue) \in Nat \ {0} /\ DOMAIN outQue = 1..Len(outQue)
        /\ Len(pushed) \in Nat /\ DOMAIN pushed = 1..Len(pushed)
    BY <1>0, <2>1 DEF TypeOK
  <2>3. /\ Taken' = Taken + 1 /\ Taken \in Nat /\ Taken + 1 \in DOMAIN pushed
        /\ Head(outQue) = pushed[Taken + 1]
    BY <1>0, <2>1, <2>2 DEF Fifo, Taken
  <2>4. \A k \in Messages : write'[k] = IF k = Head(outQue) THEN "popped" ELSE write[k]
    BY <1>0, <2>1 DEF TypeOK
  <2>5. ASSUME NEW k \in Messages
        PROVE  WasTaken(k)' <=> k = Head(outQue) \/ WasTaken(k)
    BY <2>1, <2>2, <2>3
  <2>6. \A k \in Messages : write'[k] # "none" <=> WasTaken(k)'
    <3> HIDE DEF WasTaken
    <3> QED BY <1>a, <2>4, <2>5
  <2>7. ~WasTaken(Head(outQue))
    BY <1>0, <2>2, <2>3 DEF Fifo
  <2>8. sent[Head(outQue)] = 0
    BY <1>a, <2>2, <2>7
  <2>9. \A k \in Messages : Part(k)'
    BY <1>a, <1>c, <2>1, <2>4, <2>8
  <2> QED BY <2>6, <2>9
<1>6. ASSUME NEW m \in Messages, StartWrite(m) \/ WriteFails(m) \/ WriteDone(m)
      PROVE  /\ \A k \in Messages : write'[k] # "none" <=> WasTaken(k)'
             /\ \A k \in Messages : Part(k)'
  <2>1. /\ UNCHANGED <<outQue, pushed, sent, socket>>
        /\ \A k \in Messages \ {m} : write'[k] = write[k]
        /\ write[m] # "none" /\ write'[m] # "none"
    BY <1>0, <1>6 DEF StartWrite, WriteFails, WriteDone, TypeOK
  <2>2. \A k \in Messages : write'[k] # "none" <=> WasTaken(k)'
    <3> HIDE DEF WasTaken
    <3> QED BY <1>a, <1>1, <2>1
  <2>3. Len(Frame(m)) \in {1, 2}
    BY FrameParts
  <2>4. Part(m)'
    <3>1. /\ Part(m) /\ sent'[m] = sent[m] /\ socket' = socket /\ sent[m] \in 0..2
          /\ Len(Frame(m))' = Len(Frame(m))
      BY <1>0, <1>a, <1>c, <2>1 DEF TypeOK
    <3>2. CASE StartWrite(m)
      <4>1. write[m] = "popped" /\ write'[m] \in {"writing", "failed"}
        BY <1>0, <3>2 DEF StartWrite, TypeOK
      <4> QED BY <2>3, <3>1, <4>1
    <3>3. CASE WriteFails(m)
      <4>1. write[m] = "writing" /\ write'[m] = "failed" /\ socket = "closed"
        BY <1>0, <3>3 DEF WriteFails, TypeOK
      <4> QED BY <2>3, <3>1, <4>1
    <3>4. CASE WriteDone(m)
      <4>1. \/ write[m] = "complete" /\ write'[m] = "over"
            \/ write[m] = "failed" /\ write'[m] = "lost"
        BY <1>0, <3>4 DEF WriteDone, TypeOK
      <4> QED BY <2>3, <3>1, <4>1
    <3> QED BY <1>6, <3>2, <3>3, <3>4
  <2>5. \A k \in Messages : Part(k)'
    BY <1>a, <1>c, <2>1, <2>4
  <2> QED BY <2>2, <2>5
<1>7. ASSUME NEW m \in Messages, WriteSome(m)
      PROVE  /\ \A k \in Messages : write'[k] # "none" <=> WasTaken(k)'
             /\ \A k \in Messages : Part(k)'
  <2>1. /\ UNCHANGED <<outQue, pushed, socket>>
        /\ \A k \in Messages \ {m} : write'[k] = write[k] /\ sent'[k] = sent[k]
        /\ write[m] # "none" /\ write'[m] # "none"
    BY <1>0, <1>7 DEF WriteSome, TypeOK
  <2>2. \A k \in Messages : write'[k] # "none" <=> WasTaken(k)'
    <3> HIDE DEF WasTaken
    <3> QED BY <1>a, <1>1, <2>1
  <2>3. /\ sent[m] < Len(Frame(m)) /\ sent[m] \in 0..2
        /\ Len(Frame(m)) \in {1, 2}
    BY <1>0, <1>a, <1>7, FrameParts DEF WriteSome, TypeOK
  <2>4. Part(m)'
    <3>1. sent'[m] = sent[m] + 1 /\ write'[m] = IF sent[m] + 1 = Len(Frame(m)) THEN "complete" ELSE "writing"
      BY <1>0, <1>7 DEF WriteSome, TypeOK
    <3> QED BY <1>c, <2>3, <3>1
  <2>5. \A k \in Messages : Part(k)'
    BY <1>a, <1>c, <2>1, <2>4
  <2> QED BY <2>2, <2>5
<1> QED
  <2>1. \/ UNCHANGED <<outQue, pushed, write, sent>> /\ (socket = "closed" => socket' = "closed")
        \/ \E m \in Messages : Push(m)
        \/ StartPop
        \/ \E m \in Messages : StartWrite(m) \/ WriteFails(m) \/ WriteDone(m) \/ WriteSome(m)
    BY DEF Next, SendStep, vars, sendVars, recvVars, Connect, Connected, Disconnect, StartIdle,
           PostThrows, Dispatch, ReadHeader, ReadBody, ReadFails, GetOneMessage
  <2> HIDE DEF WasTaken, Part
  <2> QED BY <1>3, <1>4, <1>5, <1>6, <1>7, <2>1

\* In the initial state nothing is queued, written or read.
LEMMA InitSender ==
  ASSUME Init
  PROVE  Sender
<1>1. TypeOK
  <2>1. size \in [Messages -> Sizes]
    BY ConnectionAssumption DEF Init
  <2>2. /\ outQue \in Seq(Messages) /\ inQue \in Seq(Messages)
        /\ pushed \in Seq(Messages) /\ got \in Seq(Messages)
        /\ wire \in Seq(Messages \X {"header", "body"}) /\ consumed \in 0..Len(wire)
    BY DEF Init
  <2>3. /\ call \in [Messages -> {"none", "threw", "pushed", "posted"}]
        /\ write \in [Messages -> {"none", "popped", "writing", "complete",
                                   "failed", "over", "lost"}]
        /\ \A m \in Messages : write[m] = "none"
        /\ sent \in [Messages -> 0..2]
    BY DEF Init
  <2> QED BY <2>1, <2>2, <2>3 DEF Init, TypeOK
<1>2. Fifo
  BY DEF Init, Fifo
<1>3. Writes
  BY DEF Init, Writes
<1> QED BY <1>1, <1>2, <1>3 DEF Sender

-----------------------------------------------------------------------------
(* The stream, while no writes have overlapped.                            *)

\* The message in flight is the one taken last.
LEMMA InFlightIsLastTaken ==
  ASSUME Sender, OneInFlight, NEW m \in InFlight
  PROVE  m \in Messages /\ Taken \in DOMAIN pushed /\ pushed[Taken] = m
<1>1. m \in Messages /\ write[m] # "none"
  BY DEF InFlight
<1>2. PICK i \in DOMAIN pushed : i <= Taken /\ pushed[i] = m
  BY <1>1 DEF Sender, Writes
<1>3. Taken \in Int /\ i \in Int
  BY DEF Taken, Sender, TypeOK
<1>4. ~(i < Taken)
  BY <1>2 DEF OneInFlight
<1>5. i = Taken
  BY <1>2, <1>3, <1>4
<1> QED BY <1>1, <1>2, <1>5

\* What a step of a write does to the wire.
LEMMA PieceWritten ==
  ASSUME Sender, NEW m \in Messages, WriteSome(m)
  PROVE  /\ Len(wire) \in Nat /\ DOMAIN wire = 1..Len(wire)
         /\ Len(wire') = Len(wire) + 1 /\ DOMAIN wire' = 1..Len(wire) + 1
         /\ \A p \in DOMAIN wire : wire'[p] = wire[p]
         /\ \/ sent[m] = 0 /\ sent'[m] = 1 /\ wire'[Len(wire) + 1] = <<m, "header">>
            \/ /\ sent[m] = 1 /\ sent'[m] = 2 /\ wire'[Len(wire) + 1] = <<m, "body">>
               /\ size[m] # "empty" /\ write'[m] = "complete"
         /\ \A k \in Messages \ {m} : sent'[k] = sent[k] /\ write'[k] = write[k]
         /\ UNCHANGED <<size, pushed, outQue, socket>>
         /\ m \in InFlight /\ socket = "open"
<1>1. TypeOK /\ write[m] = "writing"
  BY DEF Sender, WriteSome
<1>2. /\ wire \in Seq(Messages \X {"header", "body"})
      /\ sent' = [sent EXCEPT ![m] = sent[m] + 1]
      /\ wire' = Append(wire, <<m, Frame(m)[sent[m] + 1]>>)
      /\ UNCHANGED <<size, pushed, outQue, socket>>
      /\ write' = [write EXCEPT ![m] = IF sent'[m] = Len(Frame(m)) THEN "complete" ELSE "writing"]
  BY <1>1 DEF WriteSome, TypeOK
<1>3. \/ sent[m] = 0 /\ Frame(m)[sent[m] + 1] = "header"
      \/ sent[m] = 1 /\ Frame(m)[sent[m] + 1] = "body" /\ size[m] # "empty"
  BY <1>1, NextOfFrame
<1>4. <<m, Frame(m)[sent[m] + 1]>> \in Messages \X {"header", "body"}
  BY <1>3
<1>5. /\ Len(wire) \in Nat /\ DOMAIN wire = 1..Len(wire)
      /\ Len(wire') = Len(wire) + 1 /\ DOMAIN wire' = 1..Len(wire) + 1
      /\ \A p \in DOMAIN wire : wire'[p] = wire[p]
      /\ wire'[Len(wire) + 1] = <<m, Frame(m)[sent[m] + 1]>>
  BY <1>2, <1>4, AppendProperties, LenProperties
<1>6. /\ sent'[m] = sent[m] + 1
      /\ \A k \in Messages \ {m} : sent'[k] = sent[k] /\ write'[k] = write[k]
      /\ write'[m] = IF sent[m] + 1 = Len(Frame(m)) THEN "complete" ELSE "writing"
  BY <1>1, <1>2 DEF TypeOK
<1>7. size[m] # "empty" => Len(Frame(m)) = 2
  BY FrameParts
<1>8. m \in InFlight /\ socket = "open"
  BY <1>1 DEF WriteSome, InFlight
<1>9. \/ sent[m] = 0 /\ sent'[m] = 1 /\ wire'[Len(wire) + 1] = <<m, "header">>
      \/ /\ sent[m] = 1 /\ sent'[m] = 2 /\ wire'[Len(wire) + 1] = <<m, "body">>
         /\ size[m] # "empty" /\ write'[m] = "complete"
  <2>1. CASE sent[m] = 0
    BY <1>3, <1>5, <1>6, <2>1
  <2>2. CASE sent[m] = 1
    <3>1. sent'[m] = 2 /\ size[m] # "empty" /\ wire'[Len(wire) + 1] = <<m, "body">>
      BY <1>3, <1>5, <1>6, <2>2
    <3>2. write'[m] = "complete"
      BY <1>6, <1>7, <2>2, <3>1
    <3> QED BY <2>2, <3>1, <3>2
  <2> QED BY <1>3, <2>1, <2>2
<1> QED BY <1>2, <1>5, <1>6, <1>8, <1>9

\* A message with a started and unfinished frame is in flight while the connection is
\* open.
LEMMA UnfinishedInFlight ==
  ASSUME Sender, socket = "open", NEW m \in Messages, sent[m] = 1, size[m] # "empty"
  PROVE  m \in InFlight
<1>1. Len(Frame(m)) = 2
  BY FrameParts
<1>2. write[m] \notin {"complete", "over"}
  <2>1. write[m] \in {"complete", "over"} => sent[m] = Len(Frame(m))
    BY DEF Sender, TypeOK
  <2> QED BY <1>1, <2>1
<1>3. write[m] \notin {"none", "popped", "failed", "lost"}
  BY DEF Sender, Writes
<1>4. write[m] \in {"none", "popped", "writing", "complete", "failed", "over", "lost"}
  BY DEF Sender, TypeOK
<1> QED BY <1>2, <1>3, <1>4 DEF InFlight

LEMMA OneInFlightStep ==
  ASSUME Sender, OneInFlight, [Next]_vars, ~overlapped'
  PROVE  OneInFlight'
<1>0. TypeOK /\ Fifo /\ Sender
  BY DEF Sender
<1>1. ASSUME UNCHANGED <<outQue, pushed>>, InFlight' \subseteq InFlight
      PROVE  OneInFlight'
  BY <1>1 DEF OneInFlight, Taken
<1>2. ASSUME NEW m \in Messages, Push(m)
      PROVE  OneInFlight'
  <2>1. /\ Len(pushed) \in Nat /\ DOMAIN pushed = 1..Len(pushed)
        /\ DOMAIN pushed' = 1..Len(pushed) + 1 /\ Len(pushed') = Len(pushed) + 1
        /\ \A i \in 1..Len(pushed) : pushed'[i] = pushed[i]
        /\ Len(outQue) \in Nat /\ Len(outQue') = Len(outQue) + 1
    BY <1>0, <1>2 DEF Push, TypeOK
  <2>2. Taken' = Taken /\ Taken <= Len(pushed) /\ Taken \in Int
    BY <2>1 DEF Taken
  <2>3. InFlight' = InFlight
    BY <1>2 DEF Push, InFlight
  <2> QED BY <2>1, <2>2, <2>3 DEF OneInFlight
<1>3. CASE StartPop
  <2>1. /\ InFlight = {} /\ pushed' = pushed
        /\ outQue \in Seq(Messages) /\ outQue # <<>> /\ outQue' = Tail(outQue)
        /\ write' = [write EXCEPT ![Head(outQue)] = "popped"]
    BY <1>0, <1>3 DEF StartPop, TypeOK
  <2>2. /\ Len(outQue') = Len(outQue) - 1 /\ Head(outQue) = outQue[1]
        /\ Head(outQue) \in Messages
        /\ Len(outQue) \in Nat \ {0} /\ DOMAIN outQue = 1..Len(outQue)
        /\ Len(pushed) \in Nat /\ DOMAIN pushed = 1..Len(pushed)
    BY <1>0, <2>1 DEF TypeOK
  <2>3. /\ Taken' = Taken + 1 /\ Taken \in Nat /\ Taken + 1 \in DOMAIN pushed
        /\ Head(outQue) = pushed[Taken + 1]
    BY <1>0, <2>1, <2>2 DEF Fifo, Taken
  <2>4. InFlight' \subseteq {Head(outQue)}
    BY <1>0, <2>1 DEF InFlight, TypeOK
  <2>5. \A i \in DOMAIN pushed : i < Taken' => pushed[i] # Head(outQue)
    BY <1>0, <2>2, <2>3 DEF Fifo
  <2> QED BY <2>1, <2>4, <2>5 DEF OneInFlight
<1>4. ASSUME NEW m \in Messages,
             StartWrite(m) \/ WriteSome(m) \/ WriteFails(m) \/ WriteDone(m)
      PROVE  OneInFlight'
  <2>1. UNCHANGED <<outQue, pushed>> /\ InFlight' \subseteq InFlight
    BY <1>0, <1>4 DEF StartWrite, WriteSome, WriteFails, WriteDone, InFlight, TypeOK
  <2> QED BY <1>1, <2>1
<1> QED
  <2>1. \/ UNCHANGED <<outQue, pushed, write>>
        \/ \E m \in Messages : Push(m)
        \/ StartPop
        \/ \E m \in Messages : StartWrite(m) \/ WriteSome(m) \/ WriteFails(m) \/ WriteDone(m)
    BY DEF Next, SendStep, vars, sendVars, recvVars, Connect, Connected, Disconnect, StartIdle,
           PostThrows, Dispatch, ReadHeader, ReadBody, ReadFails, GetOneMessage
  <2>2. CASE UNCHANGED <<outQue, pushed, write>>
    BY <1>1, <2>2 DEF InFlight
  <2> QED BY <1>2, <1>3, <1>4, <2>1, <2>2

LEMMA WholeStep ==
  ASSUME Sender, OneInFlight, Whole, [Next]_vars
  PROVE  Whole'
<1>0. TypeOK
  BY DEF Sender
<1>1. ASSUME UNCHANGED <<size, sent, wire>>,
             \A m \in Messages : write'[m] = "writing" /\ sent[m] = 1 => write[m] = "writing"
      PROVE  Whole'
  BY <1>1 DEF Whole
<1>2. ASSUME NEW m \in Messages, WriteSome(m)
      PROVE  Whole'
  <2> DEFINE L == Len(wire)
  <2>1. /\ L \in Nat /\ DOMAIN wire = 1..L
        /\ Len(wire') = L + 1 /\ DOMAIN wire' = 1..L + 1
        /\ \A p \in 1..L : wire'[p] = wire[p]
        /\ \A k \in Messages \ {m} : sent'[k] = sent[k] /\ write'[k] = write[k]
        /\ size' = size
        /\ m \in InFlight /\ socket = "open"
    BY <1>2, PieceWritten
  <2>2. \A k \in InFlight : k = m
    BY <2>1, InFlightIsLastTaken
  <2>3. \A k \in Messages : sent[k] = 1 /\ size[k] # "empty" => k = m
    BY <2>1, <2>2, UnfinishedInFlight
  <2>4. \A k \in Messages \ {m} : write'[k] # "writing"
    BY <2>1, <2>2 DEF InFlight
  <2>5. CASE sent[m] = 0 /\ sent'[m] = 1 /\ wire'[L + 1] = <<m, "header">>
    <3>1. ASSUME NEW k \in Messages, sent'[k] > 0
          PROVE  \E p \in DOMAIN wire' : wire'[p] = <<k, "header">>
      <4>1. CASE k = m
        BY <2>1, <2>5, <4>1
      <4>2. CASE k # m
        <5>1. sent[k] > 0
          BY <2>1, <3>1, <4>2
        <5>2. PICK p \in DOMAIN wire : wire[p] = <<k, "header">>
          BY <5>1 DEF Whole
        <5> QED BY <2>1, <5>2
      <4> QED BY <4>1, <4>2
    <3>2. ASSUME NEW p \in 1..L, NEW k \in Messages
          PROVE  /\ wire'[p] = <<k, "header">> => sent'[k] > 0
                 /\ wire'[p] = <<k, "body">>
                      => sent'[k] = 2 /\ p > 1 /\ wire'[p - 1] = <<k, "header">>
                 /\ wire'[p] = <<k, "header">> /\ size[k] # "empty" => wire'[p + 1] = <<k, "body">>
      <4>1. wire[p] = <<k, "header">> => sent[k] > 0 /\ k # m
        BY <2>1, <2>5 DEF Whole
      <4>2. wire[p] = <<k, "body">> => sent[k] = 2 /\ p > 1 /\ wire[p - 1] = <<k, "header">> /\ k # m
        BY <2>1, <2>5 DEF Whole
      <4>3. wire[p] = <<k, "header">> /\ size[k] # "empty" => p < L /\ wire[p + 1] = <<k, "body">>
        BY <2>1, <2>3, <4>1 DEF Whole
      <4> QED BY <2>1, <4>1, <4>2, <4>3
    <3>3. ASSUME NEW k \in Messages
          PROVE  /\ wire'[L + 1] = <<k, "header">> => sent'[k] = 1
                 /\ wire'[L + 1] # <<k, "body">>
      BY <2>5
    <3>4. \A k \in Messages : write'[k] = "writing" => wire'[L + 1] = <<k, "header">>
      BY <2>4, <2>5
    <3> QED
      <4>1. ASSUME NEW p \in DOMAIN wire', NEW k \in Messages
            PROVE  /\ wire'[p] = <<k, "header">> => sent'[k] > 0
                   /\ wire'[p] = <<k, "body">>
                        => sent'[k] = 2 /\ p > 1 /\ wire'[p - 1] = <<k, "header">>
                   /\ wire'[p] = <<k, "header">> /\ p = Len(wire') => sent'[k] = 1
                   /\ wire'[p] = <<k, "header">> /\ p < Len(wire') /\ size'[k] # "empty"
                        => wire'[p + 1] = <<k, "body">>
        <5>1. CASE p = L + 1
          BY <2>1, <3>3, <5>1
        <5>2. CASE p \in 1..L
          BY <2>1, <3>2, <5>2
        <5> QED BY <2>1, <5>1, <5>2
      <4>2. wire' # <<>>
        BY <2>1
      <4> QED BY <2>1, <3>1, <3>4, <4>1, <4>2 DEF Whole
  <2>6. CASE /\ sent[m] = 1 /\ sent'[m] = 2 /\ wire'[L + 1] = <<m, "body">>
             /\ size[m] # "empty" /\ write'[m] = "complete"
    <3>0. write[m] = "writing"
      BY <1>2 DEF WriteSome
    <3>1. L >= 1 /\ wire[L] = <<m, "header">>
      BY <2>1, <2>6, <3>0 DEF Whole
    <3>2. ASSUME NEW k \in Messages, sent'[k] > 0
          PROVE  \E p \in DOMAIN wire' : wire'[p] = <<k, "header">>
      <4>1. sent[k] > 0
        BY <2>1, <2>6, <3>2
      <4>2. PICK p \in DOMAIN wire : wire[p] = <<k, "header">>
        BY <4>1 DEF Whole
      <4> QED BY <2>1, <4>2
    <3>3. ASSUME NEW p \in 1..L, NEW k \in Messages
          PROVE  /\ wire'[p] = <<k, "header">> => sent'[k] > 0
                 /\ wire'[p] = <<k, "body">>
                      => sent'[k] = 2 /\ p > 1 /\ wire'[p - 1] = <<k, "header">>
                 /\ wire'[p] = <<k, "header">> /\ size[k] # "empty" => wire'[p + 1] = <<k, "body">>
      <4>1. wire[p] = <<k, "header">> => sent'[k] > 0
        BY <2>1, <2>6 DEF Whole
      <4>2. wire[p] = <<k, "body">> => sent[k] = 2 /\ p > 1 /\ wire[p - 1] = <<k, "header">> /\ k # m
        BY <2>1, <2>6 DEF Whole
      <4>3. wire[p] = <<k, "header">> /\ size[k] # "empty" => wire'[p + 1] = <<k, "body">>
        <5>1. CASE p < L
          BY <2>1, <5>1 DEF Whole
        <5>2. CASE p = L
          BY <2>6, <3>1, <5>2
        <5> QED BY <2>1, <5>1, <5>2
      <4> QED BY <2>1, <4>1, <4>2, <4>3
    <3>4. ASSUME NEW k \in Messages
          PROVE  /\ wire'[L + 1] # <<k, "header">>
                 /\ wire'[L + 1] = <<k, "body">>
                      => sent'[k] = 2 /\ L + 1 > 1 /\ wire'[L + 1 - 1] = <<k, "header">>
      BY <2>1, <2>6, <3>1
    <3>5. \A k \in Messages : write'[k] # "writing"
      BY <2>4, <2>6
    <3> QED
      <4>1. ASSUME NEW p \in DOMAIN wire', NEW k \in Messages
            PROVE  /\ wire'[p] = <<k, "header">> => sent'[k] > 0
                   /\ wire'[p] = <<k, "body">>
                        => sent'[k] = 2 /\ p > 1 /\ wire'[p - 1] = <<k, "header">>
                   /\ wire'[p] = <<k, "header">> /\ p = Len(wire') => sent'[k] = 1
                   /\ wire'[p] = <<k, "header">> /\ p < Len(wire') /\ size'[k] # "empty"
                        => wire'[p + 1] = <<k, "body">>
        <5>1. CASE p = L + 1
          BY <2>1, <3>4, <5>1
        <5>2. CASE p \in 1..L
          BY <2>1, <3>3, <5>2
        <5> QED BY <2>1, <5>1, <5>2
      <4> QED BY <2>1, <3>2, <3>5, <4>1 DEF Whole
  <2> QED BY <1>2, <2>5, <2>6, PieceWritten
<1>3. ASSUME NEW m \in Messages, StartWrite(m)
      PROVE  Whole'
  <2>1. sent[m] = 0
    BY <1>3 DEF StartWrite, Sender, Writes
  <2>2. \A k \in Messages \ {m} : write'[k] = write[k]
    BY <1>0, <1>3 DEF StartWrite, TypeOK
  <2> QED BY <1>1, <1>3, <2>1, <2>2 DEF StartWrite
<1>4. ASSUME NEW m \in Messages, WriteFails(m) \/ WriteDone(m)
      PROVE  Whole'
  <2>1. \A k \in Messages : write'[k] = "writing" => write[k] = "writing"
    BY <1>0, <1>4 DEF WriteFails, WriteDone, TypeOK
  <2> QED BY <1>1, <1>4, <2>1 DEF WriteFails, WriteDone
<1>5. CASE StartPop
  <2>1. Head(outQue) \in Messages
    BY <1>0, <1>5, HeadTailProperties DEF StartPop, TypeOK
  <2>2. \A k \in Messages : write'[k] = "writing" => write[k] = "writing"
    BY <1>0, <1>5, <2>1 DEF StartPop, TypeOK
  <2> QED BY <1>1, <1>5, <2>2 DEF StartPop
<1> QED
  <2>1. \/ UNCHANGED <<size, sent, wire, write>>
        \/ StartPop
        \/ \E m \in Messages : StartWrite(m) \/ WriteSome(m) \/ WriteFails(m) \/ WriteDone(m)
    BY DEF Next, SendStep, vars, sendVars, recvVars, Connect, Connected, Disconnect, StartIdle,
           PostThrows, Push, Dispatch, ReadHeader, ReadBody, ReadFails, GetOneMessage
  <2> QED BY <1>1, <1>2, <1>3, <1>4, <1>5, <2>1

LEMMA OrderedStep ==
  ASSUME Sender, OneInFlight, Whole, Ordered, [Next]_vars
  PROVE  Ordered'
<1>0. TypeOK /\ Fifo
  BY DEF Sender
<1>t. Len(pushed) \in Nat /\ DOMAIN pushed = 1..Len(pushed) /\ \A i \in DOMAIN pushed : pushed[i] \in Messages
  BY <1>0 DEF TypeOK
<1>1. CASE UNCHANGED <<wire, pushed>>
  BY <1>1 DEF Ordered
<1>2. ASSUME NEW m \in Messages, Push(m)
      PROVE  Ordered'
  <2>1. /\ DOMAIN pushed' = 1..Len(pushed) + 1 /\ pushed'[Len(pushed) + 1] = m
        /\ \A i \in 1..Len(pushed) : pushed'[i] = pushed[i]
    BY <1>0, <1>2 DEF Push, TypeOK
  <2>2. \A p \in DOMAIN wire : wire[p] # <<m, "header">>
    <3>1. call[m] = "none"
      BY <1>2 DEF Push
    <3>2. ~ \E i \in DOMAIN pushed : pushed[i] = m
      BY <1>0, <3>1 DEF Fifo
    <3>3. sent[m] = 0
      BY <3>2 DEF Sender, Writes
    <3> QED BY <3>3 DEF Whole
  <2>3. wire' = wire
    BY <1>2 DEF Push
  <2> QED BY <1>t, <2>1, <2>2, <2>3 DEF Ordered
<1>3. ASSUME NEW m \in Messages, WriteSome(m)
      PROVE  Ordered'
  <2> DEFINE L == Len(wire)
  <2>1. /\ L \in Nat /\ DOMAIN wire = 1..L
        /\ DOMAIN wire' = 1..L + 1
        /\ \A p \in 1..L : wire'[p] = wire[p]
        /\ pushed' = pushed /\ m \in InFlight
    BY <1>3, PieceWritten
  <2>2. ASSUME NEW p \in 1..L, NEW i \in DOMAIN pushed, NEW j \in DOMAIN pushed,
               wire[p] = <<pushed[i], "header">>, wire'[L + 1] = <<pushed[j], "header">>
        PROVE  i < j
    <3>1. pushed[j] = m /\ sent[m] = 0
      BY <1>3, <2>2, PieceWritten
    <3>2. Taken \in DOMAIN pushed /\ pushed[Taken] = m
      BY <2>1, InFlightIsLastTaken
    <3>3. j = Taken
      BY <1>0, <3>1, <3>2 DEF Fifo
    <3>4. sent[pushed[i]] > 0
      BY <1>t, <2>1, <2>2 DEF Whole
    <3>5. write[pushed[i]] # "none"
      BY <1>t, <3>4 DEF Sender, Writes
    <3>6. PICK n \in DOMAIN pushed : n <= Taken /\ pushed[n] = pushed[i]
      BY <1>t, <3>5 DEF Sender, Writes
    <3>7. i = n
      BY <1>0, <3>6 DEF Fifo
    <3>8. i # j
      BY <3>1, <3>4
    <3> QED BY <1>t, <3>2, <3>3, <3>6, <3>7, <3>8
  <2> QED BY <2>1, <2>2 DEF Ordered
<1> QED
  <2>1. \/ UNCHANGED <<wire, pushed>>
        \/ \E m \in Messages : Push(m) \/ WriteSome(m)
    BY DEF Next, SendStep, vars, sendVars, recvVars, Connect, Connected, Disconnect, StartIdle,
           StartPop, StartWrite, WriteFails, WriteDone,
           PostThrows, Dispatch, ReadHeader, ReadBody, ReadFails, GetOneMessage
  <2> QED BY <1>1, <1>2, <1>3, <2>1

\* What is appended to the queue is appended to what has been taken and the queue; and
\* taking the head of the queue leaves both together as they are.
LEMMA AppendToConcat ==
  ASSUME NEW S, NEW s \in Seq(S), NEW t \in Seq(S), NEW x \in S
  PROVE  s \o Append(t, x) = Append(s \o t, x)
<1>1. Append(t, x) \in Seq(S) /\ Len(Append(t, x)) = Len(t) + 1
  BY AppendProperties
<1>2. s \o t \in Seq(S) /\ Len(s \o t) = Len(s) + Len(t)
  BY ConcatProperties
<1>3. s \o Append(t, x) \in Seq(S) /\ Len(s \o Append(t, x)) = Len(s) + Len(t) + 1
  BY <1>1, ConcatProperties
<1>4. Append(s \o t, x) \in Seq(S) /\ Len(Append(s \o t, x)) = Len(s) + Len(t) + 1
  BY <1>2, AppendProperties
<1>5. ASSUME NEW i \in 1..(Len(s) + Len(t) + 1)
      PROVE  (s \o Append(t, x))[i] = Append(s \o t, x)[i]
  OBVIOUS
<1> QED BY <1>3, <1>4, <1>5, SeqEqual

LEMMA HeadToConcat ==
  ASSUME NEW S, NEW s \in Seq(S), NEW t \in Seq(S), t # <<>>
  PROVE  Append(s, Head(t)) \o Tail(t) = s \o t
<1>1. Head(t) \in S /\ Tail(t) \in Seq(S) /\ Len(Tail(t)) = Len(t) - 1
  BY HeadTailProperties
<1>2. Append(s, Head(t)) \in Seq(S) /\ Len(Append(s, Head(t))) = Len(s) + 1
  BY <1>1, AppendProperties
<1>3. Append(s, Head(t)) \o Tail(t) \in Seq(S) /\ Len(Append(s, Head(t)) \o Tail(t)) = Len(s) + Len(t)
  BY <1>1, <1>2, ConcatProperties
<1>4. s \o t \in Seq(S) /\ Len(s \o t) = Len(s) + Len(t)
  BY ConcatProperties
<1>5. ASSUME NEW i \in 1..(Len(s) + Len(t))
      PROVE  (Append(s, Head(t)) \o Tail(t))[i] = (s \o t)[i]
  OBVIOUS
<1> QED BY <1>3, <1>4, <1>5, SeqEqual

LEMMA ReceivesStep ==
  ASSUME Sender, Whole, Receives, [Next]_vars
  PROVE  Receives'
<1>0. TypeOK
  BY DEF Sender
<1>a. /\ Delivered \in Seq(Messages) /\ Len(Delivered) \in Nat
      /\ DOMAIN Delivered = 1..Len(Delivered)
  BY <1>0, ConcatProperties DEF TypeOK, Delivered
<1>b. Len(wire) \in Nat /\ DOMAIN wire = 1..Len(wire) /\ consumed \in 0..Len(wire)
  BY <1>0 DEF TypeOK
<1>1. ASSUME UNCHANGED <<size, recvVars>>,
             \A p \in DOMAIN wire : wire'[p] = wire[p],
             socket' \in {"unconnected", "connecting"} => socket \in {"unconnected", "connecting"}
      PROVE  Receives'
  <2>1. Delivered' = Delivered
    BY <1>1 DEF Delivered, recvVars
  <2>2. \A i \in DOMAIN Delivered : 2 * i <= consumed => 2 * i \in DOMAIN wire /\ 2 * i - 1 \in DOMAIN wire
    BY <1>a, <1>b
  <2>3. reading = "body" => consumed \in DOMAIN wire
    BY <1>a, <1>b DEF Receives
  <2>4. UNCHANGED <<size, reading, consumed, awaited>>
    BY <1>1 DEF recvVars
  <2>5. \A i \in DOMAIN Delivered :
          /\ 2 * i <= consumed
          /\ wire'[2 * i - 1] = <<Delivered[i], "header">>
          /\ wire'[2 * i] = <<Delivered[i], "body">>
    BY <1>1, <2>2 DEF Receives
  <2>6. reading = "body" =>
          /\ consumed = 2 * Len(Delivered) + 1
          /\ awaited \in Messages /\ size[awaited] # "empty"
          /\ wire'[consumed] = <<awaited, "header">>
    BY <1>1, <2>3 DEF Receives
  <2>7. /\ reading # "garbled"
        /\ socket' \in {"unconnected", "connecting"} => reading = "none"
        /\ reading \in {"none", "header"} => consumed = 2 * Len(Delivered)
        /\ reading = "none" => consumed = 0
    BY <1>1 DEF Receives
  <2> QED BY <2>1, <2>4, <2>5, <2>6, <2>7 DEF Receives
<1>2. ASSUME NEW m \in Messages, WriteSome(m)
      PROVE  Receives'
  <2>1. UNCHANGED <<size, recvVars, socket>> /\ \A p \in DOMAIN wire : wire'[p] = wire[p]
    BY <1>2, PieceWritten DEF WriteSome
  <2> QED BY <1>1, <2>1
<1>3. CASE UNCHANGED <<size, recvVars, wire>> /\ (socket' = socket \/ Connect \/ Disconnect)
  BY <1>1, <1>3 DEF Connect, Disconnect
<1>4. CASE Connected
  <2>1. /\ reading' = "header" /\ socket' = "open" /\ reading = "none"
        /\ UNCHANGED <<size, wire, consumed, awaited, Delivered>>
    BY <1>4 DEF Connected, Receives, Delivered
  <2> QED BY <2>1 DEF Receives
<1>5. CASE ReadHeader
  <2>1. /\ reading = "header" /\ consumed' = consumed + 1 /\ consumed < Len(wire)
        /\ reading' = AfterHeader /\ awaited' = NextPiece[1]
        /\ UNCHANGED <<size, wire, socket, Delivered>>
    BY <1>5 DEF ReadHeader, Delivered
  <2>2. consumed = 2 * Len(Delivered) /\ consumed + 1 \in DOMAIN wire
    BY <1>b, <2>1 DEF Receives
  <2>3. NextPiece \in Messages \X {"header", "body"}
    BY <1>0, <2>2 DEF NextPiece, TypeOK
  <2>4. NextPiece[2] = "header"
    <3>1. SUFFICES ASSUME NEW m \in Messages, wire[consumed + 1] = <<m, "body">>
                   PROVE  FALSE
      BY <2>3 DEF NextPiece
    <3>2. consumed + 1 > 1 /\ wire[consumed + 1 - 1] = <<m, "header">>
      BY <2>2, <3>1 DEF Whole
    <3>3. Len(Delivered) \in DOMAIN Delivered /\ wire[consumed] = <<m, "header">>
      BY <1>a, <1>b, <2>2, <3>2
    <3>4. wire[consumed] = <<Delivered[Len(Delivered)], "body">>
      BY <2>2, <3>3 DEF Receives
    <3> QED BY <3>3, <3>4
  <2>5. NextPiece = <<awaited', "header">> /\ awaited' \in Messages
    BY <2>1, <2>3, <2>4
  <2>6. reading' \in {"stopped", "crashed", "body"} /\ (reading' = "body" => size[awaited'] # "empty")
    BY <2>1, <2>4 DEF AfterHeader
  <2>7. \A i \in DOMAIN Delivered :
          /\ 2 * i <= consumed'
          /\ wire[2 * i - 1] = <<Delivered[i], "header">>
          /\ wire[2 * i] = <<Delivered[i], "body">>
    BY <1>a, <1>b, <2>1 DEF Receives
  <2>8. socket \notin {"unconnected", "connecting"}
    BY <2>1 DEF Receives
  <2> QED BY <2>1, <2>2, <2>5, <2>6, <2>7, <2>8 DEF Receives, NextPiece
<1>6. CASE ReadBody
  <2>1. /\ reading = "body" /\ consumed' = consumed + 1 /\ consumed < Len(wire)
        /\ UNCHANGED <<size, wire, socket, awaited, got>>
    BY <1>6 DEF ReadBody
  <2>2. /\ consumed = 2 * Len(Delivered) + 1 /\ awaited \in Messages /\ size[awaited] # "empty"
        /\ wire[consumed] = <<awaited, "header">>
    BY <2>1 DEF Receives
  <2>3. wire[consumed + 1] = <<awaited, "body">>
    BY <1>a, <1>b, <2>1, <2>2 DEF Whole
  <2>4. inQue' = Append(inQue, awaited) /\ reading' = "header"
    BY <1>6, <2>3 DEF ReadBody, NextPiece
  <2>5. Delivered' = Append(Delivered, awaited)
    <3>1. got \in Seq(Messages) /\ inQue \in Seq(Messages)
      BY <1>0 DEF TypeOK
    <3>2. got \o Append(inQue, awaited) = Append(got \o inQue, awaited)
      BY <2>2, <3>1, AppendToConcat
    <3> QED BY <2>1, <2>4, <3>2 DEF Delivered
  <2>6. /\ Len(Delivered') = Len(Delivered) + 1
        /\ DOMAIN Delivered' = 1..Len(Delivered) + 1
        /\ \A i \in 1..Len(Delivered) : Delivered'[i] = Delivered[i]
        /\ Delivered'[Len(Delivered) + 1] = awaited
    BY <1>a, <2>2, <2>5, AppendProperties
  <2>7. ASSUME NEW i \in DOMAIN Delivered'
        PROVE  /\ 2 * i <= consumed'
               /\ wire[2 * i - 1] = <<Delivered'[i], "header">>
               /\ wire[2 * i] = <<Delivered'[i], "body">>
    <3>1. CASE i \in 1..Len(Delivered)
      BY <1>a, <1>b, <2>1, <2>6, <3>1 DEF Receives
    <3>2. CASE i = Len(Delivered) + 1
      <4>1. 2 * i = consumed + 1 /\ 2 * i - 1 = consumed /\ consumed + 1 \in Nat
        BY <1>a, <1>b, <2>2, <3>2
      <4> QED BY <2>1, <2>2, <2>3, <2>6, <3>2, <4>1
    <3> QED BY <2>6, <3>1, <3>2
  <2>8. socket \notin {"unconnected", "connecting"} /\ consumed' = 2 * Len(Delivered')
    BY <1>a, <2>1, <2>2, <2>6 DEF Receives
  <2> QED BY <2>1, <2>4, <2>7, <2>8 DEF Receives
<1>7. CASE ReadFails
  <2>1. /\ reading' = "stopped" /\ socket = "closed"
        /\ UNCHANGED <<size, socket, wire, consumed, awaited, Delivered>>
    BY <1>7 DEF ReadFails, Delivered
  <2> QED BY <2>1 DEF Receives
<1>8. CASE GetOneMessage
  <2>1. inQue # <<>> /\ got' = Append(got, Head(inQue)) /\ inQue' = Tail(inQue)
    BY <1>8 DEF GetOneMessage
  <2>2. /\ got \in Seq(Messages) /\ inQue \in Seq(Messages)
        /\ Head(inQue) \in Messages /\ Tail(inQue) \in Seq(Messages)
    BY <1>0, <2>1, HeadTailProperties DEF TypeOK
  <2>3. Delivered' = Delivered
    BY <2>1, <2>2, HeadToConcat DEF Delivered
  <2>4. UNCHANGED <<size, socket, wire, consumed, reading, awaited>>
    BY <1>8 DEF GetOneMessage
  <2> QED BY <2>3, <2>4 DEF Receives
<1> QED
  <2>1. \/ UNCHANGED <<size, recvVars, wire>> /\ (socket' = socket \/ Connect \/ Disconnect)
        \/ \E m \in Messages : WriteSome(m)
        \/ Connected \/ ReadHeader \/ ReadBody \/ ReadFails \/ GetOneMessage
    BY DEF Next, SendStep, vars, sendVars, Connect, Disconnect, StartIdle,
           StartPop, StartWrite, WriteFails, WriteDone, PostThrows, Push, Dispatch
  <2> QED BY <1>2, <1>3, <1>4, <1>5, <1>6, <1>7, <1>8, <2>1

\* The inductive invariant.
LEMMA Invariant == Spec => []IInv
<1>1. Init => IInv
  <2> SUFFICES ASSUME Init PROVE Stream
    BY InitSender DEF IInv
  <2>1. OneInFlight
    BY DEF Init, OneInFlight
  <2>2. Whole
    BY DEF Init, Whole
  <2>3. Ordered
    BY DEF Init, Ordered
  <2>4. Delivered = <<>>
    BY DEF Init, Delivered
  <2>5. Receives
    BY <2>4 DEF Init, Receives
  <2> QED BY <2>1, <2>2, <2>3, <2>5 DEF Stream
<1>2. IInv /\ [Next]_vars => IInv'
  <2> SUFFICES ASSUME IInv, [Next]_vars
               PROVE  Sender' /\ (~overlapped' => Stream')
    BY DEF IInv
  <2>1. Sender'
    BY TypeStep, FifoStep, WritesStep DEF IInv, Sender
  <2>2. ASSUME ~overlapped'
        PROVE  Stream'
    <3>1. ~overlapped
      BY <2>2 DEF Next, SendStep, vars, sendVars, recvVars, Connect, Connected, Disconnect,
             PostThrows, Push, Dispatch, StartIdle, StartPop, StartWrite, WriteSome, WriteFails,
             WriteDone, ReadHeader, ReadBody, ReadFails, GetOneMessage
    <3>2. Sender /\ OneInFlight /\ Whole /\ Ordered /\ Receives
      BY <3>1 DEF IInv, Stream
    <3> QED BY <2>2, <3>2, OneInFlightStep, WholeStep, OrderedStep, ReceivesStep DEF Stream
  <2> QED BY <2>1, <2>2
<1> QED BY <1>1, <1>2, PTL DEF Spec

\* The variables of a connection keep their types, and a write that is complete has
\* put its whole frame on the wire (AsioAdapter.hpp:23-31).
THEOREM TypeCorrect == Spec => []TypeOK
<1>1. IInv => TypeOK
  BY DEF IInv, Sender
<1> QED BY <1>1, Invariant, PTL

-----------------------------------------------------------------------------
(* The order of what was received.                                         *)

\* A received message was queued, and its write has not failed.
LEMMA ReceivedNotLost ==
  ASSUME Sender, Stream, NEW i \in DOMAIN Delivered
  PROVE  \E n \in NotLost : pushed[n] = Delivered[i] /\ n <= Taken
<1> DEFINE d == Delivered[i]
<1>0. /\ d \in Messages /\ i \in 1..Len(Delivered) /\ Len(Delivered) \in Nat
  BY ConcatProperties DEF Sender, TypeOK, Delivered
<1>1. 2 * i \in DOMAIN wire /\ wire[2 * i] = <<d, "body">>
  BY <1>0 DEF Stream, Receives, Sender, TypeOK
<1>2. sent[d] = 2
  BY <1>0, <1>1 DEF Stream, Whole
<1>3. Len(Frame(d)) \in {1, 2}
  BY FrameParts
<1>4. write[d] \notin {"none", "failed", "lost"}
  <2>1. /\ write[d] \in {"failed", "lost"} => sent[d] < Len(Frame(d))
        /\ write[d] = "none" => sent[d] = 0
    BY <1>0 DEF Sender, Writes
  <2>2. ~(sent[d] < Len(Frame(d))) /\ sent[d] # 0
    <3>1. ASSUME NEW x, NEW y \in {1, 2}, x = 2
          PROVE  ~(x < y) /\ x # 0
      BY <3>1
    <3> QED BY <1>2, <1>3, <3>1
  <2> QED BY <2>1, <2>2
<1>5. PICK n \in DOMAIN pushed : n <= Taken /\ pushed[n] = d
  BY <1>0, <1>4 DEF Sender, Writes
<1> QED BY <1>4, <1>5 DEF NotLost

\* Messages are received in the order of queueing.
LEMMA ReceivedInOrder ==
  ASSUME Sender, Stream, NEW i \in DOMAIN Delivered, NEW j \in DOMAIN Delivered, i < j,
         NEW n \in DOMAIN pushed, NEW k \in DOMAIN pushed,
         pushed[n] = Delivered[i], pushed[k] = Delivered[j]
  PROVE  n < k
<1>0. i \in Nat /\ j \in Nat /\ i >= 1
  BY ConcatProperties DEF Sender, TypeOK, Delivered
<1>1. /\ 2 * i - 1 \in DOMAIN wire /\ wire[2 * i - 1] = <<pushed[n], "header">>
      /\ 2 * j - 1 \in DOMAIN wire /\ wire[2 * j - 1] = <<pushed[k], "header">>
  BY <1>0 DEF Stream, Receives, Sender, TypeOK
<1>2. 2 * i - 1 < 2 * j - 1
  BY <1>0
<1> QED BY <1>1, <1>2 DEF Stream, Ordered

\* What was queued before a received message was received before it, unless its write
\* failed.
LEMMA NoGap ==
  ASSUME Sender, Stream, NEW i \in DOMAIN Delivered,
         NEW n \in NotLost, pushed[n] = Delivered[i], n <= Taken,
         NEW k \in NotLost, k < n
  PROVE  \E j \in DOMAIN Delivered : j < i /\ Delivered[j] = pushed[k]
<1> DEFINE m == pushed[k]
<1>0. /\ i \in 1..Len(Delivered) /\ Len(Delivered) \in Nat
      /\ DOMAIN Delivered = 1..Len(Delivered)
  BY ConcatProperties DEF Sender, TypeOK, Delivered
<1>1. /\ k \in DOMAIN pushed /\ n \in DOMAIN pushed /\ k \in Int /\ n \in Int
      /\ Taken \in Int /\ m \in Messages /\ write[m] \notin {"failed", "lost"}
  BY DEF NotLost, Sender, TypeOK, Taken
<1>2. write[m] \notin {"none", "popped", "writing"}
  <2>1. m \notin InFlight
    BY <1>1 DEF Stream, OneInFlight
  <2>2. write[m] # "none"
    BY <1>1 DEF Sender, Writes
  <2> QED BY <1>1, <2>1, <2>2 DEF InFlight
<1>3. write[m] \in {"complete", "over"}
  BY <1>1, <1>2 DEF Sender, TypeOK
<1>4. sent[m] > 0
  BY <1>1, <1>3, FrameParts DEF Sender, TypeOK
<1>5. PICK p \in DOMAIN wire : wire[p] = <<m, "header">>
  BY <1>1, <1>4 DEF Stream, Whole
<1>6. /\ 2 * i - 1 \in DOMAIN wire /\ wire[2 * i - 1] = <<pushed[n], "header">>
      /\ DOMAIN wire = 1..Len(wire) /\ Len(wire) \in Nat /\ p \in Nat
  BY <1>0 DEF Stream, Receives, Sender, TypeOK
<1>7. p < 2 * i - 1
  <2>1. ~(2 * i - 1 < p)
    BY <1>1, <1>5, <1>6 DEF Stream, Ordered
  <2>2. p # 2 * i - 1
    <3>1. pushed[n] # pushed[k]
      BY <1>1 DEF Sender, Fifo
    <3> QED BY <1>5, <1>6, <3>1
  <2> QED BY <1>0, <1>6, <2>1, <2>2
<1>8. PICK j \in 1..i - 1 : p = 2 * j - 1 \/ p = 2 * j
  <2> DEFINE half == (p + 1) \div 2
  <2>1. half \in Nat /\ (p = 2 * half - 1 \/ p = 2 * half)
    BY <1>6
  <2>2. half \in 1..i - 1
    <3>1. p >= 1
      BY <1>6
    <3> HIDE DEF half
    <3> QED BY <1>0, <1>6, <1>7, <2>1, <3>1
  <2> QED BY <2>1, <2>2
<1>9. j \in DOMAIN Delivered /\ j < i
  BY <1>0
<1>10. p # 2 * j
  <2>1. wire[2 * j] = <<Delivered[j], "body">>
    BY <1>9 DEF Stream, Receives
  <2> QED BY <1>5, <2>1
<1>11. wire[2 * j - 1] = <<Delivered[j], "header">>
  BY <1>9 DEF Stream, Receives
<1> QED BY <1>5, <1>8, <1>9, <1>10, <1>11

\* As long as no two writes were in flight at once the receiver keeps the frame boundary,
\* and the i-th message it has is the i-th one queued among those whose write has not
\* failed (IConnectionHandler.hpp:56-91,131-170).
THEOREM ReceivedAsQueued == Spec => []DeliveredInOrder
<1>1. ASSUME IInv, ~overlapped
      PROVE  /\ reading # "garbled"
             /\ \A i \in DOMAIN Delivered : \E n \in NotLost :
                  Delivered[i] = pushed[n] /\ Cardinality({k \in NotLost : k <= n}) = i
  <2>0. Sender /\ Stream
    BY <1>1 DEF IInv
  <2>1. reading # "garbled"
    BY <2>0 DEF Stream, Receives
  <2>2. ASSUME NEW i \in DOMAIN Delivered
        PROVE  \E n \in NotLost : Delivered[i] = pushed[n] /\ Cardinality({k \in NotLost : k <= n}) = i
    <3>0. /\ i \in 1..Len(Delivered) /\ Len(Delivered) \in Nat
          /\ DOMAIN Delivered = 1..Len(Delivered)
      BY <2>0, ConcatProperties DEF Sender, TypeOK, Delivered
    <3> DEFINE place == [j \in 1..i |-> CHOOSE n \in NotLost : pushed[n] = Delivered[j] /\ n <= Taken]
               Before == {k \in NotLost : k <= place[i]}
    <3>1. \A j \in 1..i : place[j] \in NotLost /\ pushed[place[j]] = Delivered[j] /\ place[j] <= Taken
      <4>1. \A j \in 1..i : \E n \in NotLost : pushed[n] = Delivered[j] /\ n <= Taken
        BY <2>0, <3>0, ReceivedNotLost
      <4> QED BY <4>1
    <3> HIDE DEF place
    <3>2. \A n \in NotLost : n \in DOMAIN pushed /\ n \in Nat
      BY <2>0 DEF NotLost, Sender, TypeOK
    <3>3. \A j, l \in 1..i : j < l => place[j] < place[l]
      BY <2>0, <3>0, <3>1, <3>2, ReceivedInOrder
    <3>4. \A j \in 1..i : place[j] <= place[i]
      BY <3>0, <3>1, <3>2, <3>3
    <3>5. place \in [1..i -> Before]
      BY <3>1, <3>4 DEF place
    <3>6. \A j, l \in 1..i : place[j] = place[l] => j = l
      BY <3>0, <3>1, <3>2, <3>3
    <3>7. ASSUME NEW k \in Before
          PROVE  \E j \in 1..i : place[j] = k
      <4>1. CASE k = place[i]
        BY <3>0, <4>1
      <4>2. CASE k < place[i]
        <5>1. PICK j \in DOMAIN Delivered : j < i /\ Delivered[j] = pushed[k]
          BY <2>0, <3>0, <3>1, <4>2, NoGap
        <5>2. j \in 1..i /\ pushed[place[j]] = pushed[k]
          BY <3>0, <3>1, <5>1
        <5> QED BY <2>0, <3>1, <3>2, <5>2 DEF Sender, Fifo
      <4> QED BY <3>0, <3>1, <3>2, <4>1, <4>2
    <3>8. place \in Bijection(1..i, Before)
      BY <3>5, <3>6, <3>7, Fun_IsBij
    <3>9. Cardinality(Before) = i
      BY <3>0, <3>8, FS_CountingElements, Fun_ExistsBij
    <3>10. place[i] \in NotLost /\ Delivered[i] = pushed[place[i]]
      BY <3>0, <3>1
    <3> QED BY <3>9, <3>10
  <2> QED BY <2>1, <2>2
<1>2. IInv => DeliveredInOrder
  BY <1>1 DEF DeliveredInOrder
<1> QED BY <1>2, Invariant, PTL

-----------------------------------------------------------------------------
(* Nothing is left behind in the queue.                                    *)

\* The calls of PostOutgoingMessage that have queued a message and not posted yet.
Undispatched == {m \in Messages : call[m] = "pushed"}

\* Each queued message has a handler of its own, posted or about to be: however the
\* posts of SendMessageDone are counted, and whether or not writes overlap or fail, the
\* queue never needs another call to be emptied.
NothingStranded == Len(outQue) <= starts + Cardinality(Undispatched)

LEMMA UndispatchedFinite == Cardinality(Undispatched) \in Nat /\ IsFiniteSet(Undispatched)
<1>1. Undispatched \subseteq Messages
  BY DEF Undispatched
<1> QED BY <1>1, ConnectionAssumption, FS_Subset, FS_CardinalityType

LEMMA StrandedStep ==
  ASSUME TypeOK, TypeOK', NothingStranded, [Next]_vars
  PROVE  NothingStranded'
<1>0. /\ starts \in Nat /\ starts' \in Nat /\ Len(outQue) \in Nat
      /\ Cardinality(Undispatched) \in Nat /\ IsFiniteSet(Undispatched)
      /\ Cardinality(Undispatched') \in Nat
  <2>1. Undispatched' \subseteq Messages
    BY DEF Undispatched
  <2>2. Cardinality(Undispatched') \in Nat
    BY <2>1, ConnectionAssumption, FS_Subset, FS_CardinalityType
  <2> QED BY <2>2, UndispatchedFinite DEF TypeOK
<1>1. CASE UNCHANGED <<call, outQue>> /\ starts' >= starts
  <2>1. Undispatched' = Undispatched
    BY <1>1 DEF Undispatched
  <2> QED BY <1>0, <1>1, <2>1 DEF NothingStranded
<1>2. ASSUME NEW m \in Messages, PostThrows(m)
      PROVE  NothingStranded'
  <2>1. Undispatched' = Undispatched
    BY <1>2 DEF PostThrows, Undispatched, TypeOK
  <2> QED BY <1>2, <2>1 DEF PostThrows, NothingStranded
<1>3. ASSUME NEW m \in Messages, Push(m)
      PROVE  NothingStranded'
  <2>1. Undispatched' = Undispatched \cup {m} /\ m \notin Undispatched
    BY <1>3 DEF Push, Undispatched, TypeOK
  <2>2. Cardinality(Undispatched') = Cardinality(Undispatched) + 1
    BY <1>0, <2>1, FS_AddElement
  <2>3. Len(outQue') = Len(outQue) + 1
    BY <1>3 DEF Push, TypeOK
  <2> QED BY <1>0, <1>3, <2>2, <2>3 DEF Push, NothingStranded
<1>4. ASSUME NEW m \in Messages, Dispatch(m)
      PROVE  NothingStranded'
  <2>1. Undispatched' = Undispatched \ {m} /\ m \in Undispatched
    BY <1>4 DEF Dispatch, Undispatched, TypeOK
  <2>2. Cardinality(Undispatched') = Cardinality(Undispatched) - 1
    BY <1>0, <2>1, FS_RemoveElement
  <2> QED BY <1>0, <1>4, <2>2 DEF Dispatch, NothingStranded
<1>5. CASE StartIdle
  <2>1. Len(outQue') = 0
    BY <1>5 DEF StartIdle
  <2> QED BY <1>0, <2>1 DEF NothingStranded
<1>6. CASE StartPop
  <2>1. Len(outQue') = Len(outQue) - 1
    BY <1>6 DEF StartPop, TypeOK
  <2>2. Undispatched' = Undispatched
    BY <1>6 DEF StartPop, Undispatched
  <2> QED BY <1>0, <1>6, <2>1, <2>2 DEF StartPop, NothingStranded
<1> QED
  <2>1. \/ UNCHANGED <<call, outQue>> /\ starts' >= starts
        \/ \E m \in Messages : PostThrows(m) \/ Push(m) \/ Dispatch(m)
        \/ StartIdle \/ StartPop
    BY <1>0 DEF Next, SendStep, vars, sendVars, recvVars, Connect, Connected, Disconnect,
           StartWrite, WriteSome, WriteFails, WriteDone, ReadHeader, ReadBody, ReadFails,
           GetOneMessage
  <2> QED BY <1>1, <1>2, <1>3, <1>4, <1>5, <1>6, <2>1

\* No message waits in the queue without a SendMessageStart to take it
\* (IConnectionHandler.hpp:131-170): the safety half of OutgoingDrains.
THEOREM QueueIsServed == Spec => []NothingStranded
<1>1. Init => NothingStranded
  BY UndispatchedFinite DEF Init, NothingStranded
<1>2. NothingStranded /\ TypeOK /\ TypeOK' /\ [Next]_vars => NothingStranded'
  BY StrandedStep
<1> QED BY <1>1, <1>2, TypeCorrect, PTL DEF Spec

-----------------------------------------------------------------------------
(* The server that makes the connections.                                  *)
(*                                                                         *)
(* The chain of accepts is a token: it is an outstanding async_accept or a *)
(* thread inside StartApplication, and there is only one because only a    *)
(* Start that finds the acceptor closed creates it.                        *)

\* The token: before Start it does not exist, and an outstanding accept is one that
\* no thread inside StartApplication holds.
OneChain ==
  /\ acceptor = "closed" =>
       accepts = 0 /\ \A t \in Runners : thread[t] # "starting"
  /\ accepts = 1 => \A t \in Runners : thread[t] # "starting"

\* The owner in Join is in no handler, and it has stopped the io_context.
InJoin == ownersCall = "join" => stopped /\ thread[Owner] = "none"

ServerInv == ServerTypeOK /\ OneChain /\ SerialStart /\ InJoin /\ SafeToDestroy

LEMMA InitServer == ServerInit => ServerInv
<1> SUFFICES ASSUME ServerInit PROVE ServerInv
  OBVIOUS
<1>1. ServerTypeOK
  <2>1. thread \in [Runners -> {"none", "running", "starting", "exited"}]
    BY DEF ServerInit
  <2>2. client \in [Clients -> {"away", "backlog", "starting", "live", "gone"}]
    BY DEF ServerInit
  <2>3. stopped \in BOOLEAN /\ ended \in BOOLEAN /\ broken \in BOOLEAN /\ joined \in BOOLEAN
    BY DEF ServerInit
  <2>4. accepts \in 0..1
    BY DEF ServerInit
  <2> QED BY <2>1, <2>2, <2>3, <2>4, Zenon DEF ServerInit, ServerTypeOK
<1>2. \A t \in Runners : thread[t] = "none"
  BY DEF ServerInit
<1>3. Owner \in Runners
  BY DEF Runners
<1> QED BY <1>1, <1>2, <1>3 DEF ServerInit, ServerInv, OneChain, SerialStart, InJoin, SafeToDestroy

\* What the owner does, outside of any handler, keeps the token unique.
LEMMA OwnerServer ==
  ASSUME ServerInv, OwnerStep
  PROVE  ServerInv'
<1> USE ServerAssumption
    DEF ServerInv, ServerTypeOK, OneChain, SerialStart, InJoin, SafeToDestroy, Runners, OwnerFree
<1>1. CASE StartReturns
  BY <1>1 DEF StartReturns
<1>2. CASE StartThrows
  <2>1. CASE acceptor # "closed" /\ UNCHANGED <<acceptor, accepts, thread>>
    BY <1>2, <2>1 DEF StartThrows
  <2>2. CASE acceptor = "closed" /\ acceptor' \in {"closed", "half"} /\ UNCHANGED <<accepts, thread>>
    BY <1>2, <2>2 DEF StartThrows
  <2>3. CASE /\ acceptor = "closed" /\ acceptor' = "listening" /\ accepts' = accepts + 1
             /\ \E created \in SUBSET Threads \ {Threads} :
                  thread' = [t \in Runners |-> IF t \in created THEN "running" ELSE "none"]
    BY <1>2, <2>3 DEF StartThrows
  <2> QED BY <1>2, <2>1, <2>2, <2>3 DEF StartThrows
<1>3. CASE OwnerRuns
  BY <1>3 DEF OwnerRuns
<1>4. CASE JoinCall
  BY <1>4 DEF JoinCall
<1>5. CASE JoinReturn
  BY <1>5 DEF JoinReturn
<1> QED BY <1>1, <1>2, <1>3, <1>4, <1>5 DEF OwnerStep

\* What a thread does inside run() passes the token on or loses it.
LEMMA RunnerServer ==
  ASSUME ServerInv, NEW t \in Runners, RunnerStep(t)
  PROVE  ServerInv'
<1> USE ServerAssumption
    DEF ServerInv, ServerTypeOK, OneChain, SerialStart, InJoin, SafeToDestroy, Runners
<1>1. CASE HandleNewConnection(t)
  BY <1>1 DEF HandleNewConnection
<1>2. CASE AcceptFails(t)
  BY <1>2 DEF AcceptFails, StopIfIdle, Work
<1>3. CASE ApplicationStarted(t)
  BY <1>3 DEF ApplicationStarted
<1>4. CASE ApplicationThrows(t)
  BY <1>4 DEF ApplicationThrows, StopIfIdle, Work
<1>5. CASE RunReturns(t)
  BY <1>5 DEF RunReturns
<1> QED BY <1>1, <1>2, <1>3, <1>4, <1>5 DEF RunnerStep

LEMMA ClientServer ==
  ASSUME ServerInv, NEW c \in Clients, ClientConnects(c) \/ ClientLeaves(c)
  PROVE  ServerInv'
<1> USE DEF ServerInv, OneChain, SerialStart, InJoin, SafeToDestroy
<1>1. CASE ClientConnects(c)
  BY <1>1 DEF ServerTypeOK, ClientConnects
<1>2. CASE ClientLeaves(c)
  <2>1. stopped' \in BOOLEAN /\ (stopped => stopped')
    BY <1>2 DEF ServerTypeOK, ClientLeaves, StopIfIdle, Work
  <2>2. ServerTypeOK'
    BY <1>2, <2>1 DEF ServerTypeOK, ClientLeaves
  <2> QED BY <1>2, <2>1, <2>2 DEF ClientLeaves
<1> QED BY <1>1, <1>2

LEMMA ServerInvariant == ServerSpec => []ServerInv
<1>1. ServerInv /\ [ServerNext]_serverVars => ServerInv'
  <2> SUFFICES ASSUME ServerInv, [ServerNext]_serverVars PROVE ServerInv'
    OBVIOUS
  <2>1. CASE OwnerStep BY <2>1, OwnerServer
  <2>2. CASE \E t \in Runners : RunnerStep(t) BY <2>2, RunnerServer
  <2>3. CASE \E c \in Clients : ClientConnects(c) \/ ClientLeaves(c) BY <2>3, ClientServer
  <2>4. CASE UNCHANGED serverVars
    BY <2>4 DEF serverVars, ServerInv, ServerTypeOK, OneChain, SerialStart, InJoin, SafeToDestroy
  <2> QED BY <2>1, <2>2, <2>3, <2>4 DEF ServerNext
<1> QED BY InitServer, <1>1, PTL DEF ServerSpec

\* Two accepts are never outstanding at once, whatever calls of Start are made and
\* whatever fails (TCPServer.hpp:41-42).
THEOREM OneAccept == ServerSpec => []ServerTypeOK
BY ServerInvariant, PTL DEF ServerInv

\* With any number of threads, StartApplication runs for one client at a time
\* (TCPServer.hpp:70-77).
THEOREM StartsAreSerial == ServerSpec => []SerialStart
BY ServerInvariant, PTL DEF ServerInv

\* After Join has returned no thread is in a handler of the server, which may be
\* destroyed (TCPServer.hpp:16-31).
THEOREM JoinQuiesces == ServerSpec => []SafeToDestroy
BY ServerInvariant, PTL DEF ServerInv

\* The token is lost by errors only, and the thread that holds it starts a client.
ChainAlive ==
  acceptor = "listening" /\ ~broken => accepts = 1 \/ \E t \in Runners : thread[t] = "starting"

StartsAClient ==
  /\ (\E t \in Runners : thread[t] = "starting") <=> (\E c \in Clients : client[c] = "starting")
  /\ \A c, d \in Clients : client[c] = "starting" /\ client[d] = "starting" => c = d

LEMMA ChainStep ==
  ASSUME ServerInv, ServerInv', ChainAlive, StartsAClient, [ServerNext]_serverVars
  PROVE  ChainAlive' /\ StartsAClient'
<1> USE ServerAssumption DEF ServerInv, ServerTypeOK, ChainAlive, StartsAClient, Runners
<1>1. CASE StartReturns
  BY <1>1 DEF StartReturns, OneChain
<1>2. CASE StartThrows
  <2>1. CASE UNCHANGED thread
    BY <1>2, <2>1 DEF StartThrows
  <2>2. CASE acceptor = "closed" /\ acceptor' = "listening" /\ accepts' = accepts + 1
             /\ \A t \in Runners : thread'[t] # "starting"
    BY <1>2, <2>2 DEF StartThrows, OneChain
  <2> QED BY <1>2, <2>1, <2>2 DEF StartThrows
<1>3. CASE OwnerRuns
  BY <1>3 DEF OwnerRuns, OwnerFree
<1>4. CASE JoinCall \/ JoinReturn
  BY <1>4 DEF JoinCall, JoinReturn
<1>5. ASSUME NEW t \in Runners, HandleNewConnection(t)  PROVE ChainAlive' /\ StartsAClient'
  BY <1>5 DEF HandleNewConnection, OneChain
<1>6. ASSUME NEW t \in Runners, AcceptFails(t)  PROVE ChainAlive' /\ StartsAClient'
  BY <1>6 DEF AcceptFails
<1>7. ASSUME NEW t \in Runners, ApplicationStarted(t)  PROVE ChainAlive' /\ StartsAClient'
  BY <1>7 DEF ApplicationStarted, SerialStart
<1>8. ASSUME NEW t \in Runners, ApplicationThrows(t)  PROVE ChainAlive' /\ StartsAClient'
  BY <1>8 DEF ApplicationThrows, SerialStart
<1>9. ASSUME NEW t \in Runners, RunReturns(t)  PROVE ChainAlive' /\ StartsAClient'
  BY <1>9 DEF RunReturns
<1>10. ASSUME NEW c \in Clients, ClientConnects(c) \/ ClientLeaves(c)
       PROVE  ChainAlive' /\ StartsAClient'
  BY <1>10 DEF ClientConnects, ClientLeaves
<1>11. CASE UNCHANGED serverVars
  BY <1>11 DEF serverVars
<1> QED
  BY <1>1, <1>2, <1>3, <1>4, <1>5, <1>6, <1>7, <1>8, <1>9, <1>10, <1>11
  DEF ServerNext, OwnerStep, RunnerStep

\* As long as no error breaks the chain, a server that listens has an accept outstanding or
\* is starting the one client whose handler issues the next (TCPServer.hpp:68-82): the
\* safety half of ClientsServed.
THEOREM ChainIsKept == ServerSpec => [](ChainAlive /\ StartsAClient)
<1>1. ServerInit => ChainAlive /\ StartsAClient
  BY DEF ServerInit, ChainAlive, StartsAClient
<1>2. /\ ServerInv /\ ServerInv' /\ ChainAlive /\ StartsAClient /\ [ServerNext]_serverVars
      => (ChainAlive /\ StartsAClient)'
  BY ChainStep
<1> QED BY <1>1, <1>2, ServerInvariant, PTL DEF ServerSpec

\* The io_context of a listening server whose chain is whole never runs out of work: only
\* Join stops it (TCPServer.hpp:20-31,68-82).
StopsByJoinOnly ==
  [][acceptor = "listening" /\ ~broken' /\ stopped' => stopped \/ JoinCall]_serverVars

\* Without an error the threads of the server run handlers until the owner calls Join
\* (TCPServer.hpp:59-60).
THEOREM OnlyJoinStops == ServerSpec => StopsByJoinOnly
<1>1. ASSUME ServerInv, ChainAlive, ChainAlive', ServerNext,
             acceptor = "listening", ~broken', stopped', ~stopped
      PROVE  JoinCall
  <2>1. ~broken /\ acceptor' = "listening"
    BY <1>1 DEF ServerInv, ServerTypeOK, ServerNext, OwnerStep, RunnerStep, StartReturns,
       StartThrows, OwnerRuns, JoinCall, JoinReturn, HandleNewConnection, AcceptFails,
       ApplicationStarted, ApplicationThrows, RunReturns, ClientConnects, ClientLeaves
  <2>2. Work /\ Work'
    BY <1>1, <2>1 DEF ChainAlive, Work
  <2>3. ~StopIfIdle
    BY <1>1, <2>2, Zenon DEF StopIfIdle
  <2>4. ~OwnerRuns
    BY <1>1, <2>2, Zenon DEF OwnerRuns
  <2> QED
    BY <1>1, <2>3, <2>4 DEF ServerNext, OwnerStep, RunnerStep, StartReturns, StartThrows,
       JoinReturn, HandleNewConnection, AcceptFails, ApplicationStarted, ApplicationThrows,
       RunReturns, ClientConnects, ClientLeaves
<1>2. ServerInv /\ ChainAlive /\ ChainAlive' /\ [ServerNext]_serverVars
      => [acceptor = "listening" /\ ~broken' /\ stopped' => stopped \/ JoinCall]_serverVars
  BY <1>1
<1> QED BY <1>2, ServerInvariant, ChainIsKept, PTL DEF ServerSpec, StopsByJoinOnly
=============================================================================
