----------------------------- MODULE Connection -----------------------------
(***************************************************************************)
(* interprocess::IConnectionHandler: messages from one handler to its peer *)
(* over one TCP connection.                                                *)
(*                                                                         *)
(* The sending handler frames a message with a header of its length,       *)
(* queues it and posts SendMessageStart to an io_context that NumThreads   *)
(* threads run; each SendMessageStart takes one message and starts an      *)
(* asynchronous write of it.  The receiving handler reads a header, then a *)
(* body of the length the header announces, and so on.                     *)
(*                                                                         *)
(* On the wire a frame is its header followed by its body (none if the     *)
(* message is empty).  A write operation puts its frame on the wire piece  *)
(* by piece, as the kernel takes them, and several operations on a socket  *)
(* take turns: that is how asynchronous writes behave (external).          *)
(***************************************************************************)
EXTENDS Naturals, Sequences, FiniteSets

CONSTANTS Messages, NumThreads, SizeChoices

\* What the code tells apart about the length of a message: no body; a body that
\* fits the peer's buffer of 512 bytes; a longer one; one whose length has more
\* digits than the header.
Sizes == {"empty", "fits", "long", "huge"}

\* SizeChoices: which sizes the messages may have, as functions of the message.
ASSUME ConnectionAssumption ==
  /\ IsFiniteSet(Messages)
  /\ NumThreads \in Nat \ {0}
  /\ SizeChoices \subseteq [Messages -> Sizes]

VARIABLES
  size,     \* the size of each message
  call,     \* how far the call of PostOutgoingMessage for each message is
  outQue,   \* outMessageQue_
  starts,   \* how many SendMessageStart handlers the io_context holds
  write,    \* the write operation of each message
  sent,     \* how many pieces of its frame each write has put on the wire
  socket,   \* the connection
  wire,     \* the byte stream: the pieces written, in order
  consumed, \* how many of them the receiver has read
  reading,  \* what the receiver's outstanding read is for
  awaited,  \* the message whose header was read last
  inQue,    \* the receiver's inMessageQue_
  \* What follows only records the past.
  pushed,   \* the messages queued for sending, in order
  got,      \* the messages GetOneMessage has returned, in order
  overlapped \* two writes have been in flight at the same time

sendVars == <<call, outQue, starts, write, sent, pushed, overlapped>>
recvVars == <<consumed, reading, awaited, inQue, got>>
vars == <<size, sendVars, socket, wire, recvVars>>

Init ==
  /\ size \in SizeChoices
  /\ call = [m \in Messages |-> "none"]
  /\ outQue = <<>>
  /\ starts = 0
  /\ write = [m \in Messages |-> "none"]
  /\ sent = [m \in Messages |-> 0]
  /\ socket = "unconnected"
  /\ wire = <<>> /\ consumed = 0
  /\ reading = "none" /\ awaited = "none"
  /\ inQue = <<>>
  /\ pushed = <<>> /\ got = <<>> /\ overlapped = FALSE

\* WrapWithHeader: the header, then the message.
Frame(m) == IF size[m] = "empty" THEN <<"header">> ELSE <<"header", "body">>

InFlight == {m \in Messages : write[m] \in {"popped", "writing"}}

\* A thread of the io_context is inside SendMessageStart between taking a message
\* and starting the write; any other handler needs another thread.
ThreadFree == Cardinality({m \in Messages : write[m] = "popped"}) < NumThreads

-----------------------------------------------------------------------------
(* The connection.                                                         *)

\* Connect throws on a socket that is open.
Connect ==
  /\ socket = "unconnected"
  /\ socket' = "connecting"
  /\ UNCHANGED <<size, sendVars, wire, recvVars>>

\* Both ends run StartApplication, which posts the receiver's first read.
Connected ==
  /\ socket = "connecting"
  /\ socket' = "open"
  /\ reading' = "header"
  /\ UNCHANGED <<size, sendVars, wire, consumed, awaited, inQue, got>>

\* Close at either end, a connect error, or a connection that breaks.
Disconnect ==
  /\ socket \in {"connecting", "open"}
  /\ socket' = "closed"
  /\ UNCHANGED <<size, sendVars, wire, recvVars>>

-----------------------------------------------------------------------------
(* The sending handler.                                                    *)

\* A length of more than four digits makes the count of spaces wrap around, and
\* building the header throws before the message is queued.
PostThrows(m) ==
  /\ call[m] = "none"
  /\ size[m] = "huge"
  /\ call' = [call EXCEPT ![m] = "threw"]
  /\ UNCHANGED <<size, outQue, starts, write, sent, pushed, overlapped, socket, wire, recvVars>>

\* PostOutgoingMessage queues the framed message under the lock ...
Push(m) ==
  /\ call[m] = "none"
  /\ size[m] # "huge"
  /\ call' = [call EXCEPT ![m] = "pushed"]
  /\ outQue' = Append(outQue, m)
  /\ pushed' = Append(pushed, m)
  /\ UNCHANGED <<size, starts, write, sent, overlapped, socket, wire, recvVars>>

\* Only a call that finds the queue empty posts a handler.
BugDispatchOnce(m) ==
  /\ call[m] = "pushed"
  /\ call' = [call EXCEPT ![m] = "posted"]
  /\ starts' = IF Len(outQue) = 1 THEN starts + 1 ELSE starts
  /\ UNCHANGED <<size, outQue, write, sent, pushed, overlapped, socket, wire, recvVars>>

\* ... and posts a handler after releasing it.
Dispatch(m) ==
  /\ call[m] = "pushed"
  /\ call' = [call EXCEPT ![m] = "posted"]
  /\ starts' = starts + 1
  /\ UNCHANGED <<size, outQue, write, sent, pushed, overlapped, socket, wire, recvVars>>

\* SendMessageStart finds nothing to send.
StartIdle ==
  /\ starts > 0 /\ ThreadFree
  /\ outQue = <<>>
  /\ starts' = starts - 1
  /\ UNCHANGED <<size, call, outQue, write, sent, pushed, overlapped, socket, wire, recvVars>>

\* The queue used as a stack.
BugStartTakesLast ==
  /\ starts > 0 /\ ThreadFree
  /\ outQue # <<>>
  /\ starts' = starts - 1
  /\ write' = [write EXCEPT ![outQue[Len(outQue)]] = "popped"]
  /\ outQue' = SubSeq(outQue, 1, Len(outQue) - 1)
  /\ overlapped' = (overlapped \/ InFlight # {})
  /\ UNCHANGED <<size, call, sent, pushed, socket, wire, recvVars>>

\* SendMessageStart takes the first message, under the lock ...
StartPop ==
  /\ starts > 0 /\ ThreadFree
  /\ outQue # <<>>
  /\ starts' = starts - 1
  /\ write' = [write EXCEPT ![Head(outQue)] = "popped"]
  /\ outQue' = Tail(outQue)
  /\ overlapped' = (overlapped \/ InFlight # {})
  /\ UNCHANGED <<size, call, sent, pushed, socket, wire, recvVars>>

\* ... and starts to write it after releasing the lock, whatever other writes
\* are in flight.  Without an open connection the operation fails.
StartWrite(m) ==
  /\ write[m] = "popped"
  /\ write' = [write EXCEPT ![m] = IF socket = "open" THEN "writing" ELSE "failed"]
  /\ UNCHANGED <<size, call, outQue, starts, sent, pushed, overlapped, socket, wire, recvVars>>

\* A write that is over when the kernel took the first piece.
BugShortWrite(m) ==
  /\ write[m] = "writing" /\ socket = "open"
  /\ wire' = Append(wire, <<m, Frame(m)[sent[m] + 1]>>)
  /\ sent' = [sent EXCEPT ![m] = @ + 1]
  /\ write' = [write EXCEPT ![m] = "complete"]
  /\ UNCHANGED <<size, call, outQue, starts, pushed, overlapped, socket, recvVars>>

\* The kernel takes the next piece of a frame.
WriteSome(m) ==
  /\ write[m] = "writing" /\ socket = "open"
  /\ wire' = Append(wire, <<m, Frame(m)[sent[m] + 1]>>)
  /\ sent' = [sent EXCEPT ![m] = @ + 1]
  /\ write' = [write EXCEPT ![m] = IF sent'[m] = Len(Frame(m)) THEN "complete" ELSE "writing"]
  /\ UNCHANGED <<size, call, outQue, starts, pushed, overlapped, socket, recvVars>>

WriteFails(m) ==
  /\ write[m] = "writing" /\ socket = "closed"
  /\ write' = [write EXCEPT ![m] = "failed"]
  /\ UNCHANGED <<size, call, outQue, starts, sent, pushed, overlapped, socket, wire, recvVars>>

\* SendMessageDone posts another SendMessageStart if there is more to send; after
\* an error the handler returns at once.
WriteDone(m) ==
  /\ write[m] \in {"complete", "failed"} /\ ThreadFree
  /\ starts' = IF write[m] = "complete" /\ outQue # <<>> THEN starts + 1 ELSE starts
  /\ write' = [write EXCEPT ![m] = IF @ = "complete" THEN "over" ELSE "lost"]
  /\ UNCHANGED <<size, call, outQue, sent, pushed, overlapped, socket, wire, recvVars>>

SendStep ==
  \/ StartIdle
  \/ StartPop
  \/ \E m \in Messages :
       Dispatch(m) \/ StartWrite(m) \/ WriteSome(m) \/ WriteFails(m) \/ WriteDone(m)

-----------------------------------------------------------------------------
(* The receiving handler.                                                  *)

NextPiece == wire[consumed + 1]

\* What the header makes the receiver do: give up on an empty message, throw out
\* of the handler on one that is longer than the buffer, or read the body.  If
\* the piece is no header its bytes announce anything: "garbled" stands for
\* whatever follows.
AfterHeader ==
  IF NextPiece[2] # "header" THEN "garbled"
  ELSE IF size[NextPiece[1]] = "empty" THEN "stopped"
  ELSE IF size[NextPiece[1]] = "long" THEN "crashed"
  ELSE "body"

ReadHeader ==
  /\ reading = "header"
  /\ consumed < Len(wire)
  /\ consumed' = consumed + 1
  /\ reading' = AfterHeader
  /\ awaited' = NextPiece[1]
  /\ UNCHANGED <<size, sendVars, socket, wire, inQue, got>>

\* Nobody posts the read of the next header.
BugReadOnce ==
  /\ reading = "body"
  /\ consumed < Len(wire)
  /\ consumed' = consumed + 1
  /\ inQue' = Append(inQue, awaited)
  /\ reading' = "none"
  /\ UNCHANGED <<size, sendVars, socket, wire, awaited, got>>

\* QueueReceivedMessage, which posts the read of the next header.  Bytes of other
\* frames in the body garble the message and the position in the stream.
ReadBody ==
  /\ reading = "body"
  /\ consumed < Len(wire)
  /\ consumed' = consumed + 1
  /\ IF NextPiece = <<awaited, "body">>
       THEN inQue' = Append(inQue, awaited) /\ reading' = "header"
       ELSE inQue' = inQue /\ reading' = "garbled"
  /\ UNCHANGED <<size, sendVars, socket, wire, awaited, got>>

\* A read error ends the loop.
ReadFails ==
  /\ reading \in {"header", "body"}
  /\ socket = "closed"
  /\ reading' = "stopped"
  /\ UNCHANGED <<size, sendVars, socket, wire, consumed, awaited, inQue, got>>

\* ThreadSafe: the received message at the front is taken off the queue.
GetOneMessage ==
  /\ inQue # <<>>
  /\ got' = Append(got, Head(inQue))
  /\ inQue' = Tail(inQue)
  /\ UNCHANGED <<size, sendVars, socket, wire, consumed, reading, awaited>>

-----------------------------------------------------------------------------
Next ==
  \/ Connect
  \/ Connected
  \/ Disconnect
  \/ \E m \in Messages : PostThrows(m) \/ Push(m)
  \/ SendStep
  \/ ReadHeader
  \/ ReadBody
  \/ ReadFails
  \/ GetOneMessage

Spec == Init /\ [][Next]_vars

\* The io_contexts are run: every handler that is ready is run some day, every
\* write that can go on does, and what is on the wire arrives.  Nobody has to
\* connect, to send, or to take a received message.
Fairness ==
  /\ WF_vars(StartIdle \/ StartPop)
  /\ \A m \in Messages : WF_vars(Dispatch(m) \/ StartWrite(m) \/ WriteSome(m)
                                 \/ WriteFails(m) \/ WriteDone(m))
  /\ WF_vars(ReadHeader \/ ReadBody)

FairSpec == Spec /\ Fairness

-----------------------------------------------------------------------------
(* Properties.                                                             *)

\* Every variable has its type, and a write is complete when its whole frame is
\* on the wire.
TypeOK ==
  /\ size \in [Messages -> Sizes]
  /\ call \in [Messages -> {"none", "threw", "pushed", "posted"}]
  /\ outQue \in Seq(Messages) /\ inQue \in Seq(Messages)
  /\ starts \in Nat
  /\ write \in [Messages -> {"none", "popped", "writing", "complete", "failed", "over", "lost"}]
  /\ \A m \in Messages : write[m] \in {"complete", "over"} => sent[m] = Len(Frame(m))
  /\ sent \in [Messages -> 0..2]
  /\ socket \in {"unconnected", "connecting", "open", "closed"}
  /\ wire \in Seq(Messages \X {"header", "body"})
  /\ consumed \in 0..Len(wire)
  /\ reading \in {"none", "header", "body", "stopped", "crashed", "garbled"}
  /\ awaited \in Messages \union {"none"}
  /\ pushed \in Seq(Messages) /\ got \in Seq(Messages)
  /\ overlapped \in BOOLEAN

Delivered == got \o inQue

\* The places in the order of queueing of the messages whose write has not failed.
NotLost == {n \in DOMAIN pushed : write[pushed[n]] \notin {"failed", "lost"}}

\* As long as no two writes were in flight at once, what the receiver has is what
\* was queued for sending, in order and with no gap but the messages whose write
\* failed (those sent before the connection was open among them), and it never
\* loses the frame boundary.  So the i-th message received is the i-th one of them.
DeliveredInOrder ==
  ~overlapped =>
    /\ reading # "garbled"
    /\ \A i \in DOMAIN Delivered : \E n \in NotLost :
         Delivered[i] = pushed[n] /\ Cardinality({k \in NotLost : k <= n}) = i

\* The queue of outgoing messages drains, connected or not.
OutgoingDrains == \A m \in Messages : call[m] = "posted" ~> write[m] # "none"

\* What was written to a live connection arrives, unless writes overlapped, the
\* connection broke, or a message that ends the receive loop was before it.
WrittenArrives ==
  \A m \in Messages :
    write[m] = "complete" ~>
      \/ \E i \in 1..Len(Delivered) : Delivered[i] = m
      \/ overlapped
      \/ reading \in {"stopped", "crashed"}
      \/ socket = "closed"
=============================================================================
