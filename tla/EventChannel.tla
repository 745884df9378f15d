---------------------------- MODULE EventChannel ----------------------------
(***************************************************************************)
(* events::EventChannel with the EventEmitters and EventConsumers that     *)
(* applications register in it under string keys.                          *)
(*                                                                         *)
(* A channel holds weak pointers: the application owns the objects and may *)
(* release them at any time.  What the channel builds is in the emitters:  *)
(* the slots of each one's boost::signals2::signal.  Channels can be       *)
(* copied and moved, and the copies wire the same objects.                 *)
(*                                                                         *)
(* An emission calls the slots one after the other, and the subscribers it *)
(* calls may use the channels, or release objects, before the next call.   *)
(* The operations are synchronous and not locked: one thread runs them.    *)
(*                                                                         *)
(* Empty keys and null pointers are refused without any effect and are not *)
(* among the inputs.                                                       *)
(***************************************************************************)
EXTENDS Naturals, Sequences, FiniteSets, Functions

CONSTANTS Channels, Emitters, Consumers, EmitterKeys, NumConsumerKeys,
          Signature, MaxSlots, None

\* Keys of consumers stand in their lexicographic order.
ConsumerKeys == 1..NumConsumerKeys

\* Signature[x]: the function type T of an EventEmitter<T> or EventConsumer<T>.
\* MaxSlots bounds the connections made to one emitter.
ASSUME ChannelAssumption ==
  /\ NumConsumerKeys \in Nat
  /\ MaxSlots \in Nat
  /\ DOMAIN Signature = Emitters \cup Consumers
  /\ None \notin Emitters \cup Consumers

VARIABLES
  emitterMap,  \* emitterMap_ of each channel
  consumerMap, \* consumerMap_ of each channel
  slots,       \* the slots of each emitter's signal, in the order of connection
  live,        \* the objects whose owner has not released them
  emission     \* the emission that is going on, or None

maps == <<emitterMap, consumerMap>>
vars == <<maps, slots, live, emission>>

NoEmitters == [k \in EmitterKeys |-> None]
NoConsumers == [nk \in ConsumerKeys \X EmitterKeys |-> None]

Init ==
  /\ emitterMap = [ch \in Channels |-> NoEmitters]
  /\ consumerMap = [ch \in Channels |-> NoConsumers]
  /\ slots = [e \in Emitters |-> <<>>]
  /\ live = Emitters \cup Consumers
  /\ emission = None

IsEmitterRegistered(ch, k) == emitterMap[ch][k] # None
IsConsumerRegistered(ch, n, k) == consumerMap[ch][<<n, k>>] # None

\* Some channel has both under keys that belong together.
Subscribed(e, c) ==
  \E ch \in Channels, n \in ConsumerKeys, k \in EmitterKeys :
    /\ emitterMap[ch][k] = e
    /\ consumerMap[ch][<<n, k>>] = c

-----------------------------------------------------------------------------
(* Registration.                                                           *)

\* EventEmitter::Connect takes only consumers of its own signature; it throws for
\* any other.
BugAcceptsAny(e, c) == TRUE

Accepts(e, c) == Signature[e] = Signature[c]

\* The keys of the consumers, not expired, that wait for an emitter under key k.
Waiting(ch, k) == {n \in ConsumerKeys : consumerMap[ch][<<n, k>>] \in live}

\* The sequence that lists a set of keys as an iteration over the map does.
InKeyOrder(keys) ==
  {s \in [1..Cardinality(keys) -> keys] :
     /\ Range(s) = keys
     /\ \A i, j \in DOMAIN s : i < j => s[i] < s[j]}

\* RegisterEmitter connects every waiting consumer, then enters the emitter.
BugRegisterEmitterAlone(ch, k, e) ==
  /\ e \in live
  /\ ~IsEmitterRegistered(ch, k)
  /\ emitterMap' = [emitterMap EXCEPT ![ch][k] = e]
  /\ UNCHANGED <<consumerMap, slots, live, emission>>

RegisterEmitter(ch, k, e) ==
  /\ e \in live
  /\ ~IsEmitterRegistered(ch, k)
  /\ \E order \in InKeyOrder(Waiting(ch, k)) :
       LET waiting == [i \in DOMAIN order |-> consumerMap[ch][<<order[i], k>>]] IN
       /\ \A i \in DOMAIN waiting : Accepts(e, waiting[i])
       /\ Len(slots[e]) + Len(waiting) <= MaxSlots
       /\ slots' = [slots EXCEPT ![e] = @ \o waiting]
  /\ emitterMap' = [emitterMap EXCEPT ![ch][k] = e]
  /\ UNCHANGED <<consumerMap, live, emission>>

\* If one of them has another signature, Connect throws out of RegisterEmitter: the
\* emitter is not entered, and the consumers before that one stay connected.
RegisterEmitterThrows(ch, k, e) ==
  /\ e \in live
  /\ ~IsEmitterRegistered(ch, k)
  /\ \E order \in InKeyOrder(Waiting(ch, k)) :
       LET waiting == [i \in DOMAIN order |-> consumerMap[ch][<<order[i], k>>]] IN
       \E i \in DOMAIN waiting :
         /\ ~Accepts(e, waiting[i])
         /\ \A j \in 1..(i - 1) : Accepts(e, waiting[j])
         /\ Len(slots[e]) + i - 1 <= MaxSlots
         /\ slots' = [slots EXCEPT ![e] = @ \o SubSeq(waiting, 1, i - 1)]
  /\ UNCHANGED <<maps, live, emission>>

\* The keys of an object that has been released stay registered.
UnregisterEmitter(ch, k) ==
  /\ IsEmitterRegistered(ch, k)
  /\ emitterMap' = [emitterMap EXCEPT ![ch][k] = None]
  /\ UNCHANGED <<consumerMap, slots, live, emission>>

\* RegisterConsumer connects the consumer if the emitter is there and not expired,
\* and throws, with no effect, if that emitter does not accept it.
BugRegisterConsumerAlone(ch, n, k, c) ==
  /\ c \in live
  /\ ~IsConsumerRegistered(ch, n, k)
  /\ consumerMap' = [consumerMap EXCEPT ![ch][<<n, k>>] = c]
  /\ UNCHANGED <<emitterMap, slots, live, emission>>

RegisterConsumer(ch, n, k, c) ==
  /\ c \in live
  /\ ~IsConsumerRegistered(ch, n, k)
  /\ LET e == emitterMap[ch][k] IN
     IF e \in live
     THEN /\ Accepts(e, c)
          /\ Len(slots[e]) < MaxSlots
          /\ slots' = [slots EXCEPT ![e] = Append(@, c)]
     ELSE UNCHANGED slots
  /\ consumerMap' = [consumerMap EXCEPT ![ch][<<n, k>>] = c]
  /\ UNCHANGED <<emitterMap, live, emission>>

\* The entry goes; the slot it led to does not.
UnregisterConsumer(ch, n, k) ==
  /\ IsConsumerRegistered(ch, n, k)
  /\ consumerMap' = [consumerMap EXCEPT ![ch][<<n, k>>] = None]
  /\ UNCHANGED <<emitterMap, slots, live, emission>>

-----------------------------------------------------------------------------
(* Channels as values, and the lives of the registered objects.            *)

CopyChannel(from, to) ==
  /\ from # to
  /\ emitterMap' = [emitterMap EXCEPT ![to] = emitterMap[from]]
  /\ consumerMap' = [consumerMap EXCEPT ![to] = consumerMap[from]]
  /\ UNCHANGED <<slots, live, emission>>

\* The moved-from maps are empty.
MoveChannel(from, to) ==
  /\ from # to
  /\ emitterMap' = [emitterMap EXCEPT ![to] = emitterMap[from], ![from] = NoEmitters]
  /\ consumerMap' = [consumerMap EXCEPT ![to] = consumerMap[from], ![from] = NoConsumers]
  /\ UNCHANGED <<slots, live, emission>>

\* The signal, and its slots, go with the emitter.  The application does not release
\* an emitter whose signal it is calling.
ReleaseEmitter(e) ==
  /\ e \in live
  /\ emission # None => emission.emitter # e
  /\ live' = live \ {e}
  /\ slots' = [slots EXCEPT ![e] = <<>>]
  /\ UNCHANGED <<maps, emission>>

\* The slots of a released consumer stay until the signal meets them.
ReleaseConsumer(c) ==
  /\ c \in live
  /\ live' = live \ {c}
  /\ UNCHANGED <<maps, slots, emission>>

-----------------------------------------------------------------------------
(* Emission: the signal calls the slots connected when it starts.          *)

\* owed and called only record: the consumers registered for the emitter when the
\* emission started, and those called since.
Emit(e) ==
  /\ emission = None
  /\ e \in live
  /\ slots[e] # <<>>
  /\ emission' = [emitter |-> e, todo |-> slots[e],
                  owed |-> {c \in live \cap Consumers : Subscribed(e, c)}, called |-> {}]
  /\ UNCHANGED <<maps, slots, live>>

\* track_foreign: a slot whose consumer is gone is passed over.
BugCallUntracked ==
  /\ emission # None
  /\ emission.todo # <<>>
  /\ emission' = [emission EXCEPT !.todo = Tail(@), !.called = @ \cup {Head(emission.todo)}]
  /\ UNCHANGED <<maps, slots, live>>

CallNext ==
  /\ emission # None
  /\ emission.todo # <<>>
  /\ LET c == Head(emission.todo) IN
     emission' = [emission EXCEPT !.todo = Tail(@),
                                  !.called = IF c \in live THEN @ \cup {c} ELSE @]
  /\ UNCHANGED <<maps, slots, live>>

\* A subscriber's exception goes through the signal to the emitter's caller; the
\* slots after it are not called.
SubscriberThrows ==
  /\ emission # None
  /\ emission.todo # <<>> /\ Head(emission.todo) \in live
  /\ emission' = None
  /\ UNCHANGED <<maps, slots, live>>

EmitDone ==
  /\ emission # None
  /\ emission.todo = <<>>
  /\ emission' = None
  /\ UNCHANGED <<maps, slots, live>>

ChannelStep(ch) ==
  \/ \E k \in EmitterKeys :
       \/ \E e \in Emitters : RegisterEmitter(ch, k, e) \/ RegisterEmitterThrows(ch, k, e)
       \/ UnregisterEmitter(ch, k)
       \/ \E n \in ConsumerKeys :
            \/ \E c \in Consumers : RegisterConsumer(ch, n, k, c)
            \/ UnregisterConsumer(ch, n, k)
  \/ \E to \in Channels : CopyChannel(ch, to) \/ MoveChannel(ch, to)

EmitterStep(e) == ReleaseEmitter(e) \/ Emit(e)

Next ==
  \/ \E ch \in Channels : ChannelStep(ch)
  \/ \E e \in Emitters : EmitterStep(e)
  \/ \E c \in Consumers : ReleaseConsumer(c)
  \/ CallNext \/ SubscriberThrows \/ EmitDone

Spec == Init /\ [][Next]_vars

-----------------------------------------------------------------------------
(* Properties.                                                             *)

Emissions ==
  [emitter : Emitters, todo : Seq(Consumers), owed : SUBSET Consumers, called : SUBSET Consumers]

\* Types; and the slots of a signal take its arguments: Connect let in no consumer
\* of another signature (EventEmitter.hpp:15-17).
TypeOK ==
  /\ emitterMap \in [Channels -> [EmitterKeys -> Emitters \cup {None}]]
  /\ consumerMap \in [Channels -> [ConsumerKeys \X EmitterKeys -> Consumers \cup {None}]]
  /\ slots \in [Emitters -> Seq(Consumers)]
  /\ live \subseteq Emitters \cup Consumers
  /\ emission \in Emissions \cup {None}
  /\ \A e \in Emitters : \A i \in DOMAIN slots[e] : Signature[slots[e][i]] = Signature[e]

\* Whichever was registered first, whatever was copied, moved, released or has
\* thrown in between: an emitter and a consumer that some channel holds under keys
\* that belong together are connected while both live (EventChannel.cpp:35-43,71-82).
Wired ==
  \A e \in Emitters \cap live, c \in Consumers \cap live :
    Subscribed(e, c) => c \in Range(slots[e])

\* An emission that runs to its end has called every consumer that was registered
\* for the emitter when it started, unless that consumer was released meanwhile,
\* whatever the subscribers it called did to the channels.
EveryRegisteredHears ==
  [][EmitDone => emission.owed \cap live \subseteq emission.called]_vars

\* No subscriber is called after its consumer was released, even when that happens
\* during the emission (EventEmitter.hpp:19, track_foreign).
NoCallAfterRelease ==
  [][emission # None /\ emission' # None
       => emission'.called \ emission.called \subseteq live]_vars
=============================================================================
