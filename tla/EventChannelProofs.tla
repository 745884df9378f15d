------------------------- MODULE EventChannelProofs -------------------------
(***************************************************************************)
(* Theorems about the event channel for every number of channels, objects, *)
(* keys and slots.                                                         *)
(***************************************************************************)
EXTENDS EventChannel, TLAPS, FiniteSetTheorems, SequenceTheorems

-----------------------------------------------------------------------------
(* The inductive invariant.                                                *)

\* A consumer that an emission owes a call, and that nobody has released, was called
\* or is among the slots still to be called.
Coming ==
  emission # None =>
    emission.owed \cap live \subseteq emission.called \cup Range(emission.todo)

IInv == TypeOK /\ Wired /\ Coming

-----------------------------------------------------------------------------
(* Lists of slots.                                                         *)

\* A function on an initial interval of the naturals is a sequence.
LEMMA IntervalIsSeq ==
  ASSUME NEW n \in Nat, NEW S, NEW f \in [1..n -> S]
  PROVE  f \in Seq(S)
<1>1. \A i \in 1..n : f[i] \in S
  OBVIOUS
<1>2. [i \in 1..n |-> f[i]] \in Seq(S)
  BY <1>1
<1> QED BY <1>2

\* An iteration over the waiting consumers lists each of them.
LEMMA WaitingList ==
  ASSUME TypeOK, NEW ch \in Channels, NEW k \in EmitterKeys,
         NEW order \in InKeyOrder(Waiting(ch, k)), NEW waiting,
         waiting = [i \in DOMAIN order |-> consumerMap[ch][<<order[i], k>>]]
  PROVE  /\ waiting \in Seq(Consumers)
         /\ \A n \in Waiting(ch, k) : consumerMap[ch][<<n, k>>] \in Range(waiting)
<1>1. Waiting(ch, k) \subseteq ConsumerKeys /\ IsFiniteSet(ConsumerKeys)
  BY ChannelAssumption, FS_Interval DEF Waiting, ConsumerKeys
<1>2. Cardinality(Waiting(ch, k)) \in Nat
  BY <1>1, FS_Subset, FS_CardinalityType
<1>3. /\ DOMAIN order = 1..Cardinality(Waiting(ch, k))
      /\ \A i \in DOMAIN order : order[i] \in Waiting(ch, k)
      /\ Range(order) = Waiting(ch, k)
  BY DEF InKeyOrder
<1>4. \A n \in Waiting(ch, k) : consumerMap[ch][<<n, k>>] \in Consumers
  BY ChannelAssumption DEF Waiting, TypeOK
<1>5. waiting \in [1..Cardinality(Waiting(ch, k)) -> Consumers]
  BY <1>3, <1>4
<1>6. waiting \in Seq(Consumers)
  BY <1>2, <1>5, IntervalIsSeq
<1>7. ASSUME NEW n \in Waiting(ch, k)
      PROVE  consumerMap[ch][<<n, k>>] \in Range(waiting)
  <2>1. PICK i \in DOMAIN order : order[i] = n
    BY <1>3 DEF Range
  <2>2. waiting[i] = consumerMap[ch][<<n, k>>] /\ i \in DOMAIN waiting
    BY <2>1
  <2> QED BY <2>2 DEF Range
<1> QED BY <1>3, <1>6, <1>7

\* Consumers of an emitter's signature, connected behind its other slots.
LEMMA Connected ==
  ASSUME TypeOK, NEW e \in Emitters, NEW s \in Seq(Consumers),
         \A i \in DOMAIN s : Signature[s[i]] = Signature[e],
         slots' = [slots EXCEPT ![e] = @ \o s]
  PROVE  /\ slots' \in [Emitters -> Seq(Consumers)]
         /\ \A x \in Emitters : \A i \in DOMAIN slots'[x] : Signature[slots'[x][i]] = Signature[x]
         /\ \A x \in Emitters : Range(slots[x]) \subseteq Range(slots'[x])
         /\ Range(s) \subseteq Range(slots'[e])
<1>1. slots[e] \in Seq(Consumers)
  BY DEF TypeOK
<1>2. slots[e] \o s \in Seq(Consumers) /\ slots'[e] = slots[e] \o s
  BY <1>1, ConcatProperties DEF TypeOK
<1>3. \A x \in Emitters : x # e => slots'[x] = slots[x]
  BY DEF TypeOK
<1>4. Range(slots'[e]) = Range(slots[e]) \cup Range(s)
  <2>1. Range(slots[e] \o s) = Range(slots[e]) \cup Range(s)
    BY <1>1, RangeConcatenation
  <2> QED BY <1>2, <2>1
<1>5. ASSUME NEW i \in DOMAIN slots'[e]  PROVE Signature[slots'[e][i]] = Signature[e]
  <2>1. slots'[e][i] \in Range(slots[e]) \cup Range(s)
    BY <1>4 DEF Range
  <2> QED BY <2>1 DEF Range, TypeOK
<1>6. slots' \in [Emitters -> Seq(Consumers)]
  BY <1>2 DEF TypeOK
<1> QED BY <1>3, <1>4, <1>5, <1>6 DEF TypeOK

-----------------------------------------------------------------------------
(* The steps keep the types and the connections.                           *)

LEMMA RegisterEmitterKeeps ==
  ASSUME TypeOK, Wired, NEW ch \in Channels, NEW k \in EmitterKeys, NEW e \in Emitters,
         RegisterEmitter(ch, k, e)
  PROVE  TypeOK' /\ Wired'
<1>1. PICK order \in InKeyOrder(Waiting(ch, k)) :
        LET waiting == [i \in DOMAIN order |-> consumerMap[ch][<<order[i], k>>]]
        IN  /\ \A i \in DOMAIN waiting : Accepts(e, waiting[i])
            /\ slots' = [slots EXCEPT ![e] = @ \o waiting]
  BY DEF RegisterEmitter
<1> DEFINE waiting == [i \in DOMAIN order |-> consumerMap[ch][<<order[i], k>>]]
<1>2. /\ waiting \in Seq(Consumers)
      /\ \A n \in Waiting(ch, k) : consumerMap[ch][<<n, k>>] \in Range(waiting)
  BY WaitingList
<1>3. /\ \A i \in DOMAIN waiting : Signature[waiting[i]] = Signature[e]
      /\ slots' = [slots EXCEPT ![e] = @ \o waiting]
  BY <1>1 DEF Accepts
<1> HIDE DEF waiting
<1>4. /\ slots' \in [Emitters -> Seq(Consumers)]
      /\ \A x \in Emitters : \A i \in DOMAIN slots'[x] : Signature[slots'[x][i]] = Signature[x]
      /\ \A x \in Emitters : Range(slots[x]) \subseteq Range(slots'[x])
      /\ Range(waiting) \subseteq Range(slots'[e])
  BY <1>2, <1>3, Connected
<1>5. /\ emitterMap' = [emitterMap EXCEPT ![ch][k] = e]
      /\ UNCHANGED <<consumerMap, live, emission>>
  BY DEF RegisterEmitter
<1>6. TypeOK'
  BY <1>4, <1>5 DEF TypeOK
<1>7. ASSUME NEW x \in Emitters \cap live, NEW c \in Consumers \cap live, Subscribed(x, c)'
      PROVE  c \in Range(slots'[x])
  <2>1. PICK h \in Channels, n \in ConsumerKeys, j \in EmitterKeys :
          emitterMap'[h][j] = x /\ consumerMap[h][<<n, j>>] = c
    BY <1>5, <1>7 DEF Subscribed
  <2>2. CASE h = ch /\ j = k
    <3>1. x = e
      BY <1>5, <2>1, <2>2 DEF TypeOK
    <3>2. n \in Waiting(ch, k)
      BY <2>1, <2>2 DEF Waiting
    <3> QED BY <1>2, <1>4, <2>1, <2>2, <3>1, <3>2
  <2>3. CASE ~(h = ch /\ j = k)
    <3>1. emitterMap[h][j] = x
      BY <1>5, <2>1, <2>3 DEF TypeOK
    <3> QED BY <1>4, <2>1, <3>1 DEF Wired, Subscribed
  <2> QED BY <2>2, <2>3
<1> QED BY <1>5, <1>6, <1>7 DEF Wired

LEMMA RegisterEmitterThrowsKeeps ==
  ASSUME TypeOK, Wired, NEW ch \in Channels, NEW k \in EmitterKeys, NEW e \in Emitters,
         RegisterEmitterThrows(ch, k, e)
  PROVE  TypeOK' /\ Wired'
<1>1. PICK order \in InKeyOrder(Waiting(ch, k)) :
        LET waiting == [i \in DOMAIN order |-> consumerMap[ch][<<order[i], k>>]]
        IN  \E i \in DOMAIN waiting :
              /\ \A j \in 1..(i - 1) : Accepts(e, waiting[j])
              /\ slots' = [slots EXCEPT ![e] = @ \o SubSeq(waiting, 1, i - 1)]
  BY DEF RegisterEmitterThrows
<1> DEFINE waiting == [i \in DOMAIN order |-> consumerMap[ch][<<order[i], k>>]]
<1>2. waiting \in Seq(Consumers)
  BY WaitingList
<1>3. PICK i \in DOMAIN waiting :
        /\ \A j \in 1..(i - 1) : Signature[waiting[j]] = Signature[e]
        /\ slots' = [slots EXCEPT ![e] = @ \o SubSeq(waiting, 1, i - 1)]
  BY <1>1 DEF Accepts
<1> HIDE DEF waiting
<1> DEFINE first == SubSeq(waiting, 1, i - 1)
<1>4. i \in 1..Len(waiting)
  BY <1>2, LenProperties
<1>5. /\ first \in Seq(Consumers)
      /\ \A j \in DOMAIN first : j \in 1..(i - 1) /\ first[j] = waiting[j]
  BY <1>2, <1>4, SubSeqProperties, LenProperties
<1>6. \A j \in DOMAIN first : Signature[first[j]] = Signature[e]
  BY <1>3, <1>5
<1>7. slots' = [slots EXCEPT ![e] = @ \o first]
  BY <1>3
<1> HIDE DEF first
<1>8. /\ slots' \in [Emitters -> Seq(Consumers)]
      /\ \A x \in Emitters : \A j \in DOMAIN slots'[x] : Signature[slots'[x][j]] = Signature[x]
      /\ \A x \in Emitters : Range(slots[x]) \subseteq Range(slots'[x])
  BY <1>5, <1>6, <1>7, Connected
<1>9. UNCHANGED <<emitterMap, consumerMap, live, emission>>
  BY DEF RegisterEmitterThrows, maps
<1>10. TypeOK'
  BY <1>8, <1>9 DEF TypeOK
<1>11. \A x, c : Subscribed(x, c)' <=> Subscribed(x, c)
  BY <1>9 DEF Subscribed
<1>12. Wired'
  BY <1>8, <1>9, <1>11 DEF Wired
<1> QED BY <1>10, <1>12

LEMMA RegisterConsumerKeeps ==
  ASSUME TypeOK, Wired, NEW ch \in Channels, NEW n \in ConsumerKeys, NEW k \in EmitterKeys,
         NEW c \in Consumers, RegisterConsumer(ch, n, k, c)
  PROVE  TypeOK' /\ Wired'
<1> DEFINE e == emitterMap[ch][k]
<1>1. /\ slots' \in [Emitters -> Seq(Consumers)]
      /\ \A x \in Emitters : \A i \in DOMAIN slots'[x] : Signature[slots'[x][i]] = Signature[x]
      /\ \A x \in Emitters : Range(slots[x]) \subseteq Range(slots'[x])
      /\ e \in live => c \in Range(slots'[e])
  <2>1. CASE e \in live
    <3>1. e \in Emitters
      BY <2>1, ChannelAssumption DEF TypeOK
    <3>2. /\ slots[e] \in Seq(Consumers) /\ <<c>> \in Seq(Consumers)
          /\ Append(slots[e], c) = slots[e] \o <<c>>
      BY <3>1, AppendIsConcat DEF TypeOK
    <3>3. slots' = [slots EXCEPT ![e] = @ \o <<c>>]
      BY <2>1, <3>1, <3>2 DEF RegisterConsumer, TypeOK
    <3>4. \A i \in DOMAIN <<c>> : Signature[<<c>>[i]] = Signature[e]
      BY <2>1 DEF RegisterConsumer, Accepts
    <3>5. c \in Range(<<c>>)
      BY DEF Range
    <3> HIDE DEF e
    <3> QED BY <3>1, <3>2, <3>3, <3>4, <3>5, Connected
  <2>2. CASE e \notin live
    BY <2>2 DEF RegisterConsumer, TypeOK
  <2> QED BY <2>1, <2>2
<1>2. /\ consumerMap' = [consumerMap EXCEPT ![ch][<<n, k>>] = c]
      /\ UNCHANGED <<emitterMap, live, emission>>
  BY DEF RegisterConsumer
<1>3. TypeOK'
  BY <1>1, <1>2 DEF TypeOK
<1>4. ASSUME NEW x \in Emitters \cap live, NEW d \in Consumers \cap live, Subscribed(x, d)'
      PROVE  d \in Range(slots'[x])
  <2>1. PICK h \in Channels, m \in ConsumerKeys, j \in EmitterKeys :
          emitterMap[h][j] = x /\ consumerMap'[h][<<m, j>>] = d
    BY <1>2, <1>4 DEF Subscribed
  <2>2. CASE h = ch /\ m = n /\ j = k
    <3>1. x = e /\ d = c
      BY <1>2, <2>1, <2>2 DEF TypeOK
    <3> QED BY <1>1, <3>1
  <2>3. CASE ~(h = ch /\ m = n /\ j = k)
    <3>1. consumerMap[h][<<m, j>>] = d
      BY <1>2, <2>1, <2>3 DEF TypeOK
    <3> QED BY <1>1, <2>1, <3>1 DEF Wired, Subscribed
  <2> QED BY <2>2, <2>3
<1> QED BY <1>2, <1>3, <1>4 DEF Wired

\* Every other step connects nothing and registers nothing that is not connected.
LEMMA OtherKeeps ==
  ASSUME TypeOK, Wired,
         slots' \in [Emitters -> Seq(Consumers)],
         emitterMap' \in [Channels -> [EmitterKeys -> Emitters \cup {None}]],
         consumerMap' \in [Channels -> [ConsumerKeys \X EmitterKeys -> Consumers \cup {None}]],
         live' \subseteq live,
         \A e \in Emitters : slots'[e] = slots[e] \/ (slots'[e] = <<>> /\ e \notin live'),
         \A h \in Channels : \E g \in Channels : \A k \in EmitterKeys :
           /\ emitterMap'[h][k] \in {emitterMap[g][k], None}
           /\ \A n \in ConsumerKeys : consumerMap'[h][<<n, k>>] \in {consumerMap[g][<<n, k>>], None},
         emission' \in Emissions \cup {None}
  PROVE  TypeOK' /\ Wired'
<1>1. \A e \in Emitters : \A i \in DOMAIN slots'[e] : Signature[slots'[e][i]] = Signature[e]
  BY DEF TypeOK
<1>2. TypeOK'
  BY <1>1 DEF TypeOK
<1>3. ASSUME NEW e \in Emitters, e \in live', NEW c \in Consumers, c \in live', Subscribed(e, c)'
      PROVE  c \in Range(slots'[e])
  <2>1. PICK h \in Channels, n \in ConsumerKeys, k \in EmitterKeys :
          emitterMap'[h][k] = e /\ consumerMap'[h][<<n, k>>] = c
    BY <1>3 DEF Subscribed
  <2>2. PICK g \in Channels :
          /\ emitterMap'[h][k] \in {emitterMap[g][k], None}
          /\ consumerMap'[h][<<n, k>>] \in {consumerMap[g][<<n, k>>], None}
    OBVIOUS
  <2>3. Subscribed(e, c)
    BY <2>1, <2>2, ChannelAssumption DEF Subscribed
  <2>4. slots'[e] = slots[e]
    BY <1>3
  <2> QED BY <1>3, <2>3, <2>4 DEF Wired
<1> QED BY <1>2, <1>3 DEF Wired

-----------------------------------------------------------------------------
(* The invariant.                                                          *)

LEMMA InitInvariant ==
  ASSUME Init
  PROVE  IInv
<1>1. TypeOK
  BY EmptySeq DEF Init, NoEmitters, NoConsumers, TypeOK
<1>2. Wired
  BY ChannelAssumption DEF Init, NoEmitters, Wired, Subscribed
<1>3. Coming
  BY DEF Init, Coming
<1> QED BY <1>1, <1>2, <1>3 DEF IInv

\* Emissions change no map and no signal.
LEMMA EmissionStep ==
  ASSUME IInv,
         \/ \E e \in Emitters : Emit(e)
         \/ CallNext \/ SubscriberThrows \/ EmitDone
  PROVE  emission' \in Emissions \cup {None} /\ Coming'
<1>0. TypeOK /\ Wired /\ Coming
  BY DEF IInv
<1>1. ASSUME NEW e \in Emitters, Emit(e)
      PROVE  emission' \in Emissions \cup {None} /\ Coming'
  <2>1. slots[e] \in Seq(Consumers)
    BY <1>0 DEF TypeOK
  <2>2. \A c \in live \cap Consumers : Subscribed(e, c) => c \in Range(slots[e])
    BY <1>0, <1>1 DEF Emit, Wired
  <2>3. emission' \in Emissions
    BY <1>1, <2>1 DEF Emit, Emissions
  <2>4. Coming'
    BY <1>1, <2>2 DEF Emit, Coming
  <2> QED BY <2>3, <2>4
<1>2. ASSUME CallNext
      PROVE  emission' \in Emissions \cup {None} /\ Coming'
  <2>1. emission \in Emissions /\ emission.todo # <<>>
    BY <1>0, <1>2 DEF CallNext, TypeOK
  <2>2. emission.todo \in Seq(Consumers)
    BY <2>1 DEF Emissions
  <2> DEFINE c == Head(emission.todo)
             rest == Tail(emission.todo)
  <2>3. c \in Consumers /\ rest \in Seq(Consumers)
    BY <2>1, <2>2, HeadTailProperties
  <2>4. \A x \in Range(emission.todo) : x = c \/ x \in Range(rest)
    <3>1. ASSUME NEW i \in DOMAIN emission.todo, i # 1
          PROVE  emission.todo[i] \in Range(rest)
      <4>1. i \in 1..Len(emission.todo)
        BY <2>2, LenProperties
      <4>2. i - 1 \in DOMAIN rest /\ rest[i - 1] = emission.todo[i]
        BY <2>1, <2>2, <2>3, <3>1, <4>1, HeadTailProperties, LenProperties
      <4> QED BY <4>2 DEF Range
    <3> QED BY <2>1, <2>2, <3>1 DEF Range
  <2>5. emission' = [emission EXCEPT !.todo = rest,
                                     !.called = IF c \in live THEN @ \cup {c} ELSE @]
    BY <1>2 DEF CallNext
  <2>6. UNCHANGED live
    BY <1>2 DEF CallNext
  <2> HIDE DEF c, rest
  <2>7. /\ emission' \in Emissions
        /\ emission'.todo = rest /\ emission'.owed = emission.owed
        /\ emission'.called = IF c \in live THEN emission.called \cup {c} ELSE emission.called
    BY <2>1, <2>3, <2>5 DEF Emissions
  <2>8. emission # None
    BY <1>2 DEF CallNext
  <2>9. Coming'
    BY <1>0, <2>4, <2>6, <2>7, <2>8 DEF Coming
  <2> QED BY <2>7, <2>9
<1>3. ASSUME SubscriberThrows \/ EmitDone
      PROVE  emission' \in Emissions \cup {None} /\ Coming'
  BY <1>3 DEF SubscriberThrows, EmitDone, Coming
<1> QED BY <1>1, <1>2, <1>3

LEMMA InvariantStep ==
  ASSUME IInv, [Next]_vars
  PROVE  IInv'
<1>0. TypeOK /\ Wired /\ Coming
  BY DEF IInv
<1> DEFINE Quiet == UNCHANGED emission /\ live' \subseteq live
<1>1. ASSUME Quiet  PROVE emission' \in Emissions \cup {None} /\ Coming'
  BY <1>0, <1>1 DEF Coming, TypeOK
<1>2. ASSUME NEW ch \in Channels, NEW k \in EmitterKeys, NEW e \in Emitters,
             RegisterEmitter(ch, k, e) \/ RegisterEmitterThrows(ch, k, e)
      PROVE  TypeOK' /\ Wired' /\ Quiet
  <2>1. Quiet
    BY <1>2 DEF RegisterEmitter, RegisterEmitterThrows
  <2> HIDE DEF Quiet
  <2> QED BY <1>0, <1>2, <2>1, RegisterEmitterKeeps, RegisterEmitterThrowsKeeps
<1>3. ASSUME NEW ch \in Channels, NEW n \in ConsumerKeys, NEW k \in EmitterKeys,
             NEW c \in Consumers, RegisterConsumer(ch, n, k, c)
      PROVE  TypeOK' /\ Wired' /\ Quiet
  BY <1>0, <1>3, RegisterConsumerKeeps DEF RegisterConsumer
<1>4. ASSUME NEW ch \in Channels, NEW k \in EmitterKeys, UnregisterEmitter(ch, k)
      PROVE  TypeOK' /\ Wired' /\ Quiet
  <2>1. emitterMap' \in [Channels -> [EmitterKeys -> Emitters \cup {None}]]
    BY <1>0, <1>4 DEF UnregisterEmitter, TypeOK
  <2>2. \A h \in Channels, j \in EmitterKeys : emitterMap'[h][j] \in {emitterMap[h][j], None}
    BY <1>0, <1>4 DEF UnregisterEmitter, TypeOK
  <2> QED BY <1>0, <1>4, <2>1, <2>2, OtherKeeps DEF UnregisterEmitter, TypeOK
<1>5. ASSUME NEW ch \in Channels, NEW n \in ConsumerKeys, NEW k \in EmitterKeys,
             UnregisterConsumer(ch, n, k)
      PROVE  TypeOK' /\ Wired' /\ Quiet
  <2>1. consumerMap' \in [Channels -> [ConsumerKeys \X EmitterKeys -> Consumers \cup {None}]]
    BY <1>0, <1>5 DEF UnregisterConsumer, TypeOK
  <2>2. \A h \in Channels, m \in ConsumerKeys, j \in EmitterKeys :
          consumerMap'[h][<<m, j>>] \in {consumerMap[h][<<m, j>>], None}
    BY <1>0, <1>5 DEF UnregisterConsumer, TypeOK
  <2> QED BY <1>0, <1>5, <2>1, <2>2, OtherKeeps DEF UnregisterConsumer, TypeOK
<1>6. ASSUME NEW from \in Channels, NEW to \in Channels,
             CopyChannel(from, to) \/ MoveChannel(from, to)
      PROVE  TypeOK' /\ Wired' /\ Quiet
  <2>1. /\ emitterMap' \in [Channels -> [EmitterKeys -> Emitters \cup {None}]]
        /\ consumerMap' \in [Channels -> [ConsumerKeys \X EmitterKeys -> Consumers \cup {None}]]
        /\ UNCHANGED <<slots, live, emission>>
    <3>1. CASE CopyChannel(from, to)
      BY <1>0, <3>1 DEF CopyChannel, TypeOK
    <3>2. CASE MoveChannel(from, to)
      <4>1. /\ NoEmitters \in [EmitterKeys -> Emitters \cup {None}]
            /\ NoConsumers \in [ConsumerKeys \X EmitterKeys -> Consumers \cup {None}]
        BY DEF NoEmitters, NoConsumers
      <4> QED BY <1>0, <3>2, <4>1 DEF MoveChannel, TypeOK
    <3> QED BY <1>6, <3>1, <3>2
  <2>2. ASSUME NEW h \in Channels
        PROVE  \E g \in Channels : \A k \in EmitterKeys :
                 /\ emitterMap'[h][k] \in {emitterMap[g][k], None}
                 /\ \A n \in ConsumerKeys :
                      consumerMap'[h][<<n, k>>] \in {consumerMap[g][<<n, k>>], None}
    <3>1. CASE h = to
      <4>1. emitterMap'[h] = emitterMap[from] /\ consumerMap'[h] = consumerMap[from]
        BY <1>0, <1>6, <3>1 DEF CopyChannel, MoveChannel, TypeOK
      <4> QED BY <4>1
    <3>2. CASE h # to
      <4>1. \/ emitterMap'[h] = emitterMap[h] /\ consumerMap'[h] = consumerMap[h]
            \/ emitterMap'[h] = NoEmitters /\ consumerMap'[h] = NoConsumers
        BY <1>0, <1>6, <3>2 DEF CopyChannel, MoveChannel, TypeOK
      <4> QED BY <4>1 DEF NoEmitters, NoConsumers
    <3> QED BY <3>1, <3>2
  <2> QED BY <1>0, <2>1, <2>2, OtherKeeps DEF TypeOK
<1>7. ASSUME NEW e \in Emitters, ReleaseEmitter(e)
      PROVE  TypeOK' /\ Wired' /\ Quiet
  <2>1. slots' \in [Emitters -> Seq(Consumers)]
    BY <1>0, <1>7, EmptySeq DEF ReleaseEmitter, TypeOK
  <2>2. \A x \in Emitters : slots'[x] = slots[x] \/ (slots'[x] = <<>> /\ x \notin live')
    BY <1>0, <1>7 DEF ReleaseEmitter, TypeOK
  <2>3. live' \subseteq live /\ UNCHANGED <<maps, emission>>
    BY <1>7 DEF ReleaseEmitter
  <2> QED BY <1>0, <2>1, <2>2, <2>3, OtherKeeps DEF maps, TypeOK
<1>8. ASSUME NEW c \in Consumers, ReleaseConsumer(c)
      PROVE  TypeOK' /\ Wired' /\ Quiet
  <2>1. live' \subseteq live /\ UNCHANGED <<maps, slots, emission>>
    BY <1>8 DEF ReleaseConsumer
  <2> QED BY <1>0, <2>1, OtherKeeps DEF maps, TypeOK
<1>9. ASSUME \/ \E e \in Emitters : Emit(e)
             \/ CallNext \/ SubscriberThrows \/ EmitDone
      PROVE  TypeOK' /\ Wired' /\ Coming'
  <2>1. emission' \in Emissions \cup {None} /\ Coming'
    BY <1>9, EmissionStep
  <2>2. UNCHANGED <<maps, slots, live>>
    BY <1>9 DEF Emit, CallNext, SubscriberThrows, EmitDone
  <2> QED BY <1>0, <2>1, <2>2, OtherKeeps DEF maps, TypeOK
<1>10. ASSUME UNCHANGED vars
       PROVE  TypeOK' /\ Wired' /\ Quiet
  <2>1. UNCHANGED <<emitterMap, consumerMap, slots, live, emission>>
    BY <1>10 DEF vars, maps
  <2> QED BY <1>0, <2>1, OtherKeeps DEF TypeOK
<1> HIDE DEF Quiet
<1> QED
  BY <1>1, <1>2, <1>3, <1>4, <1>5, <1>6, <1>7, <1>8, <1>9, <1>10
  DEF IInv, Next, ChannelStep, EmitterStep

LEMMA Invariance == Spec => []IInv
BY InitInvariant, InvariantStep, PTL DEF Spec

-----------------------------------------------------------------------------
(* The theorems.                                                           *)

\* Types; no signal has a slot whose consumer has another signature
\* (EventEmitter.hpp:15-17).
THEOREM TypeCorrect == Spec => []TypeOK
<1>1. IInv => TypeOK
  BY DEF IInv
<1> QED BY Invariance, <1>1, PTL

\* In whatever order emitters and consumers are registered, copied with their channel,
\* moved and released: what a channel holds under keys that belong together is
\* connected (EventChannel.cpp:35-43,71-82).
THEOREM RegisteredAreConnected == Spec => []Wired
<1>1. IInv => Wired
  BY DEF IInv
<1> QED BY Invariance, <1>1, PTL

\* An emission that ends has called all those registered when it began that still
\* live, whatever the subscribers did to the channels (EventEmitter.hpp:12-31).
THEOREM AllRegisteredHear == Spec => EveryRegisteredHears
<1>1. ASSUME IInv, EmitDone
      PROVE  emission.owed \cap live \subseteq emission.called
  <2>1. Range(emission.todo) = {}
    BY <1>1 DEF EmitDone, Range
  <2> QED BY <1>1, <2>1 DEF IInv, Coming, EmitDone
<1>2. IInv /\ [Next]_vars =>
        [EmitDone => emission.owed \cap live \subseteq emission.called]_vars
  BY <1>1
<1> QED BY Invariance, <1>2, PTL DEF Spec, EveryRegisteredHears

\* No step of an emission calls a subscriber whose consumer has been released
\* (EventEmitter.hpp:19).
THEOREM ReleasedAreNotCalled == Spec => NoCallAfterRelease
<1>1. ASSUME IInv, [Next]_vars, emission # None, emission' # None
      PROVE  emission'.called \ emission.called \subseteq live
  <2>1. CASE CallNext
    <3>1. emission \in Emissions
      BY <1>1 DEF IInv, TypeOK
    <3>2. emission'.called \subseteq emission.called \cup live
      BY <2>1, <3>1 DEF CallNext, Emissions
    <3> QED BY <3>2
  <2>2. CASE UNCHANGED emission
    BY <2>2
  <2>3. ASSUME NEW ch \in Channels, ChannelStep(ch)  PROVE UNCHANGED emission
    BY <2>3 DEF ChannelStep, RegisterEmitter, RegisterEmitterThrows, UnregisterEmitter,
         RegisterConsumer, UnregisterConsumer, CopyChannel, MoveChannel
  <2>4. ASSUME NEW e \in Emitters, EmitterStep(e)  PROVE UNCHANGED emission
    BY <1>1, <2>4 DEF EmitterStep, ReleaseEmitter, Emit
  <2>5. ASSUME NEW c \in Consumers, ReleaseConsumer(c)  PROVE UNCHANGED emission
    BY <2>5 DEF ReleaseConsumer
  <2>6. ~SubscriberThrows /\ ~EmitDone
    BY <1>1 DEF SubscriberThrows, EmitDone
  <2>7. CASE UNCHANGED vars
    BY <2>2, <2>7 DEF vars
  <2> QED BY <1>1, <2>1, <2>2, <2>3, <2>4, <2>5, <2>6, <2>7 DEF Next
<1>2. IInv /\ [Next]_vars =>
        [emission # None /\ emission' # None
           => emission'.called \ emission.called \subseteq live]_vars
  BY <1>1
<1> QED BY Invariance, <1>2, PTL DEF Spec, NoCallAfterRelease
=============================================================================
