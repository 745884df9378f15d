-------------------------- MODULE ThreadPoolProofs --------------------------
(***************************************************************************)
(* Theorems about the thread pool for every number of workers and every    *)
(* set of calls of Post.                                                   *)
(***************************************************************************)
EXTENDS ThreadPool, TLAPS, FiniteSetTheorems, SequenceTheorems

-----------------------------------------------------------------------------
(* What the condition variable does to the workers.                        *)

Awoken == pc' \in [Workers -> WorkerStates] /\
          \A w \in Workers : pc'[w] = pc[w] \/ (pc[w] = "waiting" /\ pc'[w] = "acquire")

\* A notification moves waiting workers to the mutex and touches no other worker.
LEMMA NotifyMoves ==
  ASSUME TypeOK, NotifyOne \/ NotifyAll
  PROVE  Awoken
<1> USE DEF TypeOK, WorkerStates, Awoken, Waiting, At, Goto
<1>1. CASE NotifyAll
  BY <1>1 DEF NotifyAll
<1>2. CASE Waiting = {} /\ UNCHANGED pc
  BY <1>2
<1>3. CASE \E w \in Waiting : Goto(w, "acquire")
  BY <1>3
<1> QED BY <1>1, <1>2, <1>3 DEF NotifyOne

\* So it leaves the set of counted workers as it is.
LEMMA NotifyKeepsCounted ==
  ASSUME Awoken
  PROVE  Counted' = Counted
BY DEF Awoken, Counted, At

\* The counter and the counted workers move together.
LEMMA TypeStep ==
  ASSUME TypeOK, ThreadCountExact, [Next]_vars
  PROVE  TypeOK' /\ ThreadCountExact'
<1> USE DEF TypeOK, ThreadCountExact, WorkerStates, PostStates, OwnerStates,
            poolVars, callVars, pastVars
<1> DEFINE Same == numThreads' = numThreads /\ Counted' = Counted
<1>0. IsFiniteSet(Counted)
  BY PoolAssumption, FS_Subset DEF Counted
<1>1. ASSUME NEW w \in Workers, Start(w)  PROVE TypeOK' /\ ThreadCountExact'
  <2>1. Counted' = Counted \union {w} /\ w \notin Counted
    BY <1>1 DEF Start, Goto, Counted, At
  <2>2. Cardinality(Counted \union {w}) = Cardinality(Counted) + 1
    BY <1>0, <2>1, FS_AddElement
  <2>3. TypeOK'
    BY <1>1 DEF Start, Goto
  <2> QED BY <1>1, <2>1, <2>2, <2>3 DEF Start
<1>2. ASSUME NEW w \in Workers, Leave(w)  PROVE TypeOK' /\ ThreadCountExact'
  <2>1. Counted' = Counted \ {w} /\ w \in Counted
    BY <1>2 DEF Leave, Goto, Counted, At
  <2>2. Cardinality(Counted \ {w}) = Cardinality(Counted) - 1
    BY <1>0, <2>1, FS_RemoveElement
  <2>3. Cardinality(Counted \ {w}) \in Nat
    BY <1>0, FS_RemoveElement, FS_CardinalityType
  <2> QED BY <1>2, <2>1, <2>2, <2>3 DEF Leave, Goto
<1>3. ASSUME NEW w \in Workers, CheckDie(w)  PROVE TypeOK' /\ Same
  BY <1>3 DEF CheckDie, Goto, Counted, At
<1>4. ASSUME NEW w \in Workers, CheckKeep(w)  PROVE TypeOK' /\ Same
  BY <1>4 DEF CheckKeep, Goto, Counted, At
<1>5. ASSUME NEW w \in Workers, CheckWork(w)  PROVE TypeOK' /\ Same
  BY <1>5 DEF CheckWork, Goto, Counted, At
<1>6. ASSUME NEW w \in Workers, Wait(w)  PROVE TypeOK' /\ Same
  BY <1>6 DEF Wait, Goto, Counted, At
<1>7. ASSUME NEW w \in Workers, Take(w)  PROVE TypeOK' /\ Same
  <2>1. Head(queue) \in Tasks /\ Tail(queue) \in Seq(Tasks)
    BY <1>7, HeadTailProperties DEF Take
  <2>2. /\ task' \in [Workers -> Tasks \union {NoTask}]
        /\ queue' \in Seq(Tasks) /\ started' \in Seq(Tasks)
        /\ lateStarts' \in [Workers -> Nat] /\ pc' \in [Workers -> WorkerStates]
    BY <1>7, <2>1 DEF Take, Goto
  <2>3. \A v \in Workers : (pc[v] = "running" <=> task[v] # NoTask)'
    BY <1>7, <2>1, PoolAssumption DEF Take, Goto
  <2>4. Same
    BY <1>7 DEF Take, Goto, Counted, At
  <2> QED BY <1>7, <2>2, <2>3, <2>4 DEF Take
<1>8. ASSUME NEW w \in Workers, PassThrough(w)  PROVE TypeOK' /\ Same
  BY <1>8 DEF PassThrough, Goto, Counted, At
<1>9. ASSUME NEW w \in Workers, Execute(w)  PROVE TypeOK' /\ Same
  BY <1>9 DEF Execute, Goto, Counted, At
<1>10. ASSUME NEW w \in Workers, SpuriousWakeup(w)  PROVE TypeOK' /\ Same
  BY <1>10 DEF SpuriousWakeup, Goto, Counted, At
<1>11. ASSUME NEW w \in Workers, Spawn(w)  PROVE TypeOK' /\ Same
  BY <1>11 DEF Spawn, Goto, Counted, At
<1>12. ASSUME NEW t \in Tasks, PostCheckKeep(t) \/ PostCheckDie(t)  PROVE TypeOK' /\ Same
  BY <1>12 DEF PostCheckKeep, PostCheckDie, Counted, At
<1>13. ASSUME NEW t \in Tasks, PostPush(t)  PROVE TypeOK' /\ Same
  <2>1. Awoken /\ Same
    BY <1>13, NotifyMoves, NotifyKeepsCounted DEF PostPush
  <2>2. queue' \in Seq(Tasks) /\ accepted' \in Seq(Tasks)
    BY <1>13 DEF PostPush
  <2>3. post' \in [Tasks -> PostStates]
    BY <1>13 DEF PostPush
  <2> QED BY <1>13, <2>1, <2>2, <2>3 DEF PostPush, Awoken
<1>14. ASSUME GetTaskCount  PROVE TypeOK' /\ Same
  BY <1>14, NotifyMoves, NotifyKeepsCounted DEF GetTaskCount, Awoken
<1>15. ASSUME StopCall  PROVE TypeOK' /\ Same
  BY <1>15 DEF StopCall, Counted, At
<1>16. ASSUME JoinCall  PROVE TypeOK' /\ Same
  <2>1. Awoken /\ Same
    BY <1>16, NotifyMoves, NotifyKeepsCounted DEF JoinCall
  <2>2. owed' \in Nat
    BY <1>16, LenProperties DEF JoinCall
  <2> QED BY <1>16, <2>1, <2>2 DEF JoinCall, Awoken
<1>17. ASSUME OwnerWaits  PROVE TypeOK' /\ Same
  BY <1>17 DEF OwnerWaits, Construct, StopReturn, JoinCounted, JoinReturn, Counted, At
<1>18. ASSUME UNCHANGED vars  PROVE TypeOK' /\ Same
  BY <1>18 DEF vars, Counted, At
<1>19. ASSUME TypeOK' /\ Same  PROVE TypeOK' /\ ThreadCountExact'
  BY <1>19
<1> HIDE DEF TypeOK, ThreadCountExact, Same
<1> QED BY <1>1, <1>2, <1>3, <1>4, <1>5, <1>6, <1>7, <1>8, <1>9, <1>10, <1>11, <1>12,
           <1>13, <1>14, <1>15, <1>16, <1>17, <1>18, <1>19 DEF Next, WorkerStep, PostStep

LEMMA TypeInit ==
  ASSUME Init
  PROVE  TypeOK /\ ThreadCountExact
<1>1. TypeOK
  BY EmptySeq, PoolAssumption DEF Init, TypeOK, WorkerStates, PostStates, OwnerStates
<1>2. Counted = {}
  BY DEF Init, Counted, At
<1> QED BY <1>1, <1>2, FS_EmptySet DEF Init, ThreadCountExact

\* In every reachable state the variables have their types and the counter that
\* the constructor and Join spin on is the number of threads in RunTask's loop.
THEOREM TypingAndCount == Spec => [](TypeOK /\ ThreadCountExact)
<1>1. Init => TypeOK /\ ThreadCountExact
  BY TypeInit
<1>2. (TypeOK /\ ThreadCountExact) /\ [Next]_vars => (TypeOK /\ ThreadCountExact)'
  BY TypeStep
<1> QED BY <1>1, <1>2, PTL DEF Spec

-----------------------------------------------------------------------------
(* The queue is a FIFO.                                                    *)

\* Moving the head of the second sequence to the end of the first keeps their
\* concatenation: a pop under the mutex.
LEMMA PopKeepsConcat ==
  ASSUME NEW S, NEW s \in Seq(S), NEW q \in Seq(S), q # <<>>
  PROVE  Append(s, Head(q)) \o Tail(q) = s \o q
<1>1. Len(q) \in Nat \ {0}
  BY EmptySeq
<1>2. Head(q) \in S /\ Head(q) = q[1] /\ Tail(q) \in Seq(S)
  BY HeadTailProperties
<1>3. SubSeq(q, 1, Len(q)) = <<q[1]>> \o SubSeq(q, 1 + 1, Len(q))
  BY <1>1, SubSeqRecursiveFirst
<1>4. q = <<Head(q)>> \o Tail(q)
  BY <1>2, <1>3, SubSeqFull, TailIsSubSeq
<1>5. Append(s, Head(q)) = s \o <<Head(q)>> /\ <<Head(q)>> \in Seq(S)
  BY <1>2, AppendIsConcat
<1>6. (s \o <<Head(q)>>) \o Tail(q) = s \o (<<Head(q)>> \o Tail(q))
  BY <1>2, <1>5, ConcatAssociative
<1> QED BY <1>4, <1>5, <1>6

\* Appending to the second sequence appends to the concatenation: a push.
LEMMA PushKeepsConcat ==
  ASSUME NEW S, NEW s \in Seq(S), NEW q \in Seq(S), NEW e \in S
  PROVE  Append(s \o q, e) = s \o Append(q, e)
<1>1. s \o q \in Seq(S) /\ <<e>> \in Seq(S)
  BY ConcatProperties
<1>2. Append(s \o q, e) = (s \o q) \o <<e>> /\ Append(q, e) = q \o <<e>>
  BY <1>1, AppendIsConcat
<1> QED BY <1>1, <1>2, ConcatAssociative

LEMMA FifoStep ==
  ASSUME TypeOK, FifoExactlyOnce, [Next]_vars
  PROVE  FifoExactlyOnce'
<1> USE DEF FifoExactlyOnce, pastVars, poolVars
<1>1. ASSUME NEW w \in Workers, Take(w)  PROVE FifoExactlyOnce'
  BY <1>1, PopKeepsConcat DEF Take, TypeOK
<1>2. ASSUME NEW t \in Tasks, PostPush(t)  PROVE FifoExactlyOnce'
  <2>1. accepted' = Append(accepted, t) /\ queue' = Append(queue, t) /\ started' = started
    BY <1>2 DEF PostPush
  <2>2. Append(started \o queue, t) = started \o Append(queue, t)
    BY PushKeepsConcat DEF TypeOK
  <2> QED BY <2>1, <2>2
<1>3. ASSUME NEW w \in Workers, WorkerStep(w) \/ SpuriousWakeup(w) \/ Spawn(w), ~Take(w)
      PROVE  FifoExactlyOnce'
  BY <1>3 DEF WorkerStep, SpuriousWakeup, Spawn, Start, CheckDie, CheckKeep, CheckWork, Wait,
              PassThrough, Execute, Leave
<1>4. ASSUME NEW t \in Tasks, PostStep(t), ~PostPush(t)  PROVE FifoExactlyOnce'
  BY <1>4 DEF PostStep, PostCheckKeep, PostCheckDie
<1>5. ASSUME GetTaskCount \/ StopCall \/ JoinCall \/ OwnerWaits  PROVE FifoExactlyOnce'
  BY <1>5 DEF GetTaskCount, StopCall, JoinCall, OwnerWaits, Construct, StopReturn,
              JoinCounted, JoinReturn
<1>6. CASE UNCHANGED vars
  BY <1>6 DEF vars
<1> QED BY <1>1, <1>2, <1>3, <1>4, <1>5, <1>6 DEF Next

\* No accepted task is lost, duplicated or overtaken.
THEOREM Fifo == Spec => []FifoExactlyOnce
<1>1. Init => FifoExactlyOnce
  BY ConcatEmptySeq, EmptySeq DEF Init, FifoExactlyOnce
<1>2. TypeOK /\ FifoExactlyOnce /\ [Next]_vars => FifoExactlyOnce'
  BY FifoStep
<1> QED BY <1>1, <1>2, TypingAndCount, PTL DEF Spec

-----------------------------------------------------------------------------
(* No notification is lost.                                                *)

\* The invariant survives a step that sends workers to the mutex and wakes
\* workers, but neither touches the queue nor puts a worker to sleep.
LEMMA MoreAcquiring ==
  ASSUME NoLostWakeup, At({"acquire"}) \subseteq At({"acquire"})', Waiting' \subseteq Waiting,
         queue' = queue, keepRunning' = keepRunning, queue \in Seq(Tasks)
  PROVE  NoLostWakeup'
<1>1. IsFiniteSet(At({"acquire"})')
  BY PoolAssumption, FS_Subset DEF At
<1>2. Cardinality(At({"acquire"})) <= Cardinality(At({"acquire"})')
  BY <1>1, FS_Subset
<1>3. /\ Cardinality(At({"acquire"})) \in Nat /\ Cardinality(At({"acquire"})') \in Nat
      /\ Len(queue) \in Nat
  BY <1>1, FS_Subset, FS_CardinalityType, LenProperties
<1> QED BY <1>2, <1>3 DEF NoLostWakeup

LEMMA WakeupStep ==
  ASSUME TypeOK, NoLostWakeup, [Next]_vars
  PROVE  NoLostWakeup'
<1> DEFINE A == At({"acquire"})
<1> USE DEF poolVars, pastVars, callVars
<1>0. /\ IsFiniteSet(A) /\ Cardinality(A) \in Nat
      /\ queue \in Seq(Tasks) /\ Len(queue) \in Nat
  BY PoolAssumption, FS_Subset, FS_CardinalityType, LenProperties DEF At, TypeOK
<1>1. ASSUME NEW w \in Workers, Take(w)  PROVE NoLostWakeup'
  <2>1. A' = A \ {w} /\ w \in A /\ Waiting' = Waiting
    BY <1>1 DEF Take, Goto, At, Waiting, TypeOK
  <2>2. Cardinality(A') = Cardinality(A) - 1
    BY <1>0, <2>1, FS_RemoveElement
  <2>3. Len(queue') = Len(queue) - 1 /\ keepRunning' = keepRunning
    BY <1>0, <1>1, HeadTailProperties DEF Take
  <2> HIDE DEF A
  <2>4. NoLostWakeup => (Waiting # {} => keepRunning /\ Len(queue) <= Cardinality(A))
    BY DEF NoLostWakeup, A
  <2>5. (Waiting' # {} => keepRunning' /\ Len(queue') <= Cardinality(A')) => NoLostWakeup'
    BY DEF NoLostWakeup, A
  <2> QED BY <1>0, <2>1, <2>2, <2>3, <2>4, <2>5
<1>2. ASSUME NEW w \in Workers, Wait(w) \/ PassThrough(w)  PROVE NoLostWakeup'
  <2>1. queue' = <<>> /\ keepRunning' = keepRunning
    BY <1>2 DEF Wait, PassThrough, ThreadsShouldProceed
  <2>2. Waiting' # {} => keepRunning'
    BY <1>2, <2>1 DEF Wait, PassThrough, ThreadsShouldProceed, NoLostWakeup, Waiting, At, Goto,
                      TypeOK
  <2>3. IsFiniteSet(A')
    BY PoolAssumption, FS_Subset DEF At
  <2>4. Cardinality(A') \in Nat
    BY <2>3, FS_CardinalityType
  <2>5. Len(queue') = 0
    BY <2>1
  <2> QED BY <2>2, <2>4, <2>5 DEF NoLostWakeup
<1>3. ASSUME NEW w \in Workers,
             Start(w) \/ CheckDie(w) \/ CheckKeep(w) \/ CheckWork(w) \/ Execute(w) \/ Leave(w)
             \/ SpuriousWakeup(w) \/ Spawn(w)
      PROVE  NoLostWakeup'
  <2>1. A \subseteq A' /\ Waiting' \subseteq Waiting /\ UNCHANGED <<queue, keepRunning>>
    BY <1>3 DEF Start, CheckDie, CheckKeep, CheckWork, Execute, Leave, SpuriousWakeup, Spawn,
                Goto, At, Waiting, TypeOK
  <2> QED BY <1>0, <2>1, MoreAcquiring
<1>4. ASSUME NEW t \in Tasks, PostPush(t)  PROVE NoLostWakeup'
  <2>1. queue' = Append(queue, t) /\ keepRunning' = keepRunning
    BY <1>4 DEF PostPush
  <2>2. Len(queue') = Len(queue) + 1
    BY <1>0, <2>1
  <2>3. CASE Waiting = {} /\ UNCHANGED pc
    BY <2>3 DEF NoLostWakeup, Waiting, At
  <2>4. CASE \E w \in Waiting : Goto(w, "acquire")
    <3>1. PICK w \in Waiting : Goto(w, "acquire")
      BY <2>4
    <3>2. A' = A \union {w} /\ w \notin A
      BY <3>1 DEF Goto, At, Waiting, TypeOK
    <3>3. Cardinality(A') = Cardinality(A) + 1
      BY <1>0, <3>2, FS_AddElement
    <3> HIDE DEF A
    <3>4. keepRunning /\ Len(queue) <= Cardinality(A)
      BY <3>1 DEF NoLostWakeup, A
    <3>5. keepRunning' /\ Len(queue') <= Cardinality(A')
      BY <1>0, <2>1, <2>2, <3>3, <3>4
    <3> QED BY <3>5 DEF NoLostWakeup, A
  <2> QED BY <1>4, <2>3, <2>4 DEF PostPush, NotifyOne
<1>5. ASSUME GetTaskCount  PROVE NoLostWakeup'
  <2>1. Awoken
    BY <1>5, NotifyMoves DEF GetTaskCount
  <2>2. A \subseteq A' /\ Waiting' \subseteq Waiting /\ UNCHANGED <<queue, keepRunning>>
    BY <1>5, <2>1 DEF GetTaskCount, Awoken, At, Waiting
  <2> QED BY <1>0, <2>2, MoreAcquiring
<1>6. ASSUME JoinCall  PROVE NoLostWakeup'
  <2>1. Waiting' = {}
    BY <1>6 DEF JoinCall, NotifyAll, Waiting, At, TypeOK
  <2> QED BY <2>1 DEF NoLostWakeup
<1>7. ASSUME \/ \E t \in Tasks : PostCheckKeep(t) \/ PostCheckDie(t)
             \/ StopCall \/ OwnerWaits \/ UNCHANGED vars
      PROVE  NoLostWakeup'
  <2>1. UNCHANGED <<pc, queue, keepRunning>>
    BY <1>7 DEF PostCheckKeep, PostCheckDie, StopCall, OwnerWaits, Construct, StopReturn,
                JoinCounted, JoinReturn, vars
  <2> QED BY <2>1 DEF NoLostWakeup, Waiting, At
<1> QED BY <1>1, <1>2, <1>3, <1>4, <1>5, <1>6, <1>7 DEF Next, WorkerStep, PostStep

\* No worker sleeps while a queued task has nobody to run it, or once Join was
\* called: a missed notification would leave Join spinning for ever.
THEOREM Wakeups == Spec => []NoLostWakeup
<1>1. Init => NoLostWakeup
  BY DEF Init, NoLostWakeup, Waiting, At
<1>2. TypeOK /\ NoLostWakeup /\ [Next]_vars => NoLostWakeup'
  BY WakeupStep
<1> QED BY <1>1, <1>2, TypingAndCount, PTL DEF Spec

-----------------------------------------------------------------------------
(* What Stop gives up.                                                     *)

\* A worker that popped a task after die_ was set is on its way out.
LateInv ==
  \A w \in Workers :
    \/ lateStarts[w] = 0
    \/ die /\ lateStarts[w] = 1 /\ pc[w] \in {"running", "check_die", "leaving", "done"}

LEMMA LateStep ==
  ASSUME TypeOK, LateInv, [Next]_vars
  PROVE  LateInv'
<1> USE DEF poolVars, pastVars, callVars, LateInv
<1>0. ASSUME NEW w \in Workers, Take(w)  PROVE LateInv'
  <2>1. /\ pc' = [pc EXCEPT ![w] = "running"] /\ die' = die
        /\ lateStarts' = IF die THEN [lateStarts EXCEPT ![w] = @ + 1] ELSE lateStarts
        /\ lateStarts[w] = 0
    BY <1>0 DEF Take, Goto
  <2> QED BY <2>1 DEF TypeOK
<1>1. ASSUME NEW w \in Workers, WorkerStep(w) \/ SpuriousWakeup(w) \/ Spawn(w), ~Take(w)
      PROVE  LateInv'
  <2>1. /\ UNCHANGED <<die, lateStarts>>
        /\ \A v \in Workers \ {w} : pc'[v] = pc[v]
        /\ \/ pc[w] \notin {"running", "check_die", "leaving", "done"}
           \/ pc'[w] \in {"running", "check_die", "leaving", "done"}
           \/ ~die
    BY <1>1 DEF WorkerStep, SpuriousWakeup, Spawn, Start, CheckDie, CheckKeep, CheckWork, Wait,
                PassThrough, Execute, Leave, Goto, TypeOK
  <2> QED BY <2>1
<1>2. ASSUME (\E t \in Tasks : PostPush(t)) \/ GetTaskCount \/ JoinCall  PROVE LateInv'
  <2>1. Awoken /\ UNCHANGED <<die, lateStarts>>
    BY <1>2, NotifyMoves DEF PostPush, GetTaskCount, JoinCall
  <2> QED BY <2>1 DEF Awoken
<1>3. ASSUME (\E t \in Tasks : PostCheckKeep(t) \/ PostCheckDie(t)) \/ OwnerWaits
             \/ StopCall \/ UNCHANGED vars
      PROVE  LateInv'
  BY <1>3 DEF PostCheckKeep, PostCheckDie, OwnerWaits, Construct, StopReturn, JoinCounted,
              JoinReturn, StopCall, vars
<1> QED BY <1>0, <1>1, <1>2, <1>3 DEF Next, PostStep

\* After Stop set die_, no worker begins more than one task.
THEOREM LateStarts == Spec => []AtMostOneLateStart
<1>1. Init => LateInv
  BY DEF Init, LateInv
<1>2. TypeOK /\ LateInv /\ [Next]_vars => LateInv'
  BY LateStep
<1>3. LateInv => AtMostOneLateStart
  BY DEF LateInv, AtMostOneLateStart
<1> QED BY <1>1, <1>2, <1>3, TypingAndCount, PTL DEF Spec

-----------------------------------------------------------------------------
(* What Join waits for.                                                    *)

\* Each call of Post enters the log once.
PostedOnce ==
  /\ \A i, j \in 1..Len(accepted) : accepted[i] = accepted[j] => i = j
  /\ \A i \in 1..Len(accepted) : post[accepted[i]] = "accepted"

\* A task that has begun is finished or held by exactly one running worker.
HeldOnce ==
  /\ finished \subseteq Begun
  /\ \A w \in Workers : task[w] # NoTask => task[w] \in Begun \ finished
  /\ \A b \in Begun : b \in finished \/ \E w \in Workers : task[w] = b
  /\ \A v, w \in Workers : task[v] = task[w] /\ task[v] # NoTask => v = w

\* A worker leaves because of Stop, or because of Join when everything that Join
\* owes has begun.
LeaveInv ==
  /\ keepRunning => ~joined /\ owner \notin {"join_count", "join_threads"}
  /\ ~keepRunning => owed <= Len(accepted)
  /\ \A w \in Workers : pc[w] = "check_work" => ~keepRunning
  /\ \A w \in Workers : pc[w] \in {"leaving", "done"} =>
        die \/ (~keepRunning /\ owed <= Len(started))
  /\ joined => \A w \in Workers : pc[w] = "done"

\* The log starts with what has begun, and its next task is the queue's head.
LEMMA Log ==
  ASSUME TypeOK, FifoExactlyOnce
  PROVE  /\ Len(started) \in Nat /\ Len(queue) \in Nat
         /\ Len(accepted) = Len(started) + Len(queue)
         /\ \A i \in 1..Len(started) : started[i] = accepted[i]
         /\ queue # <<>> => /\ Head(queue) = accepted[Len(started) + 1]
                           /\ Len(started) + 1 \in 1..Len(accepted)
<1>1. /\ Len(started) \in Nat /\ Len(queue) \in Nat
      /\ Len(accepted) = Len(started) + Len(queue)
      /\ \A i \in 1..Len(started) + Len(queue) :
           accepted[i] = IF i <= Len(started) THEN started[i] ELSE queue[i - Len(started)]
  BY ConcatProperties, LenProperties DEF TypeOK, FifoExactlyOnce
<1>2. ASSUME queue # <<>>
      PROVE  /\ Head(queue) = accepted[Len(started) + 1]
             /\ Len(started) + 1 \in 1..Len(accepted)
  <2>1. Len(queue) \in Nat \ {0} /\ Head(queue) = queue[1]
    BY <1>2, EmptySeq DEF TypeOK
  <2>2. Len(started) + 1 \in 1..Len(started) + Len(queue)
    BY <1>1, <2>1
  <2>3. (Len(started) + 1) - Len(started) = 1 /\ ~(Len(started) + 1 <= Len(started))
    BY <1>1
  <2> QED BY <1>1, <2>1, <2>2, <2>3
<1> QED BY <1>1, <1>2

LEMMA PostedOnceStep ==
  ASSUME TypeOK, PostedOnce, [Next]_vars
  PROVE  PostedOnce'
<1> USE DEF poolVars, pastVars, callVars, PostedOnce
<1>0. Len(accepted) \in Nat /\ \A i \in 1..Len(accepted) : accepted[i] \in Tasks
  BY LenProperties, ElementOfSeq DEF TypeOK
<1>1. ASSUME NEW t \in Tasks, PostPush(t)  PROVE PostedOnce'
  <2>1. /\ accepted' = Append(accepted, t) /\ post[t] = "push"
        /\ post' = [post EXCEPT ![t] = "accepted"]
    BY <1>1 DEF PostPush
  <2>2. /\ Len(accepted') = Len(accepted) + 1 /\ accepted'[Len(accepted) + 1] = t
        /\ \A i \in 1..Len(accepted) : accepted'[i] = accepted[i] /\ accepted[i] # t
    BY <2>1, AppendProperties DEF TypeOK
  <2>3. \A i \in 1..Len(accepted') : i \in 1..Len(accepted) \/ i = Len(accepted) + 1
    BY <1>0, <2>2
  <2>4. (\A i, j \in 1..Len(accepted) : accepted[i] = accepted[j] => i = j)'
    BY <2>2, <2>3
  <2>5. (\A i \in 1..Len(accepted) : post[accepted[i]] = "accepted")'
    BY <1>0, <2>1, <2>2, <2>3 DEF TypeOK
  <2> QED BY <2>4, <2>5
<1>2. ASSUME NEW t \in Tasks, PostCheckKeep(t) \/ PostCheckDie(t)  PROVE PostedOnce'
  BY <1>0, <1>2 DEF PostCheckKeep, PostCheckDie, TypeOK
<1>3. ASSUME \/ \E w \in Workers : WorkerStep(w) \/ SpuriousWakeup(w) \/ Spawn(w)
             \/ GetTaskCount \/ StopCall \/ JoinCall \/ OwnerWaits \/ UNCHANGED vars
      PROVE  PostedOnce'
  <2>1. UNCHANGED <<accepted, post>>
    BY <1>3 DEF WorkerStep, SpuriousWakeup, Spawn, Start, CheckDie, CheckKeep, CheckWork, Wait,
                Take, PassThrough, Execute, Leave, GetTaskCount, StopCall, JoinCall, OwnerWaits,
                Construct, StopReturn, JoinCounted, JoinReturn, vars
  <2> QED BY <2>1
<1> QED BY <1>1, <1>2, <1>3 DEF Next, PostStep

LEMMA HeldOnceStep ==
  ASSUME TypeOK, TypeOK', FifoExactlyOnce, PostedOnce, HeldOnce, [Next]_vars
  PROVE  HeldOnce'
<1> USE DEF poolVars, pastVars, callVars
<1>1. ASSUME NEW w \in Workers, Take(w)  PROVE HeldOnce'
  <2> DEFINE h == Head(queue)
  <2>1. /\ started' = Append(started, h) /\ task' = [task EXCEPT ![w] = h]
        /\ finished' = finished /\ queue # <<>> /\ h \in Tasks /\ task[w] = NoTask
    BY <1>1, HeadTailProperties DEF Take, TypeOK
  <2>2. h \notin Begun
    BY <2>1, Log DEF PostedOnce, Begun
  <2>3. Begun' = Begun \union {h}
    <3>1. /\ Len(started') = Len(started) + 1 /\ started'[Len(started) + 1] = h
          /\ \A i \in 1..Len(started) : started'[i] = started[i]
      BY <2>1, AppendProperties DEF TypeOK
    <3>2. Len(started) \in Nat
      BY LenProperties DEF TypeOK
    <3>3. \A i : i \in 1..Len(started') <=> i \in 1..Len(started) \/ i = Len(started) + 1
      BY <3>1, <3>2
    <3> QED BY <3>1, <3>3 DEF Begun
  <2> HIDE DEF h
  <2>4. task'[w] = h /\ \A v \in Workers \ {w} : task'[v] = task[v]
    BY <2>1 DEF TypeOK
  <2>5. h # NoTask
    BY <2>1, PoolAssumption
  <2>6. (finished \subseteq Begun)'
    BY <2>1, <2>3 DEF HeldOnce
  <2>7. (\A v \in Workers : task[v] # NoTask => task[v] \in Begun \ finished)'
    BY <2>1, <2>2, <2>3, <2>4 DEF HeldOnce
  <2>8. (\A b \in Begun : b \in finished \/ \E v \in Workers : task[v] = b)'
    <3>1. ASSUME NEW b \in Begun, b \notin finished
          PROVE  \E v \in Workers : task'[v] = b
      <4>1. PICK v \in Workers : task[v] = b
        BY <3>1 DEF HeldOnce
      <4>2. b # NoTask
        BY <2>1, <4>1, <3>1, ElementOfSeq, PoolAssumption DEF Begun, TypeOK
      <4> QED BY <2>1, <2>4, <4>1, <4>2
    <3> QED BY <2>1, <2>3, <2>4, <3>1
  <2>9. (\A u, v \in Workers : task[u] = task[v] /\ task[u] # NoTask => u = v)'
    BY <2>2, <2>4 DEF HeldOnce
  <2> QED BY <2>6, <2>7, <2>8, <2>9 DEF HeldOnce
<1>2. ASSUME NEW w \in Workers, Execute(w)  PROVE HeldOnce'
  <2>1. /\ finished' = finished \union {task[w]} /\ Begun' = Begun /\ task[w] # NoTask
        /\ task'[w] = NoTask /\ \A v \in Workers \ {w} : task'[v] = task[v]
    BY <1>2 DEF Execute, TypeOK, Begun
  <2> QED BY <2>1 DEF HeldOnce
<1>3. ASSUME NEW w \in Workers, WorkerStep(w) \/ SpuriousWakeup(w) \/ Spawn(w),
             ~Take(w), ~Execute(w)
      PROVE  UNCHANGED <<started, finished, task>>
  BY <1>3 DEF WorkerStep, SpuriousWakeup, Spawn, Start, CheckDie, CheckKeep, CheckWork, Wait,
              PassThrough, Leave
<1>4. ASSUME (\E t \in Tasks : PostStep(t)) \/ GetTaskCount \/ StopCall \/ JoinCall \/ OwnerWaits
             \/ UNCHANGED vars
      PROVE  UNCHANGED <<started, finished, task>>
  BY <1>4 DEF PostStep, PostCheckKeep, PostCheckDie, PostPush, GetTaskCount, StopCall, JoinCall,
              OwnerWaits, Construct, StopReturn, JoinCounted, JoinReturn, vars
<1>5. ASSUME UNCHANGED <<started, finished, task>>  PROVE HeldOnce'
  BY <1>5 DEF HeldOnce, Begun
<1> QED BY <1>1, <1>2, <1>3, <1>4, <1>5 DEF Next

LEMMA LeaveStep ==
  ASSUME TypeOK, FifoExactlyOnce, LeaveInv, [Next]_vars
  PROVE  LeaveInv'
<1> USE DEF poolVars, pastVars, callVars
<1>0. /\ Len(started) \in Nat /\ Len(accepted) \in Nat /\ owed \in Nat
      /\ queue = <<>> => Len(accepted) = Len(started)
  BY Log, LenProperties, EmptySeq DEF TypeOK
<1>1. ASSUME NEW w \in Workers, Take(w)  PROVE LeaveInv'
  <2>1. /\ Len(started') = Len(started) + 1 /\ pc' = [pc EXCEPT ![w] = "running"]
        /\ pc[w] = "acquire" /\ UNCHANGED <<keepRunning, joined, owner, owed, accepted, die>>
    BY <1>1, HeadTailProperties, AppendProperties DEF Take, Goto, TypeOK
  <2> QED BY <1>0, <2>1 DEF LeaveInv, TypeOK
<1>2. ASSUME NEW w \in Workers, WorkerStep(w) \/ SpuriousWakeup(w) \/ Spawn(w), ~Take(w)
      PROVE  LeaveInv'
  <2>1. /\ UNCHANGED <<keepRunning, joined, owner, owed, accepted, started, die>>
        /\ \A v \in Workers \ {w} : pc'[v] = pc[v]
        /\ pc[w] # "done"
        /\ pc'[w] = "check_work" => ~keepRunning
        /\ pc'[w] \in {"leaving", "done"} =>
             die \/ pc[w] = "leaving" \/ (pc[w] = "check_work" /\ queue = <<>>)
    BY <1>2 DEF WorkerStep, SpuriousWakeup, Spawn, Start, CheckDie, CheckKeep, CheckWork, Wait,
                PassThrough, Execute, Leave, Goto, TypeOK
  <2> QED BY <1>0, <2>1 DEF LeaveInv
<1>3. ASSUME NEW t \in Tasks, PostPush(t)  PROVE LeaveInv'
  <2>1. Awoken /\ UNCHANGED <<keepRunning, joined, owner, owed, started, die>>
    BY <1>3, NotifyMoves DEF PostPush
  <2>2. Len(accepted') = Len(accepted) + 1
    BY <1>3, AppendProperties DEF PostPush, TypeOK
  <2> QED BY <1>0, <2>1, <2>2 DEF LeaveInv, Awoken
<1>4. ASSUME GetTaskCount  PROVE LeaveInv'
  <2>1. Awoken /\ UNCHANGED <<keepRunning, joined, owner, owed, accepted, started, die>>
    BY <1>4, NotifyMoves DEF GetTaskCount
  <2> QED BY <2>1 DEF LeaveInv, Awoken
<1>5. ASSUME JoinCall  PROVE LeaveInv'
  <2>1. Awoken /\ UNCHANGED <<joined, accepted, started, die>> /\ ~keepRunning'
    BY <1>5, NotifyMoves DEF JoinCall
  <2>2. owed' = IF keepRunning THEN Len(accepted) ELSE owed
    BY <1>5 DEF JoinCall
  <2> QED BY <1>0, <2>1, <2>2 DEF LeaveInv, Awoken
<1>6. ASSUME StopCall  PROVE LeaveInv'
  BY <1>6 DEF StopCall, LeaveInv
<1>7. ASSUME OwnerWaits  PROVE LeaveInv'
  <2>1. /\ UNCHANGED <<keepRunning, owed, accepted, started, die, pc>>
        /\ owner' \in {"join_count", "join_threads"} => owner = "join_count"
        /\ joined' = joined \/ (owner = "join_threads" /\ \A w \in Workers : pc[w] = "done")
    BY <1>7 DEF OwnerWaits, Construct, StopReturn, JoinCounted, JoinReturn, At
  <2> QED BY <2>1 DEF LeaveInv
<1>8. ASSUME (\E t \in Tasks : PostCheckKeep(t) \/ PostCheckDie(t)) \/ UNCHANGED vars
      PROVE  LeaveInv'
  BY <1>8 DEF PostCheckKeep, PostCheckDie, vars, LeaveInv
<1> QED BY <1>1, <1>2, <1>3, <1>4, <1>5, <1>6, <1>7, <1>8 DEF Next, PostStep

\* The inductive invariant behind what Join promises.
DrainInv == TypeOK /\ ThreadCountExact /\ FifoExactlyOnce /\ PostedOnce /\ HeldOnce /\ LeaveInv

LEMMA DrainInvariant == Spec => []DrainInv
<1>1. Init => DrainInv
  <2> SUFFICES ASSUME Init PROVE DrainInv
    OBVIOUS
  <2>1. FifoExactlyOnce
    BY ConcatEmptySeq, EmptySeq DEF Init, FifoExactlyOnce
  <2>2. TypeOK /\ ThreadCountExact
    BY TypeInit
  <2>3. PostedOnce /\ HeldOnce /\ LeaveInv
    BY DEF Init, PostedOnce, HeldOnce, LeaveInv, Begun
  <2> QED BY <2>1, <2>2, <2>3 DEF DrainInv
<1>2. DrainInv /\ [Next]_vars => DrainInv'
  BY TypeStep, FifoStep, PostedOnceStep, HeldOnceStep, LeaveStep DEF DrainInv
<1> QED BY <1>1, <1>2, PTL DEF Spec

\* A worker in the loop's exit has a task of its own no longer.
LEMMA DrainedWhenDone ==
  ASSUME DrainInv, \A w \in Workers : pc[w] = "done"
  PROVE  At({"running"}) = {} /\ finished = Begun /\ (die \/ owed <= Len(started))
<1>1. \A w \in Workers : task[w] = NoTask
  BY DEF DrainInv, TypeOK
<1>2. \A b \in Begun : b # NoTask
  BY ElementOfSeq, PoolAssumption DEF DrainInv, TypeOK, Begun
<1>3. finished = Begun
  BY <1>1, <1>2 DEF DrainInv, HeldOnce
<1>4. die \/ owed <= Len(started)
  BY PoolAssumption DEF DrainInv, LeaveInv
<1> QED BY <1>3, <1>4 DEF At

\* When Join has returned, nothing runs and, unless Stop was called, everything
\* that was accepted before the call of Join has run to completion.
THEOREM Drains == Spec => []JoinDrains
<1>1. DrainInv => JoinDrains
  BY DrainedWhenDone DEF DrainInv, LeaveInv, JoinDrains
<1> QED BY <1>1, DrainInvariant, PTL

-----------------------------------------------------------------------------
(* The pool implements the task executor.                                  *)

LEMMA ExecutorInit ==
  ASSUME Init
  PROVE  Executor!Init
BY DEF Init, Executor!Init

\* Push, pop, the end of a task, Stop, the first Join and its return are the
\* executor's steps; everything else is invisible to it.
LEMMA ExecutorStep ==
  ASSUME DrainInv, DrainInv', [Next]_vars
  PROVE  [Executor!Next]_(Executor!vars)
<1> DEFINE seen == <<accepted, started, finished, keepRunning, joined, owed, die>>
<1> USE DEF poolVars, pastVars, callVars
<1>0. TypeOK /\ FifoExactlyOnce /\ PostedOnce /\ HeldOnce /\ LeaveInv
  BY DEF DrainInv
<1>1. ASSUME NEW w \in Workers, Take(w)  PROVE Executor!Begin
  <2>1. Len(started') = Len(started) + 1 /\ queue # <<>>
        /\ UNCHANGED <<accepted, finished, keepRunning, joined, owed, die>>
    BY <1>0, <1>1, HeadTailProperties, AppendProperties DEF Take, TypeOK
  <2>2. Len(started) < Len(accepted)
    BY <1>0, <2>1, Log
  <2>3. ~joined
    BY <1>0, <1>1 DEF Take, LeaveInv
  <2> QED BY <2>1, <2>2, <2>3 DEF Executor!Begin
<1>2. ASSUME NEW w \in Workers, Execute(w)  PROVE Executor!Finish(task[w])
  <2>1. task[w] \in Begun \ finished
    BY <1>0, <1>2 DEF Execute, TypeOK, HeldOnce
  <2>2. Begun = Executor!Begun
    BY <1>0, Log DEF Begun, Executor!Begun
  <2> QED BY <1>2, <2>1, <2>2 DEF Execute, Executor!Finish
<1>3. ASSUME NEW t \in Tasks, PostPush(t)  PROVE Executor!Submit(t)
  <2>1. \A i \in 1..Len(accepted) : accepted[i] # t
    BY <1>0, <1>3 DEF PostPush, PostedOnce
  <2> QED BY <1>3, <2>1 DEF PostPush, Executor!Submit
<1>4. ASSUME StopCall  PROVE Executor!Abort
  BY <1>4 DEF StopCall, Executor!Abort
<1>5. ASSUME JoinCall  PROVE Executor!Close \/ UNCHANGED seen
  BY <1>0, <1>5 DEF JoinCall, LeaveInv, TypeOK, Executor!Close
<1>6. ASSUME JoinReturn  PROVE Executor!Drain \/ UNCHANGED seen
  <2>1. CASE joined
    BY <1>6, <2>1 DEF JoinReturn
  <2>2. CASE ~joined
    <3>1. \A w \in Workers : pc[w] = "done"
      BY <1>6 DEF JoinReturn, At
    <3>2. finished = Begun /\ (die \/ owed <= Len(started))
      BY <3>1, DrainedWhenDone
    <3>3. Begun = Executor!Begun
      BY <1>0, Log DEF Begun, Executor!Begun
    <3>4. ~keepRunning
      BY <1>0, <1>6 DEF JoinReturn, LeaveInv
    <3> QED BY <1>6, <2>2, <3>2, <3>3, <3>4 DEF JoinReturn, Executor!Drain
  <2> QED BY <1>0, <2>1, <2>2 DEF TypeOK
<1>7. ASSUME NEW w \in Workers, WorkerStep(w) \/ SpuriousWakeup(w) \/ Spawn(w),
             ~Take(w), ~Execute(w)
      PROVE  UNCHANGED seen
  BY <1>7 DEF WorkerStep, SpuriousWakeup, Spawn, Start, CheckDie, CheckKeep, CheckWork, Wait,
              PassThrough, Leave
<1>8. ASSUME \/ \E t \in Tasks : PostCheckKeep(t) \/ PostCheckDie(t)
             \/ GetTaskCount \/ Construct \/ StopReturn \/ JoinCounted \/ UNCHANGED vars
      PROVE  UNCHANGED seen
  BY <1>8 DEF PostCheckKeep, PostCheckDie, GetTaskCount, Construct, StopReturn, JoinCounted, vars
<1>9. ASSUME UNCHANGED seen  PROVE UNCHANGED Executor!vars
  BY <1>9 DEF Executor!vars
<1>10. ASSUME NEW w \in Workers, Execute(w)  PROVE task[w] \in Tasks
  BY <1>0, <1>10 DEF Execute, TypeOK
<1> HIDE DEF seen
<1> QED BY <1>1, <1>2, <1>3, <1>4, <1>5, <1>6, <1>7, <1>8, <1>9, <1>10
        DEF Next, PostStep, OwnerWaits, Executor!Next

\* Every behaviour of the pool, seen through its log of tasks, is one of the task
\* executor's: in order, once each, and drained when Join says so.
THEOREM Implements == Spec => ImplementsTaskExecutor
<1>1. Init => Executor!Init
  BY ExecutorInit
<1>2. DrainInv /\ DrainInv' /\ [Next]_vars => [Executor!Next]_(Executor!vars)
  BY ExecutorStep
<1> QED BY <1>1, <1>2, DrainInvariant, PTL DEF Spec, Executor!Spec, ImplementsTaskExecutor
=============================================================================
