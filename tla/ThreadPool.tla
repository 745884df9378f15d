----------------------------- MODULE ThreadPool -----------------------------
(***************************************************************************)
(* intraprocess::ThreadPool: N worker threads, a FIFO of packaged tasks    *)
(* under one mutex, a condition variable, and two atomic flags that are    *)
(* read outside the mutex.                                                 *)
(*                                                                         *)
(* A section under lock_ is one action; every access to an atomic outside  *)
(* of it is an action of its own.  One element of Tasks is one call of     *)
(* Post, made by whatever thread: calls overlap freely.  One owner thread  *)
(* constructs the pool and calls Stop and Join, any number of times and in *)
(* any order (the destructor is one more Join).                            *)
(***************************************************************************)
EXTENDS Integers, Sequences, FiniteSets

CONSTANTS Workers, Tasks, NoTask

\* The constructor throws for a pool of zero threads.
ASSUME PoolAssumption ==
  /\ IsFiniteSet(Workers)
  /\ Workers # {}
  /\ NoTask \notin Tasks

VARIABLES
  pc,          \* where each worker is in RunTask
  task,        \* RunTask's local `task'; NoTask stands for an invalid one
  queue,       \* workQueue_
  keepRunning, \* keepRunning_
  die,         \* die_
  numThreads,  \* numThreads_
  post,        \* how far each call of Post is
  owner,       \* where the owner thread is
  \* What follows only records the past.
  accepted,    \* every task pushed, in order
  started,     \* every task popped, in order
  finished,    \* the tasks that ran to completion
  owed,        \* Len(accepted) when Join was first called
  joined,      \* some Join has returned
  lateStarts   \* how many tasks each worker popped after die_ was set

poolVars == <<pc, task, queue, keepRunning, die, numThreads>>
callVars == <<post, owner>>
pastVars == <<accepted, started, finished, owed, joined, lateStarts>>
vars == <<poolVars, callVars, pastVars>>

WorkerStates == {"unspawned", "starting", "check_die", "check_keep", "check_work",
                 "acquire", "waiting", "running", "leaving", "done"}
PostStates == {"unposted", "check_die", "push", "accepted", "rejected"}
OwnerStates == {"spawning", "idle", "stop_join", "join_count", "join_threads"}

At(S) == {w \in Workers : pc[w] \in S}
Waiting == At({"waiting"})
Counted == Workers \ At({"unspawned", "starting", "done"})

Init ==
  /\ pc = [w \in Workers |-> "unspawned"]
  /\ task = [w \in Workers |-> NoTask]
  /\ queue = <<>>
  /\ keepRunning = TRUE
  /\ die = FALSE
  /\ numThreads = 0
  /\ post = [t \in Tasks |-> "unposted"]
  /\ owner = "spawning"
  /\ accepted = <<>> /\ started = <<>> /\ finished = {}
  /\ owed = 0 /\ joined = FALSE
  /\ lateStarts = [w \in Workers |-> 0]

Goto(w, state) == pc' = [pc EXCEPT ![w] = state]

-----------------------------------------------------------------------------
(* The condition variable.                                                 *)

\* notify_one: some waiting worker goes for the mutex; without one it is lost.
NotifyOne ==
  \/ Waiting = {} /\ UNCHANGED pc
  \/ \E w \in Waiting : Goto(w, "acquire")

NotifyAll == pc' = [w \in Workers |-> IF w \in Waiting THEN "acquire" ELSE pc[w]]

\* std::condition_variable may wake a waiter nobody notified.
SpuriousWakeup(w) ==
  /\ pc[w] = "waiting"
  /\ Goto(w, "acquire")
  /\ UNCHANGED <<task, queue, keepRunning, die, numThreads, callVars, pastVars>>

ThreadsShouldProceed == ~keepRunning \/ queue # <<>>

-----------------------------------------------------------------------------
(* RunTask, the body of a worker thread.                                   *)

\* AddToThreadCounter(1)
Start(w) ==
  /\ pc[w] = "starting"
  /\ numThreads' = numThreads + 1
  /\ Goto(w, "check_die")
  /\ UNCHANGED <<task, queue, keepRunning, die, callVars, pastVars>>

\* The loop condition, read one atomic at a time: first !Die() ...
CheckDie(w) ==
  /\ pc[w] = "check_die"
  /\ Goto(w, IF die THEN "leaving" ELSE "check_keep")
  /\ UNCHANGED <<task, queue, keepRunning, die, numThreads, callVars, pastVars>>

\* ... then KeepRunning() ...
CheckKeep(w) ==
  /\ pc[w] = "check_keep"
  /\ Goto(w, IF keepRunning THEN "acquire" ELSE "check_work")
  /\ UNCHANGED <<task, queue, keepRunning, die, numThreads, callVars, pastVars>>

BugLeaveWithWork(w) ==
  /\ pc[w] = "check_work"
  /\ Goto(w, "leaving")
  /\ UNCHANGED <<task, queue, keepRunning, die, numThreads, callVars, pastVars>>

\* ... then HasWorkThreadSafe(), under the mutex.
CheckWork(w) ==
  /\ pc[w] = "check_work"
  /\ Goto(w, IF queue # <<>> THEN "acquire" ELSE "leaving")
  /\ UNCHANGED <<task, queue, keepRunning, die, numThreads, callVars, pastVars>>

\* threadNotifier_.wait with a false predicate releases the mutex and blocks.
Wait(w) ==
  /\ pc[w] = "acquire"
  /\ ~ThreadsShouldProceed
  /\ Goto(w, "waiting")
  /\ UNCHANGED <<task, queue, keepRunning, die, numThreads, callVars, pastVars>>

BugTakeNewest(w) ==
  /\ pc[w] = "acquire"
  /\ queue # <<>>
  /\ task' = [task EXCEPT ![w] = queue[Len(queue)]]
  /\ started' = Append(started, queue[Len(queue)])
  /\ queue' = SubSeq(queue, 1, Len(queue) - 1)
  /\ lateStarts' = IF die THEN [lateStarts EXCEPT ![w] = @ + 1] ELSE lateStarts
  /\ Goto(w, "running")
  /\ UNCHANGED <<keepRunning, die, numThreads, callVars, accepted, finished, owed, joined>>

\* The predicate holds and there is work: PopWorkQueue.
Take(w) ==
  /\ pc[w] = "acquire"
  /\ queue # <<>>
  /\ task' = [task EXCEPT ![w] = Head(queue)]
  /\ started' = Append(started, Head(queue))
  /\ queue' = Tail(queue)
  /\ lateStarts' = IF die THEN [lateStarts EXCEPT ![w] = @ + 1] ELSE lateStarts
  /\ Goto(w, "running")
  /\ UNCHANGED <<keepRunning, die, numThreads, callVars, accepted, finished, owed, joined>>

\* The predicate holds because of Join, and another worker took the work.
PassThrough(w) ==
  /\ pc[w] = "acquire"
  /\ ThreadsShouldProceed /\ queue = <<>>
  /\ Goto(w, "check_die")
  /\ UNCHANGED <<task, queue, keepRunning, die, numThreads, callVars, pastVars>>

\* `task' declared outside the loop keeps the task of the last turn.
BugTaskOutlivesTurn(w) ==
  /\ pc[w] = "running"
  /\ finished' = finished \union {task[w]}
  /\ Goto(w, "check_die")
  /\ UNCHANGED <<task, queue, keepRunning, die, numThreads, callVars,
                 accepted, started, owed, joined, lateStarts>>

\* task(): a packaged_task keeps what its function throws.
Execute(w) ==
  /\ pc[w] = "running"
  /\ finished' = finished \union {task[w]}
  /\ task' = [task EXCEPT ![w] = NoTask]
  /\ Goto(w, "check_die")
  /\ UNCHANGED <<queue, keepRunning, die, numThreads, callVars,
                 accepted, started, owed, joined, lateStarts>>

\* AddToThreadCounter(-1): size_t(-1) added to a positive counter subtracts one.
Leave(w) ==
  /\ pc[w] = "leaving"
  /\ numThreads' = numThreads - 1
  /\ Goto(w, "done")
  /\ UNCHANGED <<task, queue, keepRunning, die, callVars, pastVars>>

WorkerStep(w) ==
  \/ Start(w)
  \/ CheckDie(w)
  \/ CheckKeep(w)
  \/ CheckWork(w)
  \/ Wait(w)
  \/ Take(w)
  \/ PassThrough(w)
  \/ Execute(w)
  \/ Leave(w)

-----------------------------------------------------------------------------
(* Post, and GetTaskCount, called by any thread once the pool is built.    *)

PostCheckKeep(t) ==
  /\ post[t] = "unposted" /\ owner # "spawning"
  /\ post' = [post EXCEPT ![t] = IF keepRunning THEN "check_die" ELSE "rejected"]
  /\ UNCHANGED <<poolVars, owner, pastVars>>

PostCheckDie(t) ==
  /\ post[t] = "check_die"
  /\ post' = [post EXCEPT ![t] = IF die THEN "rejected" ELSE "push"]
  /\ UNCHANGED <<poolVars, owner, pastVars>>

BugPushSilently(t) ==
  /\ post[t] = "push"
  /\ queue' = Append(queue, t)
  /\ accepted' = Append(accepted, t)
  /\ post' = [post EXCEPT ![t] = "accepted"]
  /\ UNCHANGED <<pc, task, keepRunning, die, numThreads, owner,
                 started, finished, owed, joined, lateStarts>>

\* The flags are not looked at again under the mutex.
PostPush(t) ==
  /\ post[t] = "push"
  /\ queue' = Append(queue, t)
  /\ accepted' = Append(accepted, t)
  /\ NotifyOne
  /\ post' = [post EXCEPT ![t] = "accepted"]
  /\ UNCHANGED <<task, keepRunning, die, numThreads, owner,
                 started, finished, owed, joined, lateStarts>>

PostStep(t) == PostCheckKeep(t) \/ PostCheckDie(t) \/ PostPush(t)

\* It also notifies.
GetTaskCount ==
  /\ owner # "spawning"
  /\ NotifyOne
  /\ UNCHANGED <<task, queue, keepRunning, die, numThreads, callVars, pastVars>>

-----------------------------------------------------------------------------
(* The owner thread: constructor, Stop, Join.                              *)

Spawn(w) ==
  /\ owner = "spawning"
  /\ pc[w] = "unspawned"
  /\ Goto(w, "starting")
  /\ UNCHANGED <<task, queue, keepRunning, die, numThreads, callVars, pastVars>>

\* The constructor spins until every thread counted itself.
Construct ==
  /\ owner = "spawning"
  /\ At({"unspawned"}) = {}
  /\ numThreads = Cardinality(Workers)
  /\ owner' = "idle"
  /\ UNCHANGED <<poolVars, post, pastVars>>

\* Nobody is notified.
StopCall ==
  /\ owner = "idle"
  /\ die' = TRUE
  /\ owner' = "stop_join"
  /\ UNCHANGED <<pc, task, queue, keepRunning, numThreads, post, pastVars>>

\* Every th.join() of Stop has returned.
StopReturn ==
  /\ owner = "stop_join"
  /\ At({"done"}) = Workers
  /\ owner' = "idle"
  /\ UNCHANGED <<poolVars, post, pastVars>>

BugJoinSilently ==
  /\ owner = "idle"
  /\ keepRunning' = FALSE
  /\ owed' = IF keepRunning THEN Len(accepted) ELSE owed
  /\ owner' = "join_count"
  /\ UNCHANGED <<pc, task, queue, die, numThreads, post,
                 accepted, started, finished, joined, lateStarts>>

JoinCall ==
  /\ owner = "idle"
  /\ keepRunning' = FALSE
  /\ NotifyAll
  /\ owed' = IF keepRunning THEN Len(accepted) ELSE owed
  /\ owner' = "join_count"
  /\ UNCHANGED <<task, queue, die, numThreads, post,
                 accepted, started, finished, joined, lateStarts>>

\* The spin on GetThreadCount() ends.
JoinCounted ==
  /\ owner = "join_count"
  /\ numThreads = 0
  /\ owner' = "join_threads"
  /\ UNCHANGED <<poolVars, post, pastVars>>

JoinReturn ==
  /\ owner = "join_threads"
  /\ At({"done"}) = Workers
  /\ owner' = "idle"
  /\ joined' = TRUE
  /\ UNCHANGED <<poolVars, post, accepted, started, finished, owed, lateStarts>>

OwnerWaits == Construct \/ StopReturn \/ JoinCounted \/ JoinReturn

-----------------------------------------------------------------------------
Next ==
  \/ \E w \in Workers : WorkerStep(w) \/ SpuriousWakeup(w) \/ Spawn(w)
  \/ \E t \in Tasks : PostStep(t)
  \/ GetTaskCount
  \/ StopCall
  \/ JoinCall
  \/ OwnerWaits

Spec == Init /\ [][Next]_vars

\* Threads keep being scheduled, tasks return, and a thread that wants the
\* mutex gets it.  Nobody has to wake a waiter spuriously, to call Post, Stop
\* or Join, or to ask for the task count.
Fairness ==
  /\ \A w \in Workers : WF_vars(WorkerStep(w)) /\ WF_vars(Spawn(w))
  /\ WF_vars(OwnerWaits)

FairSpec == Spec /\ Fairness

-----------------------------------------------------------------------------
(* Properties.                                                             *)

\* Every variable has its type, the counter never wraps below 0, and a worker
\* holds a valid task exactly while it runs one.
TypeOK ==
  /\ pc \in [Workers -> WorkerStates]
  /\ task \in [Workers -> Tasks \union {NoTask}]
  /\ \A w \in Workers : pc[w] = "running" <=> task[w] # NoTask
  /\ queue \in Seq(Tasks)
  /\ keepRunning \in BOOLEAN /\ die \in BOOLEAN
  /\ numThreads \in Nat
  /\ post \in [Tasks -> PostStates]
  /\ owner \in OwnerStates
  /\ accepted \in Seq(Tasks) /\ started \in Seq(Tasks)
  /\ finished \subseteq Tasks
  /\ owed \in Nat /\ joined \in BOOLEAN
  /\ lateStarts \in [Workers -> Nat]

\* The counter that the constructor and Join spin on is exactly the number of
\* workers between their two calls of AddToThreadCounter, whatever order they
\* start and leave in.
ThreadCountExact == numThreads = Cardinality(Counted)

\* Accepted tasks are popped in the order they were pushed and none is lost or
\* popped twice, however many workers and posters race for the queue.
FifoExactlyOnce == accepted = started \o queue

\* A notification is never lost: while a worker sleeps in the condition variable
\* Join has not been called, and every queued task has a worker of its own
\* that is already on its way to the mutex to pop it.
NoLostWakeup ==
  Waiting # {} => keepRunning /\ Len(queue) <= Cardinality(At({"acquire"}))

Begun == {started[i] : i \in 1..Len(started)}

\* When a Join returns, in a pool that was never stopped, every task accepted
\* before the call has run to completion, and no task is running.
JoinDrains ==
  joined => /\ At({"running"}) = {}
            /\ finished = Begun
            /\ die \/ owed <= Len(started)

\* After Stop has set die_, each worker begins at most one more task: Stop gives
\* the rest of the queue up.
AtMostOneLateStart == \A w \in Workers : lateStarts[w] <= 1

\* The pool implements the task executor.
Executor == INSTANCE TaskExecutor WITH
  begun <- Len(started),
  mode <- IF joined THEN "drained" ELSE IF keepRunning THEN "open" ELSE "draining",
  aborted <- die
ImplementsTaskExecutor == Executor!Spec

\* A Join returns, even when it races with Post, GetTaskCount and wake-ups.
JoinReturns == owner = "join_count" ~> owner = "idle"

\* As long as nobody calls Stop or Join, every accepted task is run.
AcceptedTasksRun ==
  \A t \in Tasks : post[t] = "accepted" ~> (t \in finished \/ die \/ ~keepRunning)

\* Stop returns: "Stop the thread pool" and the test that expects a thread count
\* of zero after it.  It does not for a pool with an idle worker.
StopReturns == owner = "stop_join" ~> owner = "idle"
=============================================================================
