------------------------------ MODULE TCPServer ------------------------------
(***************************************************************************)
(* interprocess::TCPServer: the chain of asynchronous accepts and the      *)
(* threads that run the io_context.                                        *)
(*                                                                         *)
(* Start makes the acceptor listen, issues one async_accept and creates    *)
(* the threads.  The completion handler of an accept runs the application's *)
(* StartApplication and then issues the next async_accept.  The thread     *)
(* that owns the server may run the io_context as well (main_tcp.cpp).     *)
(*                                                                         *)
(* The io_context (external) runs a handler on one of the threads inside   *)
(* run(); once it is stopped, by stop() or for want of work, run() returns *)
(* and it never starts a handler again.                                    *)
(***************************************************************************)
EXTENDS Naturals

CONSTANTS Clients, Threads, Owner, Faults

\* Faults: what may fail.
ASSUME ServerAssumption ==
  /\ Owner \notin Threads
  /\ Faults \subseteq {"listen", "thread", "accept", "application"}

Runners == Threads \cup {Owner}

VARIABLES
  acceptor, \* "half" if Start threw before the acceptor listened
  accepts,  \* how many async_accepts are outstanding
  stopped,  \* the io_context is stopped
  thread,   \* what each thread does: it is in run(), or in StartApplication, or ...
  client,   \* where each client's connection is
  ownersCall, \* the call of Join that the owner is in
  ended,    \* an exception left a thread of the server, which ends the process
  \* What follows only records the past.
  broken,   \* a handler ended without issuing the next accept
  joined    \* Join has returned

serverVars == <<acceptor, accepts, stopped, thread, client, ownersCall, ended, broken, joined>>

ServerInit ==
  /\ acceptor = "closed"
  /\ accepts = 0
  /\ stopped = FALSE
  /\ thread = [t \in Runners |-> "none"]
  /\ client = [c \in Clients |-> "away"]
  /\ ownersCall = "none"
  /\ ended = FALSE /\ broken = FALSE /\ joined = FALSE

\* An io_context has work while an accept, a handler or a connection's read is
\* outstanding.
Work ==
  \/ accepts > 0
  \/ \E t \in Runners : thread[t] = "starting"
  \/ \E c \in Clients : client[c] = "live"

StopIfIdle == stopped' = (stopped \/ ~Work')

OwnerFree == ownersCall = "none" /\ thread[Owner] = "none"

-----------------------------------------------------------------------------
(* The owner's calls.                                                      *)

\* A Start that is repeated although the acceptor is open.
BugStartAgain ==
  /\ OwnerFree
  /\ acceptor' = "listening"
  /\ accepts' = accepts + 1
  /\ thread' = [t \in Runners |-> IF t = Owner THEN "none" ELSE "running"]
  /\ UNCHANGED <<stopped, client, ownersCall, ended, broken, joined>>

StartReturns ==
  /\ OwnerFree
  /\ acceptor = "closed"
  /\ acceptor' = "listening"
  /\ accepts' = accepts + 1
  /\ thread' = [t \in Runners |-> IF t = Owner THEN "none" ELSE "running"]
  /\ UNCHANGED <<stopped, client, ownersCall, ended, broken, joined>>

\* An acceptor that is open cannot be opened, so after a failure every other Start
\* throws too.  If a thread cannot be created, those before it stay.
StartThrows ==
  /\ OwnerFree
  /\ \/ /\ acceptor # "closed"
        /\ UNCHANGED <<acceptor, accepts, thread>>
     \/ /\ acceptor = "closed" /\ "listen" \in Faults
        /\ acceptor' \in {"closed", "half"}
        /\ UNCHANGED <<accepts, thread>>
     \/ /\ acceptor = "closed" /\ "thread" \in Faults
        /\ acceptor' = "listening"
        /\ accepts' = accepts + 1
        /\ \E created \in SUBSET Threads \ {Threads} :
             thread' = [t \in Runners |-> IF t \in created THEN "running" ELSE "none"]
  /\ UNCHANGED <<stopped, client, ownersCall, ended, broken, joined>>

\* The owner calls io_context.run().
OwnerRuns ==
  /\ OwnerFree
  /\ thread' = [thread EXCEPT ![Owner] = "running"]
  /\ stopped' = (stopped \/ ~Work)
  /\ UNCHANGED <<acceptor, accepts, client, ownersCall, ended, broken, joined>>

BugJoinWithoutStop ==
  /\ OwnerFree
  /\ ownersCall' = "join"
  /\ UNCHANGED <<acceptor, accepts, stopped, thread, client, ended, broken, joined>>

\* Join, also called by the destructor, stops the io_context and waits for the threads.
JoinCall ==
  /\ OwnerFree
  /\ ownersCall' = "join"
  /\ stopped' = TRUE
  /\ UNCHANGED <<acceptor, accepts, thread, client, ended, broken, joined>>

\* Only one of the threads is waited for.
BugJoinOne ==
  /\ ownersCall = "join"
  /\ \E t \in Threads : thread[t] \in {"none", "exited"}
  /\ ownersCall' = "none"
  /\ joined' = TRUE
  /\ UNCHANGED <<acceptor, accepts, stopped, thread, client, ended, broken>>

JoinReturn ==
  /\ ownersCall = "join"
  /\ \A t \in Threads : thread[t] \in {"none", "exited"}
  /\ ownersCall' = "none"
  /\ joined' = TRUE
  /\ UNCHANGED <<acceptor, accepts, stopped, thread, client, ended, broken>>

-----------------------------------------------------------------------------
(* The threads inside run().                                               *)

\* The accept is renewed before the application is started.
BugAcceptFirst(t) ==
  /\ thread[t] = "running" /\ ~stopped /\ accepts > 0
  /\ \E c \in Clients :
       /\ client[c] = "backlog"
       /\ client' = [client EXCEPT ![c] = "starting"]
  /\ thread' = [thread EXCEPT ![t] = "starting"]
  /\ UNCHANGED <<acceptor, accepts, stopped, ownersCall, ended, broken, joined>>

\* HandleNewConnection: a client has been accepted.
HandleNewConnection(t) ==
  /\ thread[t] = "running" /\ ~stopped /\ accepts > 0
  /\ \E c \in Clients :
       /\ client[c] = "backlog"
       /\ client' = [client EXCEPT ![c] = "starting"]
  /\ accepts' = accepts - 1
  /\ thread' = [thread EXCEPT ![t] = "starting"]
  /\ UNCHANGED <<acceptor, stopped, ownersCall, ended, broken, joined>>

\* HandleNewConnection returns at once if the accept failed.
AcceptFails(t) ==
  /\ "accept" \in Faults
  /\ thread[t] = "running" /\ ~stopped /\ accepts > 0
  /\ accepts' = accepts - 1
  /\ broken' = TRUE
  /\ UNCHANGED <<acceptor, thread, client, ownersCall, ended, joined>>
  /\ StopIfIdle

BugNoNextAccept(t) ==
  /\ thread[t] = "starting"
  /\ thread' = [thread EXCEPT ![t] = "running"]
  /\ \E c \in Clients :
       /\ client[c] = "starting"
       /\ \E to \in {"live", "gone"} : client' = [client EXCEPT ![c] = to]
  /\ UNCHANGED <<acceptor, accepts, ownersCall, ended, broken, joined>>
  /\ StopIfIdle

\* The application is started, has posted its first read or dropped the connection,
\* and the next accept is issued.
ApplicationStarted(t) ==
  /\ thread[t] = "starting"
  /\ thread' = [thread EXCEPT ![t] = "running"]
  /\ \E c \in Clients :
       /\ client[c] = "starting"
       /\ \E to \in {"live", "gone"} : client' = [client EXCEPT ![c] = to]
  /\ accepts' = accepts + 1
  /\ UNCHANGED <<acceptor, stopped, ownersCall, ended, broken, joined>>

\* StartApplication throws: out of the owner's run(), or out of a thread.
ApplicationThrows(t) ==
  /\ "application" \in Faults
  /\ thread[t] = "starting"
  /\ thread' = [thread EXCEPT ![t] = IF t = Owner THEN "none" ELSE "exited"]
  /\ \E c \in Clients : client[c] = "starting" /\ client' = [client EXCEPT ![c] = "gone"]
  /\ ended' = (t # Owner)
  /\ broken' = TRUE
  /\ UNCHANGED <<acceptor, accepts, ownersCall, joined>>
  /\ StopIfIdle

\* run() returns.
RunReturns(t) ==
  /\ thread[t] = "running" /\ stopped
  /\ thread' = [thread EXCEPT ![t] = IF t = Owner THEN "none" ELSE "exited"]
  /\ UNCHANGED <<acceptor, accepts, stopped, client, ownersCall, ended, broken, joined>>

-----------------------------------------------------------------------------
(* The clients.                                                            *)

\* The kernel completes a connection to a listening acceptor.
ClientConnects(c) ==
  /\ acceptor = "listening"
  /\ client[c] = "away"
  /\ client' = [client EXCEPT ![c] = "backlog"]
  /\ UNCHANGED <<acceptor, accepts, stopped, thread, ownersCall, ended, broken, joined>>

\* A connection ends and a thread runs the handler of its last read.
ClientLeaves(c) ==
  /\ client[c] = "live"
  /\ ~stopped
  /\ \E t \in Runners : thread[t] = "running"
  /\ client' = [client EXCEPT ![c] = "gone"]
  /\ UNCHANGED <<acceptor, accepts, thread, ownersCall, ended, broken, joined>>
  /\ StopIfIdle

OwnerStep == StartReturns \/ StartThrows \/ OwnerRuns \/ JoinCall \/ JoinReturn

RunnerStep(t) ==
  \/ HandleNewConnection(t)
  \/ AcceptFails(t)
  \/ ApplicationStarted(t)
  \/ ApplicationThrows(t)
  \/ RunReturns(t)

ServerNext ==
  /\ ~ended
  /\ \/ OwnerStep
     \/ \E t \in Runners : RunnerStep(t)
     \/ \E c \in Clients : ClientConnects(c) \/ ClientLeaves(c)

ServerSpec == ServerInit /\ [][ServerNext]_serverVars

\* Threads run, applications return from StartApplication, and the owner waits in
\* Join.  Nobody has to connect, to leave, or to call anything.
ServerFairness ==
  /\ \A t \in Runners :
       /\ WF_serverVars(~ended /\ HandleNewConnection(t))
       /\ WF_serverVars(~ended /\ (ApplicationStarted(t) \/ ApplicationThrows(t)))
       /\ WF_serverVars(~ended /\ RunReturns(t))
  /\ WF_serverVars(~ended /\ JoinReturn)

FairServerSpec == ServerSpec /\ ServerFairness

-----------------------------------------------------------------------------
(* Properties.                                                             *)

\* Types; in particular never two accepts are outstanding, however often Start is
\* called and on how many threads handlers run.
ServerTypeOK ==
  /\ acceptor \in {"closed", "half", "listening"}
  /\ accepts \in 0..1
  /\ stopped \in BOOLEAN /\ ended \in BOOLEAN /\ broken \in BOOLEAN /\ joined \in BOOLEAN
  /\ thread \in [Runners -> {"none", "running", "starting", "exited"}]
  /\ client \in [Clients -> {"away", "backlog", "starting", "live", "gone"}]
  /\ ownersCall \in {"none", "join"}

\* However many threads the server has, applications are started one after the
\* other (TCPServer.hpp:70-74): code in StartApplication that shares data, as
\* chat_session's joining of the room does, is not run twice at once.
SerialStart ==
  \A t, u \in Runners : thread[t] = "starting" /\ thread[u] = "starting" => t = u

\* When Join has returned, and the destructor goes on to destroy the acceptor, no
\* thread is inside a handler, which would use it, and none will be.
SafeToDestroy == joined => stopped /\ \A t \in Runners : thread[t] # "starting"

\* A client that waits at a server with a thread is accepted, unless the io_context is
\* stopped, or the chain of accepts has been broken by an error.
ClientsServed ==
  \A c \in Clients :
    client[c] = "backlog" /\ (\E t \in Threads : thread[t] = "running")
      ~> client[c] # "backlog" \/ stopped \/ broken

\* Join returns, whatever the threads are doing, unless the process ends.
JoinReturns == ownersCall = "join" ~> ownersCall = "none" \/ ended
=============================================================================
