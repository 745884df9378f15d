---------------------------- MODULE TaskExecutor ----------------------------
(***************************************************************************)
(* What a task executor promises, without threads or locks: accepted tasks *)
(* form a log, they begin in the order of the log, each of them once, and  *)
(* when the executor reports that it is drained nothing runs any more and, *)
(* unless it was aborted, everything that was in the log when it was       *)
(* closed has finished.  A submission whose admission check was already    *)
(* passed when the executor closed may still enter the log, at any time.   *)
(***************************************************************************)
EXTENDS Naturals, Sequences

CONSTANT Tasks

VARIABLES
  accepted,  \* the log: every accepted task, in the order of acceptance
  begun,     \* how many tasks of the log have begun
  finished,  \* the set of tasks that ran to completion
  mode,      \* "open", "draining" or "drained"
  owed,      \* how much of the log must finish before the executor is drained
  aborted    \* the debt was waived

vars == <<accepted, begun, finished, mode, owed, aborted>>

Begun == {accepted[i] : i \in 1..begun}

Init ==
  /\ accepted = <<>>
  /\ begun = 0
  /\ finished = {}
  /\ mode = "open"
  /\ owed = 0
  /\ aborted = FALSE

Submit(t) ==
  /\ \A i \in 1..Len(accepted) : accepted[i] # t
  /\ accepted' = Append(accepted, t)
  /\ UNCHANGED <<begun, finished, mode, owed, aborted>>

Begin ==
  /\ mode # "drained"
  /\ begun < Len(accepted)
  /\ begun' = begun + 1
  /\ UNCHANGED <<accepted, finished, mode, owed, aborted>>

Finish(t) ==
  /\ t \in Begun \ finished
  /\ finished' = finished \union {t}
  /\ UNCHANGED <<accepted, begun, mode, owed, aborted>>

Abort ==
  /\ aborted' = TRUE
  /\ UNCHANGED <<accepted, begun, finished, mode, owed>>

Close ==
  /\ mode = "open"
  /\ mode' = "draining"
  /\ owed' = Len(accepted)
  /\ UNCHANGED <<accepted, begun, finished, aborted>>

Drain ==
  /\ mode = "draining"
  /\ finished = Begun
  /\ aborted \/ owed <= begun
  /\ mode' = "drained"
  /\ UNCHANGED <<accepted, begun, finished, owed, aborted>>

Next ==
  \/ \E t \in Tasks : Submit(t) \/ Finish(t)
  \/ Begin
  \/ Abort
  \/ Close
  \/ Drain

Spec == Init /\ [][Next]_vars
=============================================================================
