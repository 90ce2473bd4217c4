---------------------------- MODULE PhaseExecutor -----------------------------
(***************************************************************************)
(* One call of execute(plan): the branches are tasks of an asyncio         *)
(* TaskGroup, and the calling task waits in the group's __aexit__.  The    *)
(* initial state is the moment the caller starts to wait: create_task has  *)
(* queued every branch and none has run.                                   *)
(*                                                                         *)
(* The event loop runs one callback at a time, so a branch that has ended  *)
(* and the group's done-callback for it are two steps; whatever the other  *)
(* branches and the caller's own cancellation do may come in between.      *)
(***************************************************************************)
EXTENDS Naturals, Sequences, Functions

CONSTANTS Branches,      \* the concurrent agents of the phase
          Results,       \* results a branch can return
          Causes,        \* ordinary exceptions an agent can raise
          Unattributed,  \* the agent of an exception that carries none
          Nothing        \* held by a branch that neither returned nor raised

ASSUME BranchesAssumption == Branches # {} /\ Unattributed \notin Branches

VARIABLES task,            \* task[b]: created, running, returned, raised, cancelled
          held,            \* held[b]: the result or the exception the task holds
          cancelRequested, \* tasks on which cancel() was called before they ended
          notified,        \* tasks whose done-callback has run
          errors,          \* TaskGroup._errors, as the raising branches in callback order
          aborting,        \* TaskGroup._aborting
          parentCancel,    \* cancellation of the caller: none, requested, delivered, propagating
          outcome          \* how execute ended

vars == <<task, held, cancelRequested, notified, errors, aborting, parentCancel, outcome>>

absEnded == [b \in Branches |-> IF task[b] \in {"created", "running"} THEN "pending" ELSE task[b]]

absAnswer ==
  IF outcome.kind = "group"
    THEN [kind |-> "group", failures |-> [b \in Range(outcome.errors) |-> held[b]]]
    ELSE outcome

Promise == INSTANCE PhaseExecution WITH ended <- absEnded, answer <- absAnswer

Done(b) == task[b] \in {"returned", "raised", "cancelled"}

TypeOK ==
  /\ task \in [Branches -> {"created", "running", "returned", "raised", "cancelled"}]
  /\ held \in [Branches -> Results \cup Promise!Leaves \cup {Nothing}]
  /\ cancelRequested \in SUBSET Branches
  /\ notified \in SUBSET Branches
  /\ errors \in Seq(Branches)
  /\ aborting \in BOOLEAN
  /\ parentCancel \in {"none", "requested", "delivered", "propagating"}
  /\ outcome \in {Promise!NoAnswer, Promise!Cancelled}
                   \cup [kind : {"success"}, results : [Branches -> Results]]
                   \cup [kind : {"group"}, errors : Seq(Branches)]

Waiting == outcome = Promise!NoAnswer

-----------------------------------------------------------------------------
(* execute: every branch becomes a task of the group before the group waits. *)
Init ==
  /\ task = [b \in Branches |-> "created"]
  /\ held = [b \in Branches |-> Nothing]
  /\ cancelRequested = {}
  /\ notified = {}
  /\ errors = <<>>
  /\ aborting = FALSE
  /\ parentCancel = "none"
  /\ outcome = Promise!NoAnswer

StartDespiteCancel(b) ==      \* mutant: a queued task runs although it was cancelled
  /\ task[b] = "created"
  /\ task' = [task EXCEPT ![b] = "running"]
  /\ UNCHANGED <<held, cancelRequested, notified, errors, aborting, parentCancel, outcome>>

(* The loop runs a task for the first time and it awaits its agent.  A task *)
(* cancelled before that is closed without reaching the agent.              *)
Start(b) ==
  /\ task[b] = "created"
  /\ b \notin cancelRequested
  /\ task' = [task EXCEPT ![b] = "running"]
  /\ UNCHANGED <<held, cancelRequested, notified, errors, aborting, parentCancel, outcome>>

EndTask(b, how, what) ==
  /\ task' = [task EXCEPT ![b] = how]
  /\ held' = [held EXCEPT ![b] = what]
  /\ UNCHANGED <<cancelRequested, notified, errors, aborting, parentCancel, outcome>>

(* _run_attributed: `return await operation`.  The agent may have ignored a *)
(* cancellation request that came while its last await was completing.      *)
Return(b) ==
  /\ task[b] = "running"
  /\ \E r \in Results : EndTask(b, "returned", r)

(* _run_attributed: an ordinary Exception leaves as the agent failure of    *)
(* this branch, chained to its cause.                                       *)
RaiseAttributed(b) ==
  /\ task[b] = "running"
  /\ \E c \in Causes : EndTask(b, "raised", [agent |-> b, cause |-> c])

(* _run_attributed: a BaseException that is no Exception is not wrapped.    *)
RaiseBare(b) ==
  /\ task[b] = "running"
  /\ EndTask(b, "raised", [agent |-> Unattributed, cause |-> Nothing])

(* CancelledError leaves the branch unwrapped: the one the group's abort    *)
(* throws in, or one that the agent's own I/O raises.                       *)
EndCancelled(b) ==
  /\ \/ task[b] = "running"
     \/ task[b] = "created" /\ b \in cancelRequested
  /\ EndTask(b, "cancelled", Nothing)

AbortOnlyRunning ==           \* mutant: tasks still queued are not cancelled
  /\ aborting' = TRUE
  /\ cancelRequested' = cancelRequested \cup {b \in Branches : task[b] = "running"}

(* TaskGroup._abort: cancel() on every task that has not ended.             *)
Abort ==
  /\ aborting' = TRUE
  /\ cancelRequested' = cancelRequested \cup {b \in Branches : ~Done(b)}

CollectCancelled(b) ==        \* mutant: sibling cancellation is collected as a failure
  /\ Done(b)
  /\ b \notin notified
  /\ notified' = notified \cup {b}
  /\ IF task[b] \in {"raised", "cancelled"}
       THEN /\ errors' = Append(errors, b)
            /\ IF aborting THEN UNCHANGED <<aborting, cancelRequested>> ELSE Abort
       ELSE UNCHANGED <<errors, aborting, cancelRequested>>
  /\ UNCHANGED <<task, held, parentCancel, outcome>>

(* TaskGroup._on_task_done: an exception is kept, and the first one aborts  *)
(* the group; a cancelled task is only forgotten.                           *)
OnTaskDone(b) ==
  /\ Done(b)
  /\ b \notin notified
  /\ notified' = notified \cup {b}
  /\ IF task[b] = "raised"
       THEN /\ errors' = Append(errors, b)
            /\ IF aborting THEN UNCHANGED <<aborting, cancelRequested>> ELSE Abort
       ELSE UNCHANGED <<errors, aborting, cancelRequested>>
  /\ UNCHANGED <<task, held, parentCancel, outcome>>

(* Somebody cancels the task that awaits execute (a disconnected client, a  *)
(* shutdown); the loop throws CancelledError into it at a later step.       *)
RequestParentCancel ==
  /\ Waiting
  /\ parentCancel = "none"
  /\ parentCancel' = "requested"
  /\ UNCHANGED <<task, held, cancelRequested, notified, errors, aborting, outcome>>

(* __aexit__ catches CancelledError: it aborts the group and remembers to   *)
(* propagate, unless a failure already aborted the group.                   *)
DeliverParentCancel ==
  /\ parentCancel = "requested"
  /\ IF aborting
       THEN parentCancel' = "delivered" /\ UNCHANGED <<aborting, cancelRequested>>
       ELSE parentCancel' = "propagating" /\ Abort
  /\ UNCHANGED <<task, held, notified, errors, outcome>>

ConcludeUnchecked ==          \* mutant: the aggregate is built without reading every result
  /\ Waiting
  /\ notified = Branches
  /\ parentCancel # "requested"
  /\ outcome' =
       IF errors # <<>>
         THEN [kind |-> "group", errors |-> errors]
         ELSE IF parentCancel = "propagating" THEN Promise!Cancelled ELSE Promise!Success(held)
  /\ UNCHANGED <<task, held, cancelRequested, notified, errors, aborting, parentCancel>>

(* The end of __aexit__, and the construction of the success aggregate:     *)
(* collected errors come first, then the caller's cancellation; otherwise   *)
(* task.result() is read for every branch and raises CancelledError for one *)
(* that was cancelled.                                                      *)
Conclude ==
  /\ Waiting
  /\ notified = Branches
  /\ parentCancel # "requested"
  /\ outcome' =
       IF errors # <<>>
         THEN [kind |-> "group", errors |-> errors]
         ELSE IF parentCancel = "propagating" \/ \E b \in Branches : task[b] = "cancelled"
                THEN Promise!Cancelled
                ELSE Promise!Success(held)
  /\ UNCHANGED <<task, held, cancelRequested, notified, errors, aborting, parentCancel>>

Next ==
  \/ \E b \in Branches :
       Start(b) \/ Return(b) \/ RaiseAttributed(b) \/ RaiseBare(b) \/ EndCancelled(b) \/ OnTaskDone(b)
  \/ RequestParentCancel
  \/ DeliverParentCancel
  \/ Conclude

(* The event loop runs whatever is ready, and no agent or adapter catches   *)
(* CancelledError, so a cancelled branch ends.  Nothing makes an agent's    *)
(* awaited I/O complete.                                                    *)
Fairness ==
  /\ \A b \in Branches :
       /\ WF_vars(Start(b))
       /\ WF_vars(b \in cancelRequested /\ EndCancelled(b))
       /\ WF_vars(OnTaskDone(b))
  /\ WF_vars(DeliverParentCancel)
  /\ WF_vars(Conclude)

Spec == Init /\ [][Next]_vars

FairSpec == Spec /\ Fairness

-----------------------------------------------------------------------------
(* The exceptions the group has collected are those of the branches that    *)
(* raised, each once, in the order their callbacks ran: no sibling that the *)
(* abort cancelled is reported as an agent failure, and none is lost.       *)
ErrorsExact ==
  /\ \A i, j \in DOMAIN errors : errors[i] = errors[j] => i = j
  /\ Range(errors) = {b \in notified : task[b] = "raised"}

(* The group aborts exactly when a failure was collected or the caller was  *)
(* cancelled: a branch that ends with a CancelledError of its own does not  *)
(* stop the others.                                                         *)
AbortHasCause == aborting <=> (errors # <<>> \/ parentCancel = "propagating")

(* An aborted group has cancelled every branch that has not ended, the ones *)
(* still waiting for their first step included.                             *)
AbortReachesEveryBranch ==
  aborting => \A b \in Branches : Done(b) \/ b \in cancelRequested

(* CancelledError leaves execute only if no branch raised, and either the   *)
(* caller was cancelled or some branch was: cancelling the caller never     *)
(* hides an agent's failure.                                                *)
CancellationHidesNoFailure ==
  outcome = Promise!Cancelled =>
    /\ \A b \in Branches : task[b] # "raised"
    /\ parentCancel = "propagating" \/ \E b \in Branches : task[b] = "cancelled"

(* Once the group aborts, an agent whose branch has not started is never    *)
(* awaited: its branch ends cancelled without touching a source.            *)
NoAgentStartsAfterAbort ==
  [][aborting => \A b \in Branches : task[b] = "created" => task'[b] # "running"]_vars

(* The executor keeps the promise of PhaseExecution.                        *)
KeepsPromise == Promise!Spec

(* An aborted execute always answers: nothing waits for a branch whose I/O  *)
(* never completes.                                                         *)
AbortedExecuteAnswers == aborting ~> ~Waiting
=============================================================================
