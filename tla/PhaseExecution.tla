---------------------------- MODULE PhaseExecution ----------------------------
(***************************************************************************)
(* What one call of execute(plan) promises to the workflow step that       *)
(* awaits it, whichever of the two executors runs the phase                *)
(* (ConcurrentParallelIngestionExecutor with its five ingestion branches,  *)
(* ParallelForecastingExecutionService with its two forecasting branches). *)
(*                                                                         *)
(* Every branch ends on its own: it returns its typed result, raises, or   *)
(* is cancelled.  The call answers exactly once, after all of them ended:  *)
(*   - with the aggregate of the results, when every branch returned;      *)
(*   - with an exception group holding exactly the exceptions that the     *)
(*     branches raised, when at least one did;                             *)
(*   - with CancelledError, and then no branch raised.                     *)
(***************************************************************************)

EXTENDS PhaseAnswers

VARIABLES ended,    \* how each branch ended, or "pending"
          held,     \* its result or its exception
          answer    \* what execute(plan) answered

vars == <<ended, held, answer>>

Init ==
  /\ ended = [b \in Branches |-> "pending"]
  /\ held = [b \in Branches |-> Nothing]
  /\ answer = NoAnswer

End(b, how, what) ==
  /\ answer = NoAnswer
  /\ ended[b] = "pending"
  /\ ended' = [ended EXCEPT ![b] = how]
  /\ held' = [held EXCEPT ![b] = what]
  /\ UNCHANGED answer

RaisedBranches == {b \in Branches : ended[b] = "raised"}

Answer ==
  /\ answer = NoAnswer
  /\ \A b \in Branches : ended[b] # "pending"
  /\ \/ /\ RaisedBranches # {}
        /\ answer' = FailureGroup([b \in RaisedBranches |-> held[b]])
     \/ /\ \A b \in Branches : ended[b] = "returned"
        /\ answer' = Success(held)
     \/ /\ RaisedBranches = {}
        /\ answer' = Cancelled
  /\ UNCHANGED <<ended, held>>

Next ==
  \/ \E b \in Branches, r \in Results : End(b, "returned", r)
  \/ \E b \in Branches : \E e \in LeavesOf(b) : End(b, "raised", e)
  \/ \E b \in Branches : End(b, "cancelled", Nothing)
  \/ Answer

Spec == Init /\ [][Next]_vars
=============================================================================
