------------------------- MODULE PhaseExecutorProofs --------------------------
(***************************************************************************)
(* For any set of branches, results and causes: the executor's safety      *)
(* invariants, and that it keeps the promise of PhaseExecution.  The last  *)
(* section is about phase 4, which has names of its own throughout.        *)
(***************************************************************************)
EXTENDS PhaseExecutor, RiskAndBidHandoff, TLAPS

(* A branch holds what its state says it holds.                             *)
HeldMatchesTask ==
  \A b \in Branches :
    /\ task[b] = "returned" => held[b] \in Results
    /\ task[b] = "raised" => held[b] \in Promise!LeavesOf(b)
    /\ task[b] \in {"created", "running", "cancelled"} => held[b] = Nothing

(* The group forgets only tasks that have ended, and answers after all of  *)
(* them, with no cancellation of the caller left to deliver.                *)
NotifiedAreDone == \A b \in notified : Done(b)

AnswerIsLast ==
  ~Waiting => notified = Branches /\ parentCancel # "requested"

(* What a given answer says about the group.                                *)
AnswerMatches ==
  /\ outcome.kind = "group" => outcome = [kind |-> "group", errors |-> errors]
  /\ outcome = Promise!Cancelled =>
       errors = <<>> /\ (parentCancel = "propagating" \/ \E b \in Branches : task[b] = "cancelled")

IInv ==
  /\ TypeOK
  /\ HeldMatchesTask
  /\ NotifiedAreDone
  /\ ErrorsExact
  /\ AbortHasCause
  /\ AbortReachesEveryBranch
  /\ AnswerIsLast
  /\ AnswerMatches

-----------------------------------------------------------------------------
(* The exceptions of the branches are well-typed leaves.                    *)
LEMMA LeafTypes ==
  ASSUME NEW b \in Branches
  PROVE  /\ \A c \in Causes : [agent |-> b, cause |-> c] \in Promise!LeavesOf(b)
         /\ [agent |-> Unattributed, cause |-> Nothing] \in Promise!LeavesOf(b)
         /\ Promise!LeavesOf(b) \subseteq Promise!Leaves
BY DEF Promise!LeavesOf, Promise!Leaves

(* What appending a branch to the collected errors does to their range and  *)
(* to their distinctness (TaskGroup._on_task_done).                         *)
LEMMA AppendError ==
  ASSUME NEW s \in Seq(Branches), NEW b \in Branches, b \notin Range(s),
         \A i, j \in DOMAIN s : s[i] = s[j] => i = j
  PROVE  /\ Append(s, b) \in Seq(Branches)
         /\ Append(s, b) # <<>>
         /\ Range(Append(s, b)) = Range(s) \cup {b}
         /\ \A i, j \in DOMAIN Append(s, b) : Append(s, b)[i] = Append(s, b)[j] => i = j
<1>1. /\ Len(Append(s, b)) = Len(s) + 1
      /\ DOMAIN s = 1 .. Len(s)
      /\ DOMAIN Append(s, b) = 1 .. Len(s) + 1
      /\ Append(s, b)[Len(s) + 1] = b
      /\ \A i \in 1 .. Len(s) : Append(s, b)[i] = s[i]
      /\ Len(s) \in Nat
  OBVIOUS
<1>2. Range(Append(s, b)) = Range(s) \cup {b}
  <2>1. ASSUME NEW x \in Range(Append(s, b)) PROVE x \in Range(s) \cup {b}
    <3>1. PICK i \in 1 .. Len(s) + 1 : x = Append(s, b)[i]
      BY <1>1, <2>1 DEF Range
    <3> QED BY <1>1, <3>1 DEF Range
  <2>2. ASSUME NEW x \in Range(s) PROVE x \in Range(Append(s, b))
    <3>1. PICK i \in 1 .. Len(s) : x = s[i]
      BY <1>1, <2>2 DEF Range
    <3> QED BY <1>1, <3>1 DEF Range
  <2>3. b \in Range(Append(s, b))
    BY <1>1 DEF Range
  <2> QED BY <2>1, <2>2, <2>3
<1>3. ASSUME NEW i \in 1 .. Len(s) + 1, NEW j \in 1 .. Len(s) + 1,
             Append(s, b)[i] = Append(s, b)[j]
      PROVE  i = j
  <2>1. \A k \in 1 .. Len(s) : s[k] # b
    BY <1>1 DEF Range
  <2> QED BY <1>1, <1>3, <2>1
<1> QED BY <1>1, <1>2, <1>3

-----------------------------------------------------------------------------
(* Before the first task starts the invariant holds.                        *)
LEMMA InitIInv == Init => IInv
<1> SUFFICES ASSUME Init PROVE IInv
  OBVIOUS
<1> USE DEF Init
<1>1. TypeOK
  <2>1. errors \in Seq(Branches)
    OBVIOUS
  <2>2. outcome \in {Promise!NoAnswer, Promise!Cancelled}
    OBVIOUS
  <2>3. /\ task \in [Branches -> {"created", "running", "returned", "raised", "cancelled"}]
        /\ held \in [Branches -> Results \cup Promise!Leaves \cup {Nothing}]
    OBVIOUS
  <2> QED BY <2>1, <2>2, <2>3, Zenon DEF TypeOK
<1>2. HeldMatchesTask /\ NotifiedAreDone /\ AbortHasCause /\ AbortReachesEveryBranch
  BY DEF HeldMatchesTask, NotifiedAreDone, AbortHasCause, AbortReachesEveryBranch
<1>3. ErrorsExact
  BY DEF ErrorsExact, Range
<1>4. AnswerIsLast /\ AnswerMatches
  BY DEF AnswerIsLast, AnswerMatches, Waiting, Promise!NoAnswer, Promise!Cancelled
<1> QED BY <1>1, <1>2, <1>3, <1>4 DEF IInv

(* The steps that only start or end one branch.                             *)
LEMMA TaskStep ==
  ASSUME IInv, NEW b \in Branches,
         task[b] \in {"created", "running"},
         NEW t \in {"running", "returned", "raised", "cancelled"}, NEW h,
         task' = [task EXCEPT ![b] = t], held' = [held EXCEPT ![b] = h],
         t = "returned" => h \in Results,
         t = "raised" => h \in Promise!LeavesOf(b),
         t \in {"running", "cancelled"} => h = Nothing,
         t = "running" => b \in cancelRequested \/ ~aborting,
         UNCHANGED <<cancelRequested, notified, errors, aborting, parentCancel, outcome>>
  PROVE  IInv'
<1> USE DEF IInv
<1>0. b \notin notified /\ Waiting
  BY DEF NotifiedAreDone, Done, AnswerIsLast
<1>1. TypeOK'
  BY LeafTypes DEF TypeOK
<1>2. HeldMatchesTask'
  BY DEF HeldMatchesTask, TypeOK
<1>3. NotifiedAreDone' /\ AbortHasCause' /\ AnswerIsLast'
  BY <1>0 DEF NotifiedAreDone, Done, AbortHasCause, AnswerIsLast, Waiting, TypeOK
<1>4. ErrorsExact'
  BY <1>0 DEF ErrorsExact, TypeOK
<1>5. AbortReachesEveryBranch'
  BY DEF AbortReachesEveryBranch, Done, TypeOK
<1>6. AnswerMatches'
  BY <1>0 DEF AnswerMatches, Waiting, Promise!NoAnswer, Promise!Cancelled
<1> QED BY <1>1, <1>2, <1>3, <1>4, <1>5, <1>6

(* A done-callback keeps the invariant.                                     *)
LEMMA OnTaskDoneStep ==
  ASSUME IInv, NEW b \in Branches, OnTaskDone(b)
  PROVE  IInv'
<1> USE DEF IInv
<1>0. /\ Done(b) /\ b \notin notified /\ notified' = notified \cup {b}
      /\ UNCHANGED <<task, held, parentCancel, outcome>>
      /\ Waiting
  BY DEF OnTaskDone, AnswerIsLast
<1>1. CASE task[b] = "raised"
  <2>1. b \notin Range(errors)
    BY <1>0 DEF ErrorsExact
  <2>2. errors' = Append(errors, b)
    BY <1>1 DEF OnTaskDone
  <2>3. /\ errors' \in Seq(Branches)
        /\ errors' # <<>>
        /\ Range(errors') = Range(errors) \cup {b}
        /\ \A i, j \in DOMAIN errors' : errors'[i] = errors'[j] => i = j
    BY <2>1, <2>2, AppendError DEF TypeOK, ErrorsExact
  <2>4. aborting' = TRUE
    BY <1>1 DEF OnTaskDone, Abort, TypeOK
  <2>5. cancelRequested' \in SUBSET Branches
        /\ \A c \in Branches : Done(c) \/ c \in cancelRequested'
    BY <1>1 DEF OnTaskDone, Abort, TypeOK, AbortReachesEveryBranch
  <2>6. TypeOK'
    BY <1>0, <2>3, <2>4, <2>5 DEF TypeOK
  <2>7. ErrorsExact'
    BY <1>0, <1>1, <2>3 DEF ErrorsExact
  <2>8. HeldMatchesTask' /\ NotifiedAreDone' /\ AbortHasCause' /\ AbortReachesEveryBranch'
    BY <1>0, <2>3, <2>4, <2>5
    DEF HeldMatchesTask, NotifiedAreDone, AbortHasCause, AbortReachesEveryBranch, Done
  <2>9. AnswerIsLast' /\ AnswerMatches'
    BY <1>0 DEF AnswerIsLast, AnswerMatches, Waiting, Promise!NoAnswer, Promise!Cancelled
  <2> QED BY <2>6, <2>7, <2>8, <2>9
<1>2. CASE task[b] # "raised"
  <2>1. UNCHANGED <<errors, aborting, cancelRequested>>
    BY <1>2 DEF OnTaskDone
  <2>2. TypeOK'
    BY <1>0, <2>1 DEF TypeOK
  <2>3. ErrorsExact'
    BY <1>0, <1>2, <2>1 DEF ErrorsExact
  <2>4. HeldMatchesTask' /\ NotifiedAreDone' /\ AbortHasCause' /\ AbortReachesEveryBranch'
    BY <1>0, <2>1 DEF HeldMatchesTask, NotifiedAreDone, AbortHasCause, AbortReachesEveryBranch, Done
  <2>5. AnswerIsLast' /\ AnswerMatches'
    BY <1>0 DEF AnswerIsLast, AnswerMatches, Waiting, Promise!NoAnswer, Promise!Cancelled
  <2> QED BY <2>2, <2>3, <2>4, <2>5
<1> QED BY <1>1, <1>2

(* The end of execute keeps the invariant.                                  *)
LEMMA ConcludeStep ==
  ASSUME IInv, Conclude
  PROVE  IInv'
<1> USE DEF IInv
<1>0. /\ notified = Branches /\ parentCancel # "requested"
      /\ UNCHANGED <<task, held, cancelRequested, notified, errors, aborting, parentCancel>>
  BY DEF Conclude
<1>1. /\ outcome' \in {Promise!Cancelled}
                       \cup [kind : {"success"}, results : [Branches -> Results]]
                       \cup [kind : {"group"}, errors : Seq(Branches)]
      /\ AnswerMatches'
  <2>1. CASE errors # <<>>
    <3>1. outcome' = [kind |-> "group", errors |-> errors]
      BY <2>1 DEF Conclude
    <3> QED BY <1>0, <3>1 DEF AnswerMatches, TypeOK, Promise!Cancelled
  <2>2. CASE errors = <<>> /\ (parentCancel = "propagating" \/ \E b \in Branches : task[b] = "cancelled")
    <3>1. outcome' = Promise!Cancelled
      BY <2>2 DEF Conclude
    <3> QED BY <1>0, <2>2, <3>1 DEF AnswerMatches, Promise!Cancelled
  <2>3. CASE errors = <<>> /\ ~(parentCancel = "propagating" \/ \E b \in Branches : task[b] = "cancelled")
    <3>1. outcome' = Promise!Success(held)
      BY <2>3 DEF Conclude
    <3>2. \A b \in Branches : task[b] # "raised"
      BY <1>0, <2>3 DEF ErrorsExact, Range
    <3>3. \A b \in Branches : task[b] = "returned"
      BY <1>0, <2>3, <3>2 DEF NotifiedAreDone, Done
    <3>4. held \in [Branches -> Results]
      BY <3>3 DEF HeldMatchesTask, TypeOK
    <3> QED BY <3>1, <3>4 DEF AnswerMatches, Promise!Success, Promise!Cancelled
  <2> QED BY <2>1, <2>2, <2>3
<1>2. TypeOK'
  BY <1>0, <1>1 DEF TypeOK
<1>3. HeldMatchesTask' /\ NotifiedAreDone' /\ ErrorsExact' /\ AbortHasCause' /\ AbortReachesEveryBranch'
  BY <1>0
     DEF HeldMatchesTask, NotifiedAreDone, ErrorsExact, AbortHasCause, AbortReachesEveryBranch, Done
<1>4. AnswerIsLast'
  BY <1>0 DEF AnswerIsLast
<1> QED BY <1>1, <1>2, <1>3, <1>4

(* The two steps of the caller's cancellation keep the invariant.           *)
LEMMA ParentCancelStep ==
  ASSUME IInv, RequestParentCancel \/ DeliverParentCancel
  PROVE  IInv'
<1> USE DEF IInv
<1>0. /\ Waiting
      /\ UNCHANGED <<task, held, notified, errors, outcome>>
  BY DEF RequestParentCancel, DeliverParentCancel, AnswerIsLast
<1>1. /\ parentCancel' \in {"requested", "delivered", "propagating"}
      /\ aborting' \in BOOLEAN
      /\ cancelRequested' \in SUBSET Branches
  BY DEF RequestParentCancel, DeliverParentCancel, Abort, TypeOK
<1>2. AbortHasCause' /\ AbortReachesEveryBranch'
  <2>1. CASE RequestParentCancel
    BY <2>1, <1>0 DEF RequestParentCancel, AbortHasCause, AbortReachesEveryBranch, Done
  <2>2. CASE DeliverParentCancel
    BY <2>2, <1>0
       DEF DeliverParentCancel, Abort, AbortHasCause, AbortReachesEveryBranch, Done, TypeOK
  <2> QED BY <2>1, <2>2
<1>3. TypeOK'
  BY <1>0, <1>1 DEF TypeOK
<1>4. HeldMatchesTask' /\ NotifiedAreDone' /\ ErrorsExact'
  BY <1>0 DEF HeldMatchesTask, NotifiedAreDone, ErrorsExact, Done
<1>5. AnswerIsLast' /\ AnswerMatches'
  BY <1>0 DEF AnswerIsLast, AnswerMatches, Waiting, Promise!NoAnswer, Promise!Cancelled
<1> QED BY <1>2, <1>3, <1>4, <1>5

(* Every step of the executor keeps the invariant.                          *)
LEMMA NextIInv == IInv /\ [Next]_vars => IInv'
<1> SUFFICES ASSUME IInv, [Next]_vars PROVE IInv'
  OBVIOUS
<1>1. ASSUME NEW b \in Branches, Start(b) PROVE IInv'
  <2>1. held' = [held EXCEPT ![b] = Nothing]
    BY <1>1 DEF Start, IInv, TypeOK, HeldMatchesTask
  <2>2. b \in cancelRequested \/ ~aborting
    BY <1>1 DEF Start, IInv, AbortReachesEveryBranch, Done
  <2> QED BY <1>1, <2>1, <2>2, TaskStep DEF Start
<1>2. ASSUME NEW b \in Branches, Return(b) PROVE IInv'
  BY <1>2, TaskStep DEF Return, EndTask
<1>3. ASSUME NEW b \in Branches, RaiseAttributed(b) PROVE IInv'
  BY <1>3, TaskStep, LeafTypes DEF RaiseAttributed, EndTask
<1>4. ASSUME NEW b \in Branches, RaiseBare(b) PROVE IInv'
  BY <1>4, TaskStep, LeafTypes DEF RaiseBare, EndTask
<1>5. ASSUME NEW b \in Branches, EndCancelled(b) PROVE IInv'
  BY <1>5, TaskStep DEF EndCancelled, EndTask
<1>6. ASSUME NEW b \in Branches, OnTaskDone(b) PROVE IInv'
  BY <1>6, OnTaskDoneStep
<1>7. CASE RequestParentCancel \/ DeliverParentCancel
  BY <1>7, ParentCancelStep
<1>8. CASE Conclude
  BY <1>8, ConcludeStep
<1>9. CASE UNCHANGED vars
  BY <1>9 DEF vars, IInv, TypeOK, HeldMatchesTask, NotifiedAreDone, ErrorsExact, AbortHasCause,
              AbortReachesEveryBranch, AnswerIsLast, AnswerMatches, Waiting, Done
<1> QED BY <1>1, <1>2, <1>3, <1>4, <1>5, <1>6, <1>7, <1>8, <1>9 DEF Next

(* The inductive invariant holds in every reachable state.                  *)
THEOREM InvariantHolds == Spec => []IInv
BY InitIInv, NextIInv, PTL DEF Spec

(* Types, for any number of branches.                                       *)
THEOREM TypeCorrect == Spec => []TypeOK
<1>1. IInv => TypeOK
  BY DEF IInv
<1> QED BY <1>1, InvariantHolds, PTL

(* TaskGroup._on_task_done collects exactly the failures, each once.        *)
THEOREM GroupBookkeeping == Spec => []ErrorsExact
<1>1. IInv => ErrorsExact
  BY DEF IInv
<1> QED BY <1>1, InvariantHolds, PTL

(* The group never aborts for a branch that merely ended cancelled.         *)
THEOREM AbortsAreCaused == Spec => []AbortHasCause
<1>1. IInv => AbortHasCause
  BY DEF IInv
<1> QED BY <1>1, InvariantHolds, PTL

(* An abort leaves out no branch that is still queued or running.           *)
THEOREM AbortsAreComplete == Spec => []AbortReachesEveryBranch
<1>1. IInv => AbortReachesEveryBranch
  BY DEF IInv
<1> QED BY <1>1, InvariantHolds, PTL

(* The caller's cancellation never hides an agent's failure.                *)
THEOREM FailuresSurviveCancellation == Spec => []CancellationHidesNoFailure
<1>1. IInv => CancellationHidesNoFailure
  <2> SUFFICES ASSUME IInv, outcome = Promise!Cancelled PROVE CancellationHidesNoFailure
    BY DEF CancellationHidesNoFailure
  <2>1. errors = <<>> /\ notified = Branches
    BY DEF IInv, AnswerMatches, AnswerIsLast, Waiting, Promise!Cancelled, Promise!NoAnswer
  <2>2. \A b \in Branches : task[b] # "raised"
    BY <2>1 DEF IInv, ErrorsExact, Range
  <2> QED BY <2>1, <2>2 DEF IInv, AnswerMatches, CancellationHidesNoFailure
<1> QED BY <1>1, InvariantHolds, PTL

(* A branch still queued when the group aborts never reaches its agent.     *)
THEOREM QueuedAgentsStayUntouched == Spec => NoAgentStartsAfterAbort
<1>1. IInv /\ [Next]_vars =>
        [aborting => \A b \in Branches : task[b] = "created" => task'[b] # "running"]_vars
  <2> SUFFICES ASSUME IInv, Next, aborting, NEW b \in Branches, task[b] = "created", task'[b] = "running"
               PROVE  FALSE
    OBVIOUS
  <2>1. b \in cancelRequested
    BY DEF IInv, AbortReachesEveryBranch, Done
  <2>2. \A c \in Branches : Start(c) => FALSE
    BY <2>1 DEF Start, IInv, TypeOK
  <2>3. \A c \in Branches : Return(c) \/ RaiseAttributed(c) \/ RaiseBare(c) \/ EndCancelled(c) => FALSE
    BY DEF Return, RaiseAttributed, RaiseBare, EndCancelled, EndTask, IInv, TypeOK
  <2>4. \A c \in Branches : OnTaskDone(c) => FALSE
    BY DEF OnTaskDone
  <2>5. RequestParentCancel \/ DeliverParentCancel \/ Conclude => FALSE
    BY DEF RequestParentCancel, DeliverParentCancel, Conclude
  <2> QED BY <2>2, <2>3, <2>4, <2>5 DEF Next
<1> QED BY <1>1, InvariantHolds, PTL DEF Spec, NoAgentStartsAfterAbort

-----------------------------------------------------------------------------
(* The mapped answer while execute waits, and once it has answered.         *)
LEMMA AbsAnswers ==
  ASSUME IInv
  PROVE  /\ Waiting => absAnswer = Promise!NoAnswer
         /\ outcome = Promise!Cancelled => absAnswer = Promise!Cancelled
         /\ \A f : outcome = Promise!Success(f) => absAnswer = Promise!Success(f)
         /\ outcome.kind = "group" =>
              absAnswer = Promise!FailureGroup([b \in Range(errors) |-> held[b]])
<1>1. outcome.kind # "group" => absAnswer = outcome
  BY DEF absAnswer
<1>2. outcome.kind = "group" =>
        absAnswer = Promise!FailureGroup([b \in Range(errors) |-> held[b]])
  BY DEF absAnswer, IInv, AnswerMatches, Promise!FailureGroup
<1> QED BY <1>1, <1>2 DEF Waiting, Promise!NoAnswer, Promise!Cancelled, Promise!Success

(* A branch that ends is an End step of the promise.                        *)
LEMMA EndMaps ==
  ASSUME IInv, NEW b \in Branches, NEW t \in {"returned", "raised", "cancelled"}, NEW h,
         task[b] \in {"created", "running"}, EndTask(b, t, h)
  PROVE  Promise!End(b, t, h)
<1>1. Waiting
  BY DEF IInv, AnswerIsLast, NotifiedAreDone, Done
<1>2. absAnswer = Promise!NoAnswer
  BY <1>1, AbsAnswers
<1>3. absAnswer' = absAnswer
  BY <1>1 DEF absAnswer, EndTask, Waiting, Promise!NoAnswer
<1>4. absEnded[b] = "pending" /\ absEnded' = [absEnded EXCEPT ![b] = t]
  BY DEF absEnded, EndTask, IInv, TypeOK
<1> QED BY <1>2, <1>3, <1>4 DEF Promise!End, EndTask

(* The end of execute is the Answer step of the promise.                    *)
LEMMA ConcludeMaps ==
  ASSUME IInv, IInv', Conclude
  PROVE  Promise!Answer
<1>0. /\ Waiting /\ notified = Branches
      /\ UNCHANGED <<task, held, errors, parentCancel>>
  BY DEF Conclude
<1>1. absAnswer = Promise!NoAnswer
  BY <1>0, AbsAnswers
<1>2. /\ \A b \in Branches : absEnded[b] = task[b] /\ absEnded[b] # "pending"
      /\ UNCHANGED <<absEnded, held>>
  BY <1>0 DEF absEnded, IInv, NotifiedAreDone, Done
<1>3. Promise!RaisedBranches = Range(errors)
  BY <1>0, <1>2 DEF IInv, ErrorsExact, Promise!RaisedBranches
<1>4. /\ outcome' = Promise!Cancelled => absAnswer' = Promise!Cancelled
      /\ \A f : outcome' = Promise!Success(f) => absAnswer' = Promise!Success(f)
      /\ outcome'.kind = "group" =>
           absAnswer' = Promise!FailureGroup([b \in Range(errors') |-> held'[b]])
  <2>1. outcome'.kind # "group" => absAnswer' = outcome'
    BY DEF absAnswer
  <2>2. outcome'.kind = "group" =>
          absAnswer' = Promise!FailureGroup([b \in Range(errors') |-> held'[b]])
    BY DEF absAnswer, IInv, AnswerMatches, Promise!FailureGroup
  <2> QED BY <2>1, <2>2 DEF Promise!Cancelled, Promise!Success
<1>5. CASE errors # <<>>
  <2>1. absAnswer' = Promise!FailureGroup([b \in Promise!RaisedBranches |-> held[b]])
    BY <1>0, <1>3, <1>4, <1>5 DEF Conclude
  <2>2. Promise!RaisedBranches # {}
    <3>1. errors \in Seq(Branches) /\ 1 \in DOMAIN errors
      BY <1>5 DEF IInv, TypeOK
    <3>2. errors[1] \in Range(errors)
      BY <3>1 DEF Range
    <3> QED BY <1>3, <3>2
  <2> QED BY <1>1, <1>2, <2>1, <2>2 DEF Promise!Answer
<1>6. CASE errors = <<>> /\ (parentCancel = "propagating" \/ \E b \in Branches : task[b] = "cancelled")
  <2>1. absAnswer' = Promise!Cancelled
    BY <1>4, <1>6 DEF Conclude
  <2>2. Promise!RaisedBranches = {}
    BY <1>3, <1>6 DEF Range
  <2> QED BY <1>1, <1>2, <2>1, <2>2 DEF Promise!Answer
<1>7. CASE errors = <<>> /\ ~(parentCancel = "propagating" \/ \E b \in Branches : task[b] = "cancelled")
  <2>1. absAnswer' = Promise!Success(held)
    BY <1>4, <1>7 DEF Conclude
  <2>2. \A b \in Branches : absEnded[b] = "returned"
    <3>1. \A b \in Branches : task[b] # "raised"
      BY <1>0, <1>7 DEF IInv, ErrorsExact, Range
    <3> QED BY <1>0, <1>2, <1>7, <3>1 DEF IInv, NotifiedAreDone, Done
  <2> QED BY <1>1, <1>2, <2>1, <2>2 DEF Promise!Answer
<1> QED BY <1>5, <1>6, <1>7

(* Every step of the executor is a step of the promise or leaves its state  *)
(* alone.                                                                   *)
LEMMA NextMaps ==
  IInv /\ IInv' /\ [Next]_vars => [Promise!Next]_(Promise!vars)
<1> SUFFICES ASSUME IInv, IInv', [Next]_vars PROVE [Promise!Next]_(Promise!vars)
  OBVIOUS
<1>1. ASSUME NEW b \in Branches, Start(b) PROVE UNCHANGED Promise!vars
  <2>1. absEnded' = absEnded
    BY <1>1 DEF Start, absEnded, IInv, TypeOK
  <2> QED BY <1>1, <2>1 DEF Start, absAnswer, Promise!vars
<1>2. ASSUME NEW b \in Branches, Return(b) PROVE Promise!Next
  BY <1>2, EndMaps DEF Return, Promise!Next
<1>3. ASSUME NEW b \in Branches, RaiseAttributed(b) PROVE Promise!Next
  BY <1>3, EndMaps, LeafTypes DEF RaiseAttributed, Promise!Next
<1>4. ASSUME NEW b \in Branches, RaiseBare(b) PROVE Promise!Next
  BY <1>4, EndMaps, LeafTypes DEF RaiseBare, Promise!Next
<1>5. ASSUME NEW b \in Branches, EndCancelled(b) PROVE Promise!Next
  BY <1>5, EndMaps DEF EndCancelled, Promise!Next
<1>6. ASSUME NEW b \in Branches, OnTaskDone(b) PROVE UNCHANGED Promise!vars
  BY <1>6 DEF OnTaskDone, absEnded, absAnswer, Promise!vars
<1>7. CASE RequestParentCancel \/ DeliverParentCancel
  BY <1>7 DEF RequestParentCancel, DeliverParentCancel, absEnded, absAnswer, Promise!vars
<1>8. CASE Conclude
  BY <1>8, ConcludeMaps DEF Promise!Next
<1>9. CASE UNCHANGED vars
  BY <1>9 DEF vars, absEnded, absAnswer, Promise!vars
<1> QED BY <1>1, <1>2, <1>3, <1>4, <1>5, <1>6, <1>7, <1>8, <1>9 DEF Next

(* The executors built on the TaskGroup keep the promise of execute(plan):  *)
(* one answer, after every branch ended, with all results, exactly the      *)
(* failures, or a cancellation that hides none.                             *)
THEOREM ExecutorKeepsPromise == Spec => KeepsPromise
<1>1. Init => Promise!Init
  BY DEF Init, Promise!Init, absEnded, absAnswer, Promise!NoAnswer
<1> QED BY <1>1, NextMaps, InvariantHolds, PTL DEF Spec, KeepsPromise, Promise!Spec

-----------------------------------------------------------------------------
(* Phase 4 (RiskAndBidHandoff).  That handoffs are coherent, for all        *)
(* workflows, callers and objects.  Neither property is inductive alone: a  *)
(* read is as good as a later one because what is published stays, so the   *)
(* invariant says of every forecast on its way to an assessment or a        *)
(* handoff that it is the published one.                                    *)

\* The basis of an assessment or a handoff of workflow w.
IsPublished(w, f) == published[w] = f /\ f \in Objects

PublishedIsAccepted ==
  \A w \in Workflows : published[w] # None =>
    recorded[w] # None /\ Content[published[w]] = Content[recorded[w]]

ReadsArePublished ==
  \A c \in Callers :
    /\ request[c] # None => IsPublished(workflow[c], request[c])
    /\ snapshot[c] # None => IsPublished(workflow[c], snapshot[c])

CallersHoldTheirParts ==
  \A c \in Callers :
    /\ pc[c] = "assessing" => request[c] # None
    /\ pc[c] \in {"assessed", "proposing"} =>
         /\ published[workflow[c]] \in Objects
         /\ assessment[c] = [workflow |-> workflow[c], forecast |-> published[workflow[c]]]
    /\ pc[c] = "proposing" => snapshot[c] # None

AssessedIsPublished == \A a \in assessed : IsPublished(a.workflow, a.forecast)

HandoffInv ==
  /\ HandoffTypeOK
  /\ PublishedIsAccepted /\ ReadsArePublished /\ CallersHoldTheirParts /\ AssessedIsPublished
  /\ HandoffIsCoherent

USE DEF context, call, handoffVars

\* Initially nothing is published, read or made.
LEMMA HandoffInitially == HandoffInit => HandoffInv
BY HandoffAssumption
   DEF HandoffInit, HandoffInv, HandoffTypeOK, PublishedIsAccepted, ReadsArePublished,
   CallersHoldTheirParts, AssessedIsPublished, HandoffIsCoherent

\* What is published stays published when the view or its context record.
LEMMA RecordingKeeps ==
  ASSUME HandoffInv, NEW w \in Workflows, NEW f \in Objects,
         RecordSuccess(w, f) \/ RecordOnWrappedContext(w, f)
  PROVE  HandoffInv'
<1> USE HandoffAssumption DEF HandoffInv
<1>0. UNCHANGED call
  BY DEF RecordSuccess, RecordOnWrappedContext
<1>1. HandoffTypeOK'
  BY <1>0 DEF HandoffTypeOK, RecordSuccess, RecordOnWrappedContext
<1>2. \A v \in Workflows : published[v] # None => published'[v] = published[v]
  BY DEF HandoffTypeOK, RecordSuccess, RecordOnWrappedContext
<1>3. PublishedIsAccepted'
  BY DEF PublishedIsAccepted, HandoffTypeOK, RecordSuccess, RecordOnWrappedContext, Accepts
<1>4. ReadsArePublished'
  BY <1>0, <1>2 DEF ReadsArePublished, IsPublished, HandoffTypeOK
<1>5. CallersHoldTheirParts'
  <2> SUFFICES ASSUME NEW c \in Callers, pc[c] \in {"assessed", "proposing"}
               PROVE  published'[workflow[c]] = published[workflow[c]]
    BY <1>0 DEF CallersHoldTheirParts
  <2>1. published[workflow[c]] # None
    BY DEF CallersHoldTheirParts
  <2> QED
    BY <1>2, <2>1 DEF HandoffTypeOK
<1>6. AssessedIsPublished'
  BY <1>0, <1>2 DEF AssessedIsPublished, IsPublished, HandoffTypeOK, Assessments
<1>7. HandoffIsCoherent'
  BY <1>0 DEF HandoffIsCoherent
<1> QED
  BY <1>1, <1>3, <1>4, <1>5, <1>6, <1>7

\* A caller's step.
LEMMA CallerKeeps ==
  ASSUME HandoffInv, NEW c \in Callers,
         \/ Begin(c) \/ ReadForRisk(c) \/ Assess(c) \/ GetSuccess(c)
         \/ RequestBids(c) \/ HandOff(c) \/ Fail(c)
  PROVE  HandoffInv'
<1> USE HandoffAssumption DEF HandoffInv
<1>0. UNCHANGED context /\ UNCHANGED workflow
  BY DEF Begin, ReadForRisk, Assess, GetSuccess, RequestBids, HandOff, Fail
<1>p. PublishedIsAccepted'
  BY <1>0 DEF PublishedIsAccepted
<1>1. CASE Begin(c)
  <2>1. HandoffTypeOK' BY <1>1 DEF HandoffTypeOK, Begin
  <2>2. ReadsArePublished' BY <1>1, <1>0 DEF ReadsArePublished, IsPublished, Begin, HandoffTypeOK
  <2>3. CallersHoldTheirParts' BY <1>1, <1>0 DEF CallersHoldTheirParts, Begin, HandoffTypeOK
  <2>4. AssessedIsPublished' /\ HandoffIsCoherent'
    BY <1>1, <1>0 DEF AssessedIsPublished, IsPublished, HandoffIsCoherent, Begin
  <2> QED BY <2>1, <2>2, <2>3, <2>4, <1>p
<1>2. CASE ReadForRisk(c)
  <2>1. HandoffTypeOK' BY <1>2 DEF HandoffTypeOK, ReadForRisk
  <2>2. ReadsArePublished' BY <1>2, <1>0 DEF ReadsArePublished, IsPublished, ReadForRisk, HandoffTypeOK
  <2>3. CallersHoldTheirParts' BY <1>2, <1>0 DEF CallersHoldTheirParts, ReadForRisk, HandoffTypeOK
  <2>4. AssessedIsPublished' /\ HandoffIsCoherent'
    BY <1>2, <1>0 DEF AssessedIsPublished, IsPublished, HandoffIsCoherent, ReadForRisk
  <2> QED BY <2>1, <2>2, <2>3, <2>4, <1>p
<1>3. CASE Assess(c)
  <2> DEFINE a == [workflow |-> workflow[c], forecast |-> request[c]]
  <2>0. a \in Assessments /\ request[c] = published[workflow[c]] /\ IsPublished(a.workflow, a.forecast)
    BY <1>3 DEF Assess, HandoffTypeOK, Assessments, ReadsArePublished, IsPublished
  <2>1. HandoffTypeOK' BY <1>3, <2>0 DEF HandoffTypeOK, Assess
  <2>2. ReadsArePublished' BY <1>3, <1>0 DEF ReadsArePublished, IsPublished, Assess
  <2>3. CallersHoldTheirParts' BY <1>3, <1>0, <2>0 DEF CallersHoldTheirParts, Assess, HandoffTypeOK
  <2>4. AssessedIsPublished'
    BY <1>3, <1>0, <2>0 DEF AssessedIsPublished, IsPublished, Assess
  <2>5. HandoffIsCoherent' BY <1>3 DEF HandoffIsCoherent, Assess
  <2> QED BY <2>1, <2>2, <2>3, <2>4, <2>5, <1>p
<1>4. CASE GetSuccess(c)
  <2>1. HandoffTypeOK' BY <1>4 DEF HandoffTypeOK, GetSuccess
  <2>2. ReadsArePublished' BY <1>4, <1>0 DEF ReadsArePublished, IsPublished, GetSuccess, HandoffTypeOK
  <2>3. CallersHoldTheirParts' BY <1>4, <1>0 DEF CallersHoldTheirParts, GetSuccess, HandoffTypeOK
  <2>4. AssessedIsPublished' /\ HandoffIsCoherent'
    BY <1>4, <1>0 DEF AssessedIsPublished, IsPublished, HandoffIsCoherent, GetSuccess
  <2> QED BY <2>1, <2>2, <2>3, <2>4, <1>p
<1>5. CASE RequestBids(c) \/ Fail(c)
  <2>1. HandoffTypeOK' BY <1>5 DEF HandoffTypeOK, RequestBids, Fail
  <2>2. ReadsArePublished' BY <1>5, <1>0 DEF ReadsArePublished, IsPublished, RequestBids, Fail
  <2>3. CallersHoldTheirParts' BY <1>5, <1>0 DEF CallersHoldTheirParts, RequestBids, Fail, HandoffTypeOK
  <2>4. AssessedIsPublished' /\ HandoffIsCoherent'
    BY <1>5, <1>0 DEF AssessedIsPublished, IsPublished, HandoffIsCoherent, RequestBids, Fail
  <2> QED BY <2>1, <2>2, <2>3, <2>4, <1>p
<1>6. CASE HandOff(c)
  <2> DEFINE h == [workflow |-> workflow[c], forecast |-> snapshot[c], assessment |-> assessment[c],
                   bids |-> [assessment |-> assessment[c], forecast |-> snapshot[c]]]
  <2>0. /\ snapshot[c] = published[workflow[c]] /\ snapshot[c] \in Objects
        /\ assessment[c] = [workflow |-> workflow[c], forecast |-> snapshot[c]]
    BY <1>6 DEF HandOff, CallersHoldTheirParts, ReadsArePublished, IsPublished
  <2>1. assessment[c] \in Assessments /\ h \in Handoffs
    BY <2>0 DEF HandoffTypeOK, Assessments, Handoffs
  <2>2. handoff' = [handoff EXCEPT ![c] = h]
    BY <1>6 DEF HandOff, TradingStrategyBidRequest
  <2>3. HandoffTypeOK' BY <1>6, <2>1, <2>2 DEF HandoffTypeOK, HandOff
  <2>4. ReadsArePublished' BY <1>6, <1>0 DEF ReadsArePublished, IsPublished, HandOff
  <2>5. CallersHoldTheirParts' BY <1>6, <1>0 DEF CallersHoldTheirParts, HandOff, HandoffTypeOK
  <2>6. AssessedIsPublished' BY <1>6, <1>0 DEF AssessedIsPublished, IsPublished, HandOff
  <2>7. HandoffIsCoherent' BY <2>0, <2>2 DEF HandoffIsCoherent, HandoffTypeOK
  <2> QED BY <2>3, <2>4, <2>5, <2>6, <2>7, <1>p
<1> QED
  BY <1>1, <1>2, <1>3, <1>4, <1>5, <1>6

\* Every step keeps the invariant.
LEMMA HandoffStep == HandoffInv /\ [HandoffNext]_handoffVars => HandoffInv'
<1> SUFFICES ASSUME HandoffInv, [HandoffNext]_handoffVars PROVE HandoffInv'
  OBVIOUS
<1>1. CASE UNCHANGED handoffVars
  BY <1>1
     DEF HandoffInv, HandoffTypeOK, PublishedIsAccepted, ReadsArePublished, CallersHoldTheirParts,
     AssessedIsPublished, HandoffIsCoherent, IsPublished
<1>2. ASSUME NEW w \in Workflows, NEW f \in Objects,
             RecordSuccess(w, f) \/ RecordOnWrappedContext(w, f)
      PROVE  HandoffInv'
  BY <1>2, RecordingKeeps
<1>3. ASSUME NEW c \in Callers,
             \/ Begin(c) \/ ReadForRisk(c) \/ Assess(c) \/ GetSuccess(c)
             \/ RequestBids(c) \/ HandOff(c) \/ Fail(c)
      PROVE  HandoffInv'
  BY <1>3, CallerKeeps
<1> QED
  BY <1>1, <1>2, <1>3 DEF HandoffNext

\* The variables always have their types.
THEOREM HandoffTypesCorrect == HandoffSpec => []HandoffTypeOK
<1>1. HandoffInv => HandoffTypeOK
  BY DEF HandoffInv
<1> QED
  BY <1>1, HandoffInitially, HandoffStep, PTL DEF HandoffSpec

\* The assessment, the bids and the forecast of every handoff rest on the same
\* object, for any number of callers, workflows and attempts.
THEOREM CoherentHandoffs == HandoffSpec => []HandoffIsCoherent
<1>1. HandoffInv => HandoffIsCoherent
  BY DEF HandoffInv
<1> QED
  BY <1>1, HandoffInitially, HandoffStep, PTL DEF HandoffSpec

\* No forecast that the context refused is ever assessed.
THEOREM AssessmentsOfRecordedForecasts == HandoffSpec => []AssessmentsRestOnTheRecord
<1>1. HandoffInv => AssessmentsRestOnTheRecord
  BY HandoffAssumption DEF HandoffInv, AssessmentsRestOnTheRecord, AssessedIsPublished, IsPublished,
     PublishedIsAccepted, HandoffTypeOK, Assessments
<1> QED
  BY <1>1, HandoffInitially, HandoffStep, PTL DEF HandoffSpec
=============================================================================
