----------------------------- MODULE PhaseAnswers -----------------------------
(***************************************************************************)
(* The exceptions a branch of a phase can end with, and the answers that   *)
(* execute(plan) can give the workflow step that awaits it.                *)
(***************************************************************************)

CONSTANTS Branches,      \* the concurrent agents of the phase
          Results,       \* results a branch can return
          Causes,        \* ordinary exceptions an agent can raise
          Unattributed,  \* the agent of an exception that carries none
          Nothing        \* held by a branch that neither returned nor raised

(* The exceptions branch b can end with: the agent failure of its own name *)
(* raised from an ordinary cause, or a bare BaseException.                 *)
LeavesOf(b) == {[agent |-> b, cause |-> c] : c \in Causes}
                 \cup {[agent |-> Unattributed, cause |-> Nothing]}

Leaves == UNION {LeavesOf(b) : b \in Branches}

NoAnswer       == [kind |-> "none"]
Cancelled      == [kind |-> "cancelled"]
Success(f)     == [kind |-> "success", results |-> f]
FailureGroup(f) == [kind |-> "group", failures |-> f]

(* Every answer the call can give.  A group is a function from the         *)
(* branches that raised to what each of them raised.                       *)
Answers ==
  {Cancelled}
    \cup {Success(f) : f \in [Branches -> Results]}
    \cup UNION {{FailureGroup(f) : f \in {g \in [S -> Leaves] : \A b \in S : g[b] \in LeavesOf(b)}} :
                  S \in (SUBSET Branches) \ {{}}}
=============================================================================
