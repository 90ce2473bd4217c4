-------------------------- MODULE RiskAndBidHandoff --------------------------
(***************************************************************************)
(* Phase 4: callers obtain a risk assessment of a workflow's forecast, read *)
(* the forecast once more themselves, and have bids proposed and wrapped in *)
(* a handoff, while forecasting invocations are still recording.  The code  *)
(* compares nothing of what it puts together; what makes the parts belong   *)
(* together is the view that keeps the first published object.  Forecasts   *)
(* are Python objects: several of them may be equal (Content).  The agents  *)
(* are external and known by the request they were given.                   *)
(***************************************************************************)
EXTENDS Integers

CONSTANTS Workflows, Callers, Objects,
          Content,      \* object -> what == compares
          MaxAttempts,  \* attempts of a caller, the first included
          None

ASSUME HandoffAssumption == None \notin Objects

VARIABLES recorded,     \* _successes of the wrapped context
          published,    \* _successes of the read-after-write view
          pc, attempts, workflow, wellFormed,
          request,      \* caller -> forecast of its assessment request
          assessment,   \* caller -> the assessment it got
          snapshot,     \* caller -> the forecast it read itself
          handoff,      \* caller -> its result
          assessed      \* every assessment ever made

context == <<recorded, published>>
call == <<pc, attempts, workflow, wellFormed, request, assessment, snapshot, handoff, assessed>>
handoffVars == <<context, call>>

HandoffInit ==
  /\ recorded = [w \in Workflows |-> None] /\ published = [w \in Workflows |-> None]
  /\ pc = [c \in Callers |-> "idle"] /\ attempts = [c \in Callers |-> 0]
  /\ workflow \in [Callers -> Workflows] /\ wellFormed = [c \in Callers |-> TRUE]
  /\ request = [c \in Callers |-> None] /\ assessment = [c \in Callers |-> None]
  /\ snapshot = [c \in Callers |-> None] /\ handoff = [c \in Callers |-> None]
  /\ assessed = {}

-----------------------------------------------------------------------------
(* The contexts                                                            *)

Accepts(w, f) == IF recorded[w] = None THEN TRUE ELSE Content[recorded[w]] = Content[f]

RecordOnWrappedContext(w, f) ==
  /\ recorded[w] = None
  /\ recorded' = [recorded EXCEPT ![w] = f]
  /\ UNCHANGED <<published, call>>

\* mutant: every accepted object is published, not only the first
RecordSuccessLatest(w, f) ==
  /\ Accepts(w, f)
  /\ recorded' = IF recorded[w] = None THEN [recorded EXCEPT ![w] = f] ELSE recorded
  /\ published' = [published EXCEPT ![w] = f]
  /\ UNCHANGED call

\* Recording through the view; a conflict raises and changes nothing.
RecordSuccess(w, f) ==
  /\ Accepts(w, f)
  /\ recorded' = IF recorded[w] = None THEN [recorded EXCEPT ![w] = f] ELSE recorded
  /\ published' = IF published[w] = None THEN [published EXCEPT ![w] = f] ELSE published
  /\ UNCHANGED call

-----------------------------------------------------------------------------
(* The callers                                                             *)

\* A caller begins, also again after a failure, with nothing it had before.
Begin(c) ==
  /\ pc[c] \in {"idle", "failed"} /\ attempts[c] < MaxAttempts
  /\ pc' = [pc EXCEPT ![c] = "reading"] /\ attempts' = [attempts EXCEPT ![c] = @ + 1]
  /\ \E ok \in BOOLEAN : wellFormed' = [wellFormed EXCEPT ![c] = ok]
  /\ request' = [request EXCEPT ![c] = None] /\ assessment' = [assessment EXCEPT ![c] = None]
  /\ snapshot' = [snapshot EXCEPT ![c] = None]
  /\ UNCHANGED <<context, workflow, handoff, assessed>>

\* PortfolioRiskExecutionService.execute up to the agent: the read may find
\* nothing, the request may refuse its fields.
ReadForRisk(c) ==
  /\ pc[c] = "reading"
  /\ IF published[workflow[c]] # None /\ wellFormed[c]
     THEN /\ request' = [request EXCEPT ![c] = published[workflow[c]]]
          /\ pc' = [pc EXCEPT ![c] = "assessing"]
     ELSE pc' = [pc EXCEPT ![c] = "failed"] /\ UNCHANGED request
  /\ UNCHANGED <<context, attempts, workflow, wellFormed, assessment, snapshot, handoff, assessed>>

\* The assessment port answers and the service returns its assessment.
Assess(c) ==
  LET a == [workflow |-> workflow[c], forecast |-> request[c]]
  IN  /\ pc[c] = "assessing" /\ pc' = [pc EXCEPT ![c] = "assessed"]
      /\ assessment' = [assessment EXCEPT ![c] = a]
      /\ assessed' = assessed \union {a}
      /\ UNCHANGED <<context, attempts, workflow, wellFormed, request, snapshot, handoff>>

\* The caller's own read, before, during or after the assessment.
GetSuccess(c) ==
  /\ pc[c] \in {"reading", "assessing", "assessed"} /\ snapshot[c] = None
  /\ IF published[workflow[c]] # None
     THEN snapshot' = [snapshot EXCEPT ![c] = published[workflow[c]]] /\ UNCHANGED pc
     ELSE pc' = [pc EXCEPT ![c] = "failed"] /\ UNCHANGED snapshot
  /\ UNCHANGED <<context, attempts, workflow, wellFormed, request, assessment, handoff, assessed>>

\* TradingStrategyProposalHandoffService.execute begins: the bid request is
\* built from what the caller holds.
RequestBids(c) ==
  /\ pc[c] = "assessed" /\ snapshot[c] # None
  /\ pc' = [pc EXCEPT ![c] = "proposing"]
  /\ UNCHANGED <<context, attempts, workflow, wellFormed, request, assessment, snapshot, handoff, assessed>>

\* What the bids are made from, and all that is known of them here.
TradingStrategyBidRequest(c) == [assessment |-> assessment[c], forecast |-> snapshot[c]]

\* The bid port answers and the handoff is built.
HandOff(c) ==
  /\ pc[c] = "proposing" /\ pc' = [pc EXCEPT ![c] = "done"]
  /\ handoff' = [handoff EXCEPT ![c] =
       [workflow |-> workflow[c], forecast |-> snapshot[c], assessment |-> assessment[c],
        bids |-> TradingStrategyBidRequest(c)]]
  /\ UNCHANGED <<context, attempts, workflow, wellFormed, request, assessment, snapshot, assessed>>

\* An agent raises or the caller is cancelled; nothing is kept.
Fail(c) ==
  /\ pc[c] \in {"reading", "assessing", "assessed", "proposing"}
  /\ pc' = [pc EXCEPT ![c] = "failed"]
  /\ UNCHANGED <<context, attempts, workflow, wellFormed, request, assessment, snapshot, handoff, assessed>>

HandoffNext ==
  \/ \E w \in Workflows, f \in Objects : RecordSuccess(w, f) \/ RecordOnWrappedContext(w, f)
  \/ \E c \in Callers :
       \/ Begin(c) \/ ReadForRisk(c) \/ Assess(c) \/ GetSuccess(c)
       \/ RequestBids(c) \/ HandOff(c) \/ Fail(c)

HandoffSpec == HandoffInit /\ [][HandoffNext]_handoffVars

-----------------------------------------------------------------------------
(* Properties                                                              *)

Assessments == [workflow : Workflows, forecast : Objects]
Handoffs ==
  [workflow : Workflows, forecast : Objects, assessment : Assessments,
   bids : [assessment : Assessments, forecast : Objects]]

\* The variables have their types; an agent is only asked about a forecast
\* that exists.
HandoffTypeOK ==
  /\ recorded \in [Workflows -> Objects \union {None}]
  /\ published \in [Workflows -> Objects \union {None}]
  /\ pc \in [Callers -> {"idle", "reading", "assessing", "assessed", "proposing", "done", "failed"}]
  /\ attempts \in [Callers -> Int] /\ workflow \in [Callers -> Workflows]
  /\ wellFormed \in [Callers -> BOOLEAN]
  /\ request \in [Callers -> Objects \union {None}]
  /\ snapshot \in [Callers -> Objects \union {None}]
  /\ assessment \in [Callers -> Assessments \union {None}]
  /\ handoff \in [Callers -> Handoffs \union {None}]
  /\ assessed \subseteq Assessments
  /\ \A c \in Callers : pc[c] = "assessing" => request[c] \in Objects

\* A handoff puts together what belongs together: its assessment, its bids and
\* its forecast rest on the very same object, although it was read twice while
\* others recorded (portfolio_risk_execution.py and the caller of
\* trading_strategy_proposal_handoff.py).
HandoffIsCoherent ==
  \A c \in Callers : handoff[c] # None =>
    LET h == handoff[c]
    IN  /\ h.assessment = [workflow |-> h.workflow, forecast |-> h.forecast]
        /\ h.bids = [assessment |-> h.assessment, forecast |-> h.forecast]

\* Every assessment ever made for a workflow, by whichever caller and attempt,
\* rests on the one result that the contexts hold for it; a forecast that was
\* refused as conflicting is never assessed.
AssessmentsRestOnTheRecord ==
  \A a \in assessed :
    /\ recorded[a.workflow] # None /\ Content[a.forecast] = Content[recorded[a.workflow]]
    /\ a.forecast = published[a.workflow]
=============================================================================
