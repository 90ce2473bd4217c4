------------------------- MODULE WorkflowGraphProofs --------------------------
(***************************************************************************)
(* For any number of workflows, invocations, agents and results: the       *)
(* snapshots callers hold are backed by the contexts, racing invocations   *)
(* agree, and a failed snapshot has one cause.                             *)
(***************************************************************************)
EXTENDS WorkflowGraph, FiniteSetTheorems, TLAPS

(* An exception group of the phase: some of its agents, each with an        *)
(* exception of its own.                                                    *)
IsGroup(phase, g) ==
  \/ /\ phase = "ingestion" /\ DOMAIN g \subseteq IngestionAgents
     /\ \A b \in DOMAIN g : g[b] \in Ingestion!LeavesOf(b)
  \/ /\ phase = "forecasting" /\ DOMAIN g \subseteq ForecastingAgents
     /\ \A b \in DOMAIN g : g[b] \in Forecasting!LeavesOf(b)

(* ctx, what a policy of the phase is asked about, names the one failure in *)
(* the group g: its phase, its agent and its code.                          *)
NamesTheFailure(ctx, phase, g) ==
  \E b \in AgentsOf(phase) :
    /\ DOMAIN g = {b}
    /\ g[b].agent = b
    /\ ctx.agent_name = b
    /\ ctx.phase = phase
    /\ g[b].cause \in ApplicationCodes => ctx.error_code = g[b].cause
    /\ g[b].cause \notin ApplicationCodes => ctx.error_code = UnexpectedCode(phase)

OneCause(i) == NamesTheFailure(context[i], state[i].phase, got[i])

(* Where an invocation is says which snapshot it carries...                 *)
SnapshotFits(i) ==
  /\ pc[i] \in {"reg_resolve", "reg_run", "reg_record"} => state[i] = Running("contract")
  /\ pc[i] \in {"resolve", "execute", "record", "handle", "advance"} =>
       state[i] \in {Running("ingestion"), Running("forecasting")}
  /\ pc[i] = "route" => state[i] \in {Running("ingestion"), Running("forecasting"),
                                      Failed("ingestion"), Failed("forecasting")}
  /\ pc[i] = "returned" => state[i] \in {Running("contract"), Running("forecasting"), Running("risk_and_bid"),
                                         Failed("ingestion"), Failed("forecasting")}

(* ... what it got from its agents ...                                      *)
AnswerFits(i) ==
  /\ pc[i] = "record" /\ state[i] = Running("ingestion") => got[i] \in IngestionSuccesses
  /\ pc[i] = "record" /\ state[i] = Running("forecasting") => got[i] \in ForecastingSuccesses
  /\ pc[i] = "handle" => IsGroup(state[i].phase, got[i])

(* ... and what the contexts hold for its workflow.                         *)
ContextFits(i) ==
  /\ pc[i] # "idle" => Backed(wf[i], state[i])
  /\ pc[i] \in {"route", "advance"} /\ state[i] = Running("ingestion") =>
       got[i] = ingested[wf[i]] /\ ingested[wf[i]] # None
  /\ pc[i] \in {"route", "advance"} /\ state[i] = Running("forecasting") =>
       got[i] = forecast[wf[i]] /\ forecast[wf[i]] # None /\ published[wf[i]] # None
  /\ pc[i] = "returned" /\ state[i] = Running("forecasting") =>
       got[i] = ingested[wf[i]] /\ ingested[wf[i]] # None
  /\ pc[i] = "returned" /\ state[i] = Running("risk_and_bid") =>
       got[i] = forecast[wf[i]] /\ forecast[wf[i]] # None

CauseFits(i) ==
  pc[i] \in {"route", "returned"} /\ state[i].status = "failed" => OneCause(i)

CallFits(i) == SnapshotFits(i) /\ AnswerFits(i) /\ ContextFits(i) /\ CauseFits(i)

ReadsArePublished == \A w \in Workflows : \A s \in seen[w] : published[w] # None /\ s = published[w]

(* got and context are functions with an entry per invocation.              *)
Entries ==
  /\ got = [i \in Invocations |-> got[i]]
  /\ context = [i \in Invocations |-> context[i]]

IInv ==
  /\ TypeOK
  /\ Entries
  /\ SnapshotsAreBacked
  /\ PublishedIsRecorded
  /\ ReadsArePublished
  /\ \A i \in Invocations : CallFits(i)

(* A step that only adds to the contexts.                                   *)
ContextsGrow ==
  \A w \in Workflows :
    /\ ingested[w] # None => ingested'[w] = ingested[w]
    /\ forecast[w] # None => forecast'[w] = forecast[w]
    /\ published[w] # None => published'[w] = published[w]

-----------------------------------------------------------------------------
(* Snapshots are what Running and Failed build.                             *)
LEMMA SnapshotFacts ==
  /\ \A p \in Phases : Running(p) \in Snapshots /\ Failed(p) \in Snapshots
  /\ \A p : Running(p).phase = p /\ Failed(p).phase = p
  /\ \A p : Running(p).status = "running" /\ Failed(p).status = "failed"
  /\ \A p, q : Running(p) # Failed(q)
  /\ \A p, q : Running(p) = Running(q) => p = q
  /\ \A p, q : Failed(p) = Failed(q) => p = q
BY DEF Running, Failed, Snapshots, Statuses

(* The executor's answers carry results or groups of the right phase.       *)
LEMMA IngestionAnswers ==
  ASSUME NEW a \in Ingestion!Answers
  PROVE  /\ a.kind = "success" => a.results \in IngestionSuccesses
         /\ a.kind = "group" => IsGroup("ingestion", a.failures)
<1>1. CASE a = Ingestion!Cancelled
  BY <1>1 DEF Ingestion!Cancelled
<1>2. ASSUME NEW f \in [IngestionAgents -> Results], a = Ingestion!Success(f)
      PROVE a.kind = "success" /\ a.results = f
  BY <1>2 DEF Ingestion!Success
<1>3. ASSUME NEW S \in SUBSET IngestionAgents,
             NEW f \in {g \in [S -> Ingestion!Leaves] : \A b \in S : g[b] \in Ingestion!LeavesOf(b)},
             a = Ingestion!FailureGroup(f)
      PROVE a.kind = "group" /\ IsGroup("ingestion", a.failures)
  BY <1>3 DEF Ingestion!FailureGroup, IsGroup
<1> QED BY <1>1, <1>2, <1>3 DEF Ingestion!Answers, IngestionSuccesses

(* What the forecasting executor answers: successes, or a failure group.    *)
LEMMA ForecastingAnswers ==
  ASSUME NEW a \in Forecasting!Answers
  PROVE  /\ a.kind = "success" => a.results \in ForecastingSuccesses
         /\ a.kind = "group" => IsGroup("forecasting", a.failures)
<1>1. CASE a = Forecasting!Cancelled
  BY <1>1 DEF Forecasting!Cancelled
<1>2. ASSUME NEW f \in [ForecastingAgents -> Results], a = Forecasting!Success(f)
      PROVE a.kind = "success" /\ a.results = f
  BY <1>2 DEF Forecasting!Success
<1>3. ASSUME NEW S \in SUBSET ForecastingAgents,
             NEW f \in {g \in [S -> Forecasting!Leaves] : \A b \in S : g[b] \in Forecasting!LeavesOf(b)},
             a = Forecasting!FailureGroup(f)
      PROVE a.kind = "group" /\ IsGroup("forecasting", a.failures)
  BY <1>3 DEF Forecasting!FailureGroup, IsGroup
<1> QED BY <1>1, <1>2, <1>3 DEF Forecasting!Answers, ForecastingSuccesses

(* A prepared failure context names the one agent that failed and its code. *)
LEMMA PreparedContext ==
  ASSUME NEW phase \in {"ingestion", "forecasting"}, NEW g, IsGroup(phase, g), PrepareDefined(phase, g)
  PROVE  NamesTheFailure(Context(phase, g), phase, g)
<1>1. IsFiniteSet(DOMAIN g)
  BY ContextAssumption, FS_Subset DEF IsGroup
<1>2. DOMAIN Facts(phase, g) = DOMAIN g
  BY DEF Facts
<1>3. PICK b : DOMAIN g = {b}
  <2>1. Cardinality(DOMAIN g) = 1
    BY <1>2 DEF PrepareDefined, SelectDefined
  <2> QED BY <1>1, <2>1, FS_Singleton
<1>4. g[b].agent # Unattributed
  BY <1>3 DEF PrepareDefined, ExtractDefined
<1>5. b \in AgentsOf(phase) /\ g[b].agent = b
  BY <1>3, <1>4 DEF IsGroup, AgentsOf, Ingestion!LeavesOf, Forecasting!LeavesOf
<1>6. Selected(Facts(phase, g)) = Fact(g[b], UnexpectedCode(phase))
  <2>1. Selected(Facts(phase, g)) = Facts(phase, g)[b]
    BY <1>2, <1>3 DEF Selected
  <2>2. Facts(phase, g)[b] = Fact(g[b], UnexpectedCode(phase))
    BY <1>3 DEF Facts, classify_parallel_ingestion_agent_failure, classify_forecasting_agent_failure, UnexpectedCode
  <2> QED BY <2>1, <2>2
<1>7. /\ Context(phase, g).agent_name = b /\ Context(phase, g).phase = phase
      /\ Context(phase, g).error_code = IF g[b].cause \in ApplicationCodes THEN g[b].cause ELSE UnexpectedCode(phase)
  BY <1>5, <1>6 DEF Context, Fact
<1> QED BY <1>3, <1>5, <1>7 DEF NamesTheFailure

-----------------------------------------------------------------------------
(* An invocation that does not move keeps its part of the invariant while   *)
(* the contexts grow.                                                       *)
LEMMA Bystander ==
  ASSUME IInv, ContextsGrow, NEW j \in Invocations,
         pc'[j] = pc[j], wf'[j] = wf[j], state'[j] = state[j], got'[j] = got[j], context'[j] = context[j]
  PROVE  CallFits(j)'
<1>1. pc[j] # "idle" => wf[j] \in Workflows
  BY DEF IInv, TypeOK
<1>2. SnapshotFits(j)' /\ AnswerFits(j)' /\ CauseFits(j)'
  BY DEF IInv, CallFits, SnapshotFits, AnswerFits, CauseFits, OneCause, NamesTheFailure
<1>3. ContextFits(j)'
  BY <1>1 DEF IInv, CallFits, ContextFits, ContextsGrow, Backed
<1> QED BY <1>2, <1>3 DEF CallFits

(* Snapshots stay backed while the contexts grow, if any new one is backed. *)
LEMMA BackingKept ==
  ASSUME IInv, ContextsGrow,
         \A w \in Workflows : \A s \in known'[w] : s \in known[w] \/ Backed(w, s)'
  PROVE  SnapshotsAreBacked'
BY DEF IInv, SnapshotsAreBacked, Backed, ContextsGrow

(* A step of one invocation i that leaves the contexts and the readers      *)
(* alone keeps the invariant if it keeps i's own part of it.                *)
LEMMA OwnStep ==
  ASSUME IInv, NEW i \in Invocations, UNCHANGED <<contextVars, seen>>,
         pc' = [pc EXCEPT ![i] = pc'[i]], wf' = [wf EXCEPT ![i] = wf'[i]],
         state' = [state EXCEPT ![i] = state'[i]], got' = [got EXCEPT ![i] = got'[i]],
         context' = [context EXCEPT ![i] = context'[i]],
         \A w \in Workflows : \A s \in known'[w] : s \in known[w] \/ Backed(w, s)',
         TypeOK', CallFits(i)'
  PROVE  IInv'
<1>1. ContextsGrow
  BY DEF ContextsGrow, contextVars
<1>2. ASSUME NEW j \in Invocations, j # i PROVE CallFits(j)'
  <2>1. pc'[j] = pc[j] /\ wf'[j] = wf[j] /\ state'[j] = state[j]
    BY <1>2 DEF IInv, TypeOK
  <2>2. got'[j] = got[j] /\ context'[j] = context[j]
    BY <1>2 DEF IInv, Entries
  <2> QED BY <1>1, <2>1, <2>2, Bystander
<1>3. SnapshotsAreBacked'
  BY <1>1, BackingKept
<1>4. PublishedIsRecorded' /\ ReadsArePublished' /\ Entries'
  BY DEF IInv, PublishedIsRecorded, ReadsArePublished, contextVars, Entries
<1> QED BY <1>2, <1>3, <1>4 DEF IInv

(* The three ways a step of invocation i ends, as facts about the state.    *)
LEMMA StepEnds ==
  ASSUME IInv, NEW i \in Invocations
  PROVE  /\ \A p : Goto(i, p) => /\ pc'[i] = p /\ pc' = [pc EXCEPT ![i] = pc'[i]]
                                 /\ wf' = wf /\ wf' = [wf EXCEPT ![i] = wf'[i]]
                                 /\ known' = known /\ error' = error
         /\ \A c : Raise(i, c) => /\ pc'[i] = "raised" /\ pc' = [pc EXCEPT ![i] = pc'[i]]
                                  /\ wf' = wf /\ wf' = [wf EXCEPT ![i] = wf'[i]]
                                  /\ known' = known /\ error' = [error EXCEPT ![i] = c]
         /\ \A s : ReturnSnapshot(i, s) => /\ pc'[i] = "returned" /\ pc' = [pc EXCEPT ![i] = pc'[i]]
                                           /\ wf' = wf /\ wf' = [wf EXCEPT ![i] = wf'[i]]
                                           /\ known' = [known EXCEPT ![wf[i]] = @ \cup {s}]
                                           /\ error' = error
BY DEF IInv, TypeOK, Goto, Raise, ReturnSnapshot

(* A raised invocation has nothing left to satisfy but its backing.         *)
LEMMA RaiseStep ==
  ASSUME IInv, NEW i \in Invocations, NEW c \in ErrorCodes, pc[i] # "idle",
         Raise(i, c), UNCHANGED <<state, contextVars, seen>>,
         got' = [got EXCEPT ![i] = got'[i]], context' = [context EXCEPT ![i] = context'[i]]
  PROVE  IInv'
<1>1. TypeOK'
  BY StepEnds DEF IInv, TypeOK, contextVars
<1>2. CallFits(i)'
  BY StepEnds DEF IInv, CallFits, SnapshotFits, AnswerFits, ContextFits, CauseFits, Backed, contextVars
<1>3. state' = [state EXCEPT ![i] = state'[i]]
  BY DEF IInv, TypeOK
<1> QED BY <1>1, <1>2, <1>3, StepEnds, OwnStep

-----------------------------------------------------------------------------
(* An invocation starts from a snapshot that the workflow has had.          *)
LEMMA InvokeStep ==
  ASSUME IInv, NEW i \in Invocations, Invoke(i)
  PROVE  IInv'
<1>0. PICK w \in Workflows :
        \E t \in known[w] : wf' = [wf EXCEPT ![i] = w] /\ state' = [state EXCEPT ![i] = t]
  BY DEF Invoke
<1>1. PICK s \in known[w] : wf' = [wf EXCEPT ![i] = w] /\ state' = [state EXCEPT ![i] = s]
  BY <1>0
<1>2. s \in Snapshots /\ Backed(w, s)
  BY DEF IInv, TypeOK, SnapshotsAreBacked
<1>3. /\ pc'[i] = "entry" /\ wf'[i] = w /\ state'[i] = s /\ known' = known
      /\ pc' = [pc EXCEPT ![i] = pc'[i]] /\ wf' = [wf EXCEPT ![i] = wf'[i]]
      /\ state' = [state EXCEPT ![i] = state'[i]]
      /\ UNCHANGED <<got, context, contextVars, seen>>
  BY <1>1 DEF Invoke, IInv, TypeOK
<1>4. TypeOK'
  BY <1>1, <1>2, <1>3 DEF IInv, TypeOK, Invoke, contextVars
<1>5. CallFits(i)'
  BY <1>2, <1>3 DEF CallFits, SnapshotFits, AnswerFits, ContextFits, CauseFits, Backed, contextVars
<1>6. got' = [got EXCEPT ![i] = got'[i]] /\ context' = [context EXCEPT ![i] = context'[i]]
  BY <1>3 DEF IInv, Entries
<1> QED BY <1>3, <1>4, <1>5, <1>6, OwnStep

(* Steps that only move the program counter of i.                           *)
LEMMA GotoStep ==
  ASSUME IInv, NEW i \in Invocations, pc[i] # "idle",
         NEW p \in {"reg_resolve", "reg_run", "reg_record", "resolve", "execute", "advance"}, Goto(i, p),
         UNCHANGED <<state, got, context, contextVars, seen>>,
         p \in {"reg_resolve", "reg_run", "reg_record"} => state[i] = Running("contract"),
         p \in {"resolve", "execute"} => state[i] \in {Running("ingestion"), Running("forecasting")},
         p = "advance" => pc[i] = "route" /\ state[i] \in {Running("ingestion"), Running("forecasting")}
  PROVE  IInv'
<1>1. TypeOK'
  BY StepEnds DEF IInv, TypeOK, contextVars
<1>2. CallFits(i)'
  BY StepEnds DEF IInv, CallFits, SnapshotFits, AnswerFits, ContextFits, CauseFits, Backed, contextVars
<1>3. /\ state' = [state EXCEPT ![i] = state'[i]] /\ got' = [got EXCEPT ![i] = got'[i]]
      /\ context' = [context EXCEPT ![i] = context'[i]]
  BY DEF IInv, TypeOK, Entries
<1> QED BY <1>1, <1>2, <1>3, StepEnds, OwnStep

(* Steps that return the snapshot i carries.                                *)
LEMMA ReturnStep ==
  ASSUME IInv, NEW i \in Invocations, NEW s \in Snapshots, pc[i] # "idle",
         ReturnSnapshot(i, s), state' = [state EXCEPT ![i] = s], UNCHANGED <<got, context, contextVars, seen>>,
         Backed(wf[i], s),
         s \in {Running("contract"), Running("forecasting"), Running("risk_and_bid"),
                Failed("ingestion"), Failed("forecasting")},
         s = Running("forecasting") => got[i] = ingested[wf[i]] /\ ingested[wf[i]] # None,
         s = Running("risk_and_bid") => got[i] = forecast[wf[i]] /\ forecast[wf[i]] # None,
         s.status = "failed" => OneCause(i) /\ state[i] = s
  PROVE  IInv'
<1>0. wf[i] \in Workflows /\ wf'[i] = wf[i] /\ state'[i] = s /\ pc'[i] = "returned"
  BY StepEnds DEF IInv, TypeOK
<1>1. TypeOK'
  BY <1>0, StepEnds DEF IInv, TypeOK, contextVars
<1>2. SnapshotFits(i)' /\ AnswerFits(i)'
  BY <1>0 DEF SnapshotFits, AnswerFits
<1>3. ContextFits(i)'
  BY <1>0 DEF ContextFits, Backed, contextVars
<1>4. CauseFits(i)'
  BY <1>0 DEF CauseFits, OneCause, NamesTheFailure
<1>5. \A w \in Workflows : \A t \in known'[w] : t \in known[w] \/ Backed(w, t)'
  BY <1>0, StepEnds DEF IInv, TypeOK, Backed, contextVars
<1>6. /\ state' = [state EXCEPT ![i] = state'[i]] /\ got' = [got EXCEPT ![i] = got'[i]]
      /\ context' = [context EXCEPT ![i] = context'[i]]
  BY <1>0 DEF IInv, TypeOK, Entries
<1> QED BY <1>1, <1>2, <1>3, <1>4, <1>5, <1>6, StepEnds, OwnStep DEF CallFits

-----------------------------------------------------------------------------
(* The regulatory node leaves the snapshot of its invocation alone.         *)
LEMMA RegulatoryStep ==
  ASSUME IInv, NEW i \in Invocations, RegulatoryNode(i)
  PROVE  IInv'
<1>0. /\ pc[i] \in {"reg_resolve", "reg_run", "reg_record"}
      /\ state[i] = Running("contract")
      /\ UNCHANGED <<state, got, context, contextVars, seen>>
  BY DEF RegulatoryNode, IInv, CallFits, SnapshotFits
<1>1. CASE Goto(i, "reg_run") \/ Goto(i, "reg_record")
  BY <1>0, <1>1, GotoStep
<1>2. CASE ReturnSnapshot(i, state[i])
  <2>1. /\ state[i] \in Snapshots /\ state' = [state EXCEPT ![i] = state[i]]
        /\ Backed(wf[i], state[i])
    BY <1>0 DEF IInv, TypeOK, CallFits, ContextFits
  <2>2. /\ state[i] # Running("forecasting") /\ state[i] # Running("risk_and_bid")
        /\ state[i].status # "failed"
    BY <1>0, SnapshotFacts
  <2> QED BY <1>0, <1>2, <2>1, <2>2, ReturnStep
<1>3. CASE Raise(i, "agent_error")
  <2>1. got' = [got EXCEPT ![i] = got'[i]] /\ context' = [context EXCEPT ![i] = context'[i]]
    BY <1>0 DEF IInv, Entries
  <2> QED BY <1>0, <1>3, <2>1, RaiseStep DEF ErrorCodes
<1> QED BY <1>1, <1>2, <1>3 DEF RegulatoryNode

(* So do routing and resolving a plan.                                      *)
LEMMA RoutingStep ==
  ASSUME IInv, NEW i \in Invocations,
         RouteAfterWorkflowEntry(i) \/ ResolveIngestionPlan(i) \/ ResolveForecastingPlan(i) \/ Cancel(i)
  PROVE  IInv'
<1>0. /\ pc[i] # "idle" /\ UNCHANGED <<state, got, context, contextVars, seen>>
      /\ got' = [got EXCEPT ![i] = got'[i]] /\ context' = [context EXCEPT ![i] = context'[i]]
  BY DEF RouteAfterWorkflowEntry, ResolveIngestionPlan, ResolveForecastingPlan, Cancel, InPhase, IInv, Entries
<1>1. \/ Goto(i, "reg_resolve") /\ state[i] = Running("contract")
      \/ Goto(i, "resolve") /\ state[i] \in {Running("ingestion"), Running("forecasting")}
      \/ Goto(i, "execute") /\ pc[i] = "resolve"
      \/ \E c \in ErrorCodes : Raise(i, c)
  BY DEF RouteAfterWorkflowEntry, ResolveIngestionPlan, ResolveForecastingPlan, Cancel, InPhase, ErrorCodes
<1>2. pc[i] = "resolve" => state[i] \in {Running("ingestion"), Running("forecasting")}
  BY DEF IInv, CallFits, SnapshotFits
<1> QED BY <1>0, <1>1, <1>2, GotoStep, RaiseStep

(* An executed phase answers with what its own executor can answer.         *)
LEMMA ExecuteStep ==
  ASSUME IInv, NEW i \in Invocations, ExecuteIngestion(i) \/ ExecuteForecasting(i)
  PROVE  IInv'
<1>0. /\ pc[i] = "execute" /\ state[i] \in {Running("ingestion"), Running("forecasting")}
      /\ UNCHANGED <<state, context, contextVars, seen>>
  BY DEF ExecuteIngestion, ExecuteForecasting, InPhase, TakeAnswer, IInv, CallFits, SnapshotFits
<1>1. PICK a : /\ TakeAnswer(i, a)
               /\ a.kind = "success" => /\ state[i] = Running("ingestion") => a.results \in IngestionSuccesses
                                        /\ state[i] = Running("forecasting") => a.results \in ForecastingSuccesses
               /\ a.kind = "group" => IsGroup(state[i].phase, a.failures)
  <2>1. CASE ExecuteIngestion(i)
    BY <2>1, IngestionAnswers, SnapshotFacts DEF ExecuteIngestion, InPhase
  <2>2. CASE ExecuteForecasting(i)
    BY <2>2, ForecastingAnswers, SnapshotFacts DEF ExecuteForecasting, InPhase
  <2> QED BY <2>1, <2>2
<1>2. /\ state' = [state EXCEPT ![i] = state'[i]] /\ context' = [context EXCEPT ![i] = context'[i]]
  BY <1>0 DEF IInv, TypeOK, Entries
<1>3. CASE a.kind = "cancelled" /\ Raise(i, "cancelled") /\ got' = got
  <2>1. got' = [got EXCEPT ![i] = got'[i]]
    BY <1>3 DEF IInv, Entries
  <2> QED BY <1>0, <1>2, <1>3, <2>1, RaiseStep DEF ErrorCodes
<1>4. ASSUME NEW p \in {"record", "handle"}, NEW g, Goto(i, p), got' = [got EXCEPT ![i] = g],
             p = "record" => /\ state[i] = Running("ingestion") => g \in IngestionSuccesses
                             /\ state[i] = Running("forecasting") => g \in ForecastingSuccesses,
             p = "handle" => IsGroup(state[i].phase, g)
      PROVE  IInv'
  <2>0. /\ got'[i] = g /\ got' = [got EXCEPT ![i] = got'[i]]
        /\ pc'[i] = p /\ wf' = wf /\ known' = known
    BY <1>4, StepEnds DEF IInv, Entries
  <2>1. TypeOK'
    BY <1>0, <1>4, StepEnds DEF IInv, TypeOK, contextVars
  <2>2. SnapshotFits(i)' /\ AnswerFits(i)' /\ CauseFits(i)'
    BY <1>0, <1>4, <2>0 DEF SnapshotFits, AnswerFits, CauseFits
  <2>3. ContextFits(i)'
    BY <1>0, <2>0 DEF IInv, CallFits, ContextFits, Backed, contextVars
  <2> QED BY <1>0, <1>2, <1>4, <2>0, <2>1, <2>2, <2>3, StepEnds, OwnStep DEF CallFits
<1> QED BY <1>1, <1>3, <1>4 DEF TakeAnswer

(* A failure group is handled against the snapshot it was raised under.     *)
LEMMA HandleStep ==
  ASSUME IInv, NEW i \in Invocations, NEW phase \in {"ingestion", "forecasting"}, HandleFailure(i, phase)
  PROVE  IInv'
<1>0. /\ pc[i] = "handle" /\ state[i] = Running(phase) /\ IsGroup(phase, got[i])
      /\ UNCHANGED <<got, contextVars, seen>> /\ got' = [got EXCEPT ![i] = got'[i]]
  BY SnapshotFacts
  DEF HandleFailure, InPhase, IInv, CallFits, SnapshotFits, AnswerFits, Entries
<1>1. CASE UNCHANGED state /\ Raise(i, "invalid_request") /\ (context' = context \/ \E c : context' = [context EXCEPT ![i] = c])
  <2>1. context' = [context EXCEPT ![i] = context'[i]]
    BY <1>1 DEF IInv, Entries
  <2> QED BY <1>0, <1>1, <2>1, RaiseStep DEF ErrorCodes
<1>2. CASE /\ PrepareDefined(phase, got[i])
           /\ context' = [context EXCEPT ![i] = Context(phase, got[i])]
           /\ state' = [state EXCEPT ![i] = Failed(phase)] /\ Goto(i, "route")
  <2>0. /\ state'[i] = Failed(phase) /\ state' = [state EXCEPT ![i] = state'[i]]
        /\ context'[i] = Context(phase, got[i]) /\ context' = [context EXCEPT ![i] = context'[i]]
        /\ pc'[i] = "route" /\ wf' = wf /\ known' = known /\ got' = got
    BY <1>0, <1>2, StepEnds DEF IInv, Entries, TypeOK
  <2>1. TypeOK'
    BY <1>0, <1>2, <2>0, StepEnds, SnapshotFacts DEF IInv, TypeOK, contextVars, Phases
  <2>2. SnapshotFits(i)' /\ AnswerFits(i)'
    BY <2>0 DEF SnapshotFits, AnswerFits
  <2>3. ContextFits(i)'
    <3>1. Backed(wf[i], Running(phase))
      BY <1>0 DEF IInv, CallFits, ContextFits
    <3>2. Backed(wf[i], Failed(phase))'
      BY <1>0, <2>0, <3>1, SnapshotFacts DEF Backed, contextVars
    <3> QED BY <2>0, <3>2, SnapshotFacts DEF ContextFits
  <2>4. CauseFits(i)'
    <3>0. NamesTheFailure(Context(phase, got[i]), phase, got[i])
      BY <1>0, <1>2, PreparedContext
    <3>1. OneCause(i)'
      BY <2>0, <3>0, SnapshotFacts DEF OneCause, NamesTheFailure
    <3> QED BY <3>1 DEF CauseFits
  <2> QED BY <1>0, <1>2, <2>0, <2>1, <2>2, <2>3, <2>4, StepEnds, OwnStep DEF CallFits
<1> QED BY <1>1, <1>2 DEF HandleFailure

(* Routing by status reads and changes nothing.                             *)
LEMMA RouteByStatusStep ==
  ASSUME IInv, NEW i \in Invocations, NEW phase \in {"ingestion", "forecasting"}, RouteByStatus(i, phase)
  PROVE  IInv'
<1>0. /\ pc[i] = "route" /\ UNCHANGED <<state, got, context, contextVars, seen>>
      /\ got' = [got EXCEPT ![i] = got'[i]] /\ context' = [context EXCEPT ![i] = context'[i]]
  BY DEF RouteByStatus, InPhase, IInv, Entries
<1>1. CASE Goto(i, "advance") /\ state[i] = Running(phase)
  BY <1>0, <1>1, GotoStep
<1>2. CASE ReturnSnapshot(i, state[i]) /\ state[i] = Failed(phase)
  <2>1. /\ state[i] \in Snapshots /\ state' = [state EXCEPT ![i] = state[i]]
        /\ Backed(wf[i], state[i]) /\ OneCause(i)
    BY <1>0, <1>2, SnapshotFacts DEF IInv, TypeOK, CallFits, ContextFits, CauseFits
  <2>2. /\ state[i] # Running("forecasting") /\ state[i] # Running("risk_and_bid")
        /\ state[i] \in {Failed("ingestion"), Failed("forecasting")}
    BY <1>2, SnapshotFacts
  <2> QED BY <1>0, <1>2, <2>1, <2>2, ReturnStep
<1>3. CASE Raise(i, "invalid_request")
  BY <1>0, <1>3, RaiseStep DEF ErrorCodes
<1> QED BY <1>1, <1>2, <1>3 DEF RouteByStatus

(* A phase is advanced from the answer that this invocation holds.          *)
LEMMA AdvanceStep ==
  ASSUME IInv, NEW i \in Invocations, AdvanceAfterIngestion(i) \/ AdvanceAfterForecasting(i)
  PROVE  IInv'
<1>0. PICK from, to :
        /\ <<from, to>> \in {<<"ingestion", "forecasting">>, <<"forecasting", "risk_and_bid">>}
        /\ Advance(i, from, to)
  BY DEF AdvanceAfterIngestion, AdvanceAfterForecasting
<1>1. /\ pc[i] = "advance" /\ state[i] = Running(from)
      /\ UNCHANGED <<got, context, contextVars, seen>>
      /\ state' = [state EXCEPT ![i] = Running(to)] /\ ReturnSnapshot(i, Running(to))
  BY <1>0, SnapshotFacts DEF Advance, InPhase, IInv, CallFits, SnapshotFits
<1>2. /\ Running(to) \in Snapshots
      /\ Running(to).status # "failed"
      /\ Running(to) \in {Running("forecasting"), Running("risk_and_bid")}
  BY <1>0, SnapshotFacts DEF Phases
<1>3. /\ from = "ingestion" => to = "forecasting" /\ got[i] = ingested[wf[i]] /\ ingested[wf[i]] # None
      /\ from = "forecasting" => /\ to = "risk_and_bid" /\ got[i] = forecast[wf[i]] /\ forecast[wf[i]] # None
                                 /\ published[wf[i]] # None /\ ingested[wf[i]] # None
  BY <1>0, <1>1, SnapshotFacts DEF IInv, CallFits, ContextFits, Backed
<1>4. Backed(wf[i], Running(to))
  BY <1>0, <1>3, SnapshotFacts DEF Backed
<1>5. /\ Running(to) = Running("forecasting") => got[i] = ingested[wf[i]] /\ ingested[wf[i]] # None
      /\ Running(to) = Running("risk_and_bid") => got[i] = forecast[wf[i]] /\ forecast[wf[i]] # None
  BY <1>0, <1>3, SnapshotFacts
<1> QED BY <1>1, <1>2, <1>4, <1>5, ReturnStep

-----------------------------------------------------------------------------
(* record_success of the Phase 2 context.                                   *)
LEMMA RecordIngestionStep ==
  ASSUME IInv, NEW i \in Invocations, RecordIngestion(i)
  PROVE  IInv'
<1>0. /\ pc[i] = "record" /\ state[i] = Running("ingestion")
      /\ got[i] \in IngestionSuccesses /\ wf[i] \in Workflows
      /\ UNCHANGED <<state, got, context, forecast, published, seen>>
  BY SnapshotFacts DEF RecordIngestion, InPhase, IInv, TypeOK, CallFits, SnapshotFits, AnswerFits
<1>1. CASE UNCHANGED ingested /\ Raise(i, "conflict")
  <2>1. got' = [got EXCEPT ![i] = got'[i]] /\ context' = [context EXCEPT ![i] = context'[i]]
    BY <1>0 DEF IInv, Entries
  <2> QED BY <1>0, <1>1, <2>1, RaiseStep DEF ErrorCodes, contextVars
<1>2. CASE /\ ingested[wf[i]] \in {None, got[i]}
           /\ ingested' = [ingested EXCEPT ![wf[i]] = got[i]] /\ Goto(i, "route")
  <2>0. /\ pc'[i] = "route" /\ pc' = [pc EXCEPT ![i] = pc'[i]]
        /\ wf' = wf /\ known' = known /\ error' = error
    BY <1>2, StepEnds
  <2>1. /\ ingested'[wf[i]] = got[i] /\ got[i] # None
        /\ ContextsGrow
    BY <1>0, <1>2, ContextAssumption DEF ContextsGrow, IInv, TypeOK
  <2>2. TypeOK'
    BY <1>0, <1>2, <2>0 DEF IInv, TypeOK
  <2>3. CallFits(i)'
    <3>1. SnapshotFits(i)' /\ AnswerFits(i)' /\ CauseFits(i)'
      BY <1>0, <2>0, SnapshotFacts DEF SnapshotFits, AnswerFits, CauseFits
    <3>2. Backed(wf[i], state[i])'
      BY <1>0, <2>0, <2>1, SnapshotFacts DEF Backed
    <3>3. ContextFits(i)'
      BY <1>0, <2>0, <2>1, <3>2, SnapshotFacts DEF ContextFits
    <3> QED BY <3>1, <3>3 DEF CallFits
  <2>4. ASSUME NEW j \in Invocations, j # i PROVE CallFits(j)'
    <3>1. pc'[j] = pc[j]
      BY <2>0, <2>4 DEF IInv, TypeOK
    <3> QED BY <1>0, <2>0, <2>1, <3>1, Bystander
  <2>5. SnapshotsAreBacked'
    BY <2>0, <2>1, BackingKept
  <2>6. PublishedIsRecorded' /\ ReadsArePublished' /\ Entries'
    BY <1>0 DEF IInv, PublishedIsRecorded, ReadsArePublished, Entries
  <2> QED BY <2>2, <2>3, <2>4, <2>5, <2>6 DEF IInv
<1> QED BY <1>1, <1>2 DEF RecordIngestion

(* record_success of the read-after-write view over the Phase 3 context.    *)
LEMMA RecordForecastingStep ==
  ASSUME IInv, NEW i \in Invocations, RecordForecasting(i)
  PROVE  IInv'
<1>0. /\ pc[i] = "record" /\ state[i] = Running("forecasting")
      /\ got[i] \in ForecastingSuccesses /\ wf[i] \in Workflows
      /\ UNCHANGED <<state, got, context, ingested, seen>>
  BY SnapshotFacts DEF RecordForecasting, InPhase, IInv, TypeOK, CallFits, SnapshotFits, AnswerFits
<1>1. CASE UNCHANGED <<forecast, published>> /\ Raise(i, "conflict")
  <2>1. got' = [got EXCEPT ![i] = got'[i]] /\ context' = [context EXCEPT ![i] = context'[i]]
    BY <1>0 DEF IInv, Entries
  <2> QED BY <1>0, <1>1, <2>1, RaiseStep DEF ErrorCodes, contextVars
<1>2. CASE /\ forecast[wf[i]] \in {None, got[i]}
           /\ forecast' = [forecast EXCEPT ![wf[i]] = got[i]]
           /\ published' = [published EXCEPT ![wf[i]] = IF @ = None THEN got[i] ELSE @]
           /\ Goto(i, "route")
  <2>0. /\ pc'[i] = "route" /\ pc' = [pc EXCEPT ![i] = pc'[i]]
        /\ wf' = wf /\ known' = known /\ error' = error
    BY <1>2, StepEnds
  <2>1. got[i] # None
    BY <1>0, ContextAssumption
  <2>2. published[wf[i]] \in {None, got[i]}
    BY <1>0, <1>2, <2>1 DEF IInv, PublishedIsRecorded
  <2>3. forecast'[wf[i]] = got[i] /\ published'[wf[i]] = got[i]
    BY <1>0, <1>2, <2>2 DEF IInv, TypeOK
  <2>4. /\ \A w \in Workflows : w # wf[i] => forecast'[w] = forecast[w] /\ published'[w] = published[w]
        /\ ContextsGrow
    BY <1>0, <1>2, <2>2, <2>3 DEF ContextsGrow, IInv, TypeOK
  <2>5. TypeOK'
    BY <1>0, <1>2, <2>0 DEF IInv, TypeOK
  <2>6. CallFits(i)'
    <3>1. SnapshotFits(i)' /\ AnswerFits(i)' /\ CauseFits(i)'
      BY <1>0, <2>0, SnapshotFacts DEF SnapshotFits, AnswerFits, CauseFits
    <3>2. Backed(wf[i], state[i])
      BY <1>0 DEF IInv, CallFits, ContextFits
    <3>3. Backed(wf[i], state[i])'
      BY <1>0, <2>0, <2>1, <2>3, <3>2 DEF Backed
    <3>4. ContextFits(i)'
      BY <1>0, <2>0, <2>1, <2>3, <3>3, SnapshotFacts DEF ContextFits
    <3> QED BY <3>1, <3>4 DEF CallFits
  <2>7. ASSUME NEW j \in Invocations, j # i PROVE CallFits(j)'
    <3>1. pc'[j] = pc[j]
      BY <2>0, <2>7 DEF IInv, TypeOK
    <3> QED BY <1>0, <2>0, <2>4, <3>1, Bystander
  <2>8. SnapshotsAreBacked'
    BY <2>0, <2>4, BackingKept
  <2>9. PublishedIsRecorded' /\ ReadsArePublished' /\ Entries'
    BY <1>0, <2>3, <2>4 DEF IInv, PublishedIsRecorded, ReadsArePublished, Entries, ContextsGrow
  <2> QED BY <2>5, <2>6, <2>7, <2>8, <2>9 DEF IInv
<1> QED BY <1>1, <1>2 DEF RecordForecasting

(* The steps outside the graph: a direct write to the wrapped context, and  *)
(* a Phase 4 read.                                                          *)
LEMMA OutsideStep ==
  ASSUME IInv, NEW w \in Workflows, RecordOnWrappedContext(w) \/ GetSuccess(w)
  PROVE  IInv'
<1>0. UNCHANGED <<known, callVars, ingested, published>>
  BY DEF RecordOnWrappedContext, GetSuccess, contextVars
<1>1. ContextsGrow /\ forecast' \in [Workflows -> ForecastingSuccesses \cup {None}]
  BY DEF RecordOnWrappedContext, GetSuccess, contextVars, ContextsGrow, IInv, TypeOK
<1>2. seen' \in [Workflows -> SUBSET ForecastingSuccesses] /\ ReadsArePublished'
  <2>1. CASE RecordOnWrappedContext(w)
    BY <2>1 DEF RecordOnWrappedContext, IInv, TypeOK, ReadsArePublished
  <2>2. CASE GetSuccess(w)
    BY <2>2 DEF GetSuccess, contextVars, IInv, TypeOK, ReadsArePublished
  <2> QED BY <2>1, <2>2
<1>3. TypeOK'
  BY <1>0, <1>1, <1>2 DEF IInv, TypeOK, callVars
<1>4. \A j \in Invocations : CallFits(j)'
  BY <1>0, <1>1, Bystander DEF callVars
<1>5. SnapshotsAreBacked' /\ Entries'
  BY <1>0, <1>1, BackingKept DEF IInv, Entries, callVars
<1>6. PublishedIsRecorded'
  BY <1>0, <1>1 DEF IInv, PublishedIsRecorded, ContextsGrow, RecordOnWrappedContext, GetSuccess, TypeOK
<1> QED BY <1>2, <1>3, <1>4, <1>5, <1>6 DEF IInv

-----------------------------------------------------------------------------
(* Before the first invocation nothing is in flight.                        *)
LEMMA InitIInv == Init => IInv
<1> SUFFICES ASSUME Init PROVE IInv
  OBVIOUS
<1>1. TypeOK
  BY ContextAssumption DEF Init, TypeOK
<1>2. SnapshotsAreBacked
  BY ContextAssumption DEF Init, SnapshotsAreBacked, Backed
<1>3. PublishedIsRecorded /\ ReadsArePublished /\ Entries
  BY DEF Init, PublishedIsRecorded, ReadsArePublished, Entries
<1>4. \A i \in Invocations : CallFits(i)
  BY DEF Init, CallFits, SnapshotFits, AnswerFits, ContextFits, CauseFits
<1> QED BY <1>1, <1>2, <1>3, <1>4 DEF IInv

(* Every step of the graph, its callers and its readers keeps the invariant.*)
LEMMA NextIInv == IInv /\ [Next]_vars => IInv'
<1> SUFFICES ASSUME IInv, [Next]_vars PROVE IInv'
  OBVIOUS
<1>1. ASSUME NEW i \in Invocations, LoopStep(i) PROVE IInv'
  BY <1>1, RoutingStep, RecordIngestionStep, RecordForecastingStep, HandleStep, RouteByStatusStep, AdvanceStep
  DEF LoopStep, HandleIngestionFailure, HandleForecastingFailure, RouteAfterIngestion, RouteAfterForecasting
<1>2. ASSUME NEW i \in Invocations,
             Invoke(i) \/ RegulatoryNode(i) \/ ExecuteIngestion(i) \/ ExecuteForecasting(i) \/ Cancel(i)
      PROVE  IInv'
  BY <1>2, InvokeStep, RegulatoryStep, ExecuteStep, RoutingStep
<1>3. ASSUME NEW w \in Workflows, RecordOnWrappedContext(w) \/ GetSuccess(w) PROVE IInv'
  BY <1>3, OutsideStep
<1>4. CASE UNCHANGED vars
  <2>1. /\ UNCHANGED <<known, pc, wf, state, got, context, error>>
        /\ UNCHANGED <<ingested, forecast, published, seen>>
    BY <1>4 DEF vars, callVars, contextVars
  <2>2. ContextsGrow
    BY <2>1 DEF ContextsGrow
  <2>3. TypeOK' /\ Entries' /\ PublishedIsRecorded' /\ ReadsArePublished'
    BY <2>1 DEF IInv, TypeOK, Entries, PublishedIsRecorded, ReadsArePublished
  <2>4. SnapshotsAreBacked' /\ \A j \in Invocations : CallFits(j)'
    BY <2>1, <2>2, BackingKept, Bystander
  <2> QED BY <2>3, <2>4 DEF IInv
<1> QED BY <1>1, <1>2, <1>3, <1>4 DEF Next

(* The inductive invariant holds in every reachable state.                  *)
THEOREM InvariantHolds == Spec => []IInv
BY InitIInv, NextIInv, PTL DEF Spec

(* Types of the snapshots, of the program counters and of the contexts.     *)
THEOREM TypeCorrect == Spec => []TypeOK
<1>1. IInv => TypeOK
  BY DEF IInv
<1> QED BY <1>1, InvariantHolds, PTL

(* advance_after_...: a caller can hold an advanced snapshot only when the  *)
(* contexts hold what the phase produced, so Phase 4 finds the forecast.    *)
THEOREM Backing == Spec => []SnapshotsAreBacked
<1>1. IInv => SnapshotsAreBacked
  BY DEF IInv
<1> QED BY <1>1, InvariantHolds, PTL

(* record_success fails closed: whichever invocations of a workflow race,   *)
(* those that advance computed the recorded success.                        *)
THEOREM Agreement == Spec => []AdvancedInvocationsAgree
<1>1. IInv => AdvancedInvocationsAgree
  BY DEF IInv, CallFits, ContextFits, AdvancedInvocationsAgree
<1> QED BY <1>1, InvariantHolds, PTL

(* record_success: what the view publishes, the wrapped context accepted.   *)
THEOREM PublicationFollowsRecord == Spec => []PublishedIsRecorded
<1>1. IInv => PublishedIsRecorded
  BY DEF IInv
<1> QED BY <1>1, InvariantHolds, PTL

(* get_success: every read of a workflow's forecast gives the same one.     *)
THEOREM StableReads == Spec => []ReadsAreStable
<1>1. IInv => ReadsAreStable
  BY DEF IInv, ReadsArePublished, ReadsAreStable
<1> QED BY <1>1, InvariantHolds, PTL

(* The strict selector, the classification and the FAIL action: no failed   *)
(* snapshot without exactly one agent failure of its own phase, and the     *)
(* policy was asked about that phase, that agent and that failure's code.   *)
THEOREM OneCausePerFailure == Spec => []FailureHasOneCause
<1>1. IInv => FailureHasOneCause
  BY DEF IInv, CallFits, CauseFits, OneCause, NamesTheFailure, FailureHasOneCause
<1> QED BY <1>1, InvariantHolds, PTL

(* What record_success stored or published is never replaced.               *)
THEOREM FinalRecords == Spec => RecordsAreFinal
<1>1. IInv /\ [Next]_vars => [ContextsGrow]_vars
  <2> SUFFICES ASSUME IInv, Next PROVE ContextsGrow
    OBVIOUS
  <2>1. ASSUME NEW i \in Invocations, RecordIngestion(i) PROVE ContextsGrow
    BY <2>1 DEF RecordIngestion, InPhase, ContextsGrow, IInv, TypeOK
  <2>2. ASSUME NEW i \in Invocations, RecordForecasting(i) PROVE ContextsGrow
    BY <2>2 DEF RecordForecasting, InPhase, ContextsGrow, IInv, TypeOK
  <2>3. ASSUME NEW w \in Workflows, RecordOnWrappedContext(w) \/ GetSuccess(w) PROVE ContextsGrow
    BY <2>3 DEF RecordOnWrappedContext, GetSuccess, contextVars, ContextsGrow, IInv, TypeOK
  <2>4. UNCHANGED contextVars => ContextsGrow
    BY DEF contextVars, ContextsGrow
  <2>5. ASSUME NEW i \in Invocations,
               Invoke(i) \/ RegulatoryNode(i) \/ ExecuteIngestion(i) \/ ExecuteForecasting(i) \/ Cancel(i)
        PROVE  UNCHANGED contextVars
    BY <2>5 DEF Invoke, RegulatoryNode, ExecuteIngestion, ExecuteForecasting, TakeAnswer, Cancel
  <2>6. ASSUME NEW i \in Invocations, LoopStep(i), ~RecordIngestion(i), ~RecordForecasting(i)
        PROVE  UNCHANGED contextVars
    BY <2>6 DEF LoopStep, RouteAfterWorkflowEntry, ResolveIngestionPlan, ResolveForecastingPlan,
                HandleIngestionFailure, HandleForecastingFailure, HandleFailure,
                RouteAfterIngestion, RouteAfterForecasting, RouteByStatus,
                AdvanceAfterIngestion, AdvanceAfterForecasting, Advance
  <2> QED BY <2>1, <2>2, <2>3, <2>4, <2>5, <2>6 DEF Next, LoopStep
<1> QED BY <1>1, InvariantHolds, PTL DEF Spec, RecordsAreFinal, ContextsGrow
=============================================================================
