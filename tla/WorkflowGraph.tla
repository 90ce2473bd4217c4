---------------------------- MODULE WorkflowGraph -----------------------------
(***************************************************************************)
(* The compiled workflow graph and the in-memory contexts its phases share.*)
(* Several ainvoke calls run concurrently in one process, possibly for the *)
(* same workflow and from the same or from an old snapshot: the snapshot   *)
(* is an immutable value the caller keeps, the graph has no checkpointer,  *)
(* and only the contexts remember anything between calls.                  *)
(*                                                                         *)
(* A step ends where the code awaits something that can suspend: a node    *)
(* boundary of the graph, a port, the executor.  record_success of the     *)
(* in-memory contexts takes its asyncio locks and writes without           *)
(* suspending, so it is one step.                                          *)
(***************************************************************************)
EXTENDS FailureHandling

CONSTANTS Workflows,          \* workflow ids
          Invocations,        \* ainvoke calls; their number bounds the model
          InitialSnapshots,   \* snapshots the caller builds itself
          IngestionAgents,    \* branches of Phase 2
          ForecastingAgents,  \* branches of Phase 3
          Results,            \* results a branch can return
          Causes,             \* ordinary exceptions an agent can raise
          IngestionPlans,     \* workflows with a prepared Phase 2 plan
          ForecastingPlans,   \* workflows with a prepared Phase 3 plan
          PolicyActions,      \* actions the failure policies may decide
          None

Phases   == {"contract", "ingestion", "forecasting", "risk_and_bid", "settlement"}
Statuses == {"pending", "running", "succeeded", "failed"}
Snapshots == [phase : Phases, status : Statuses]
ErrorCodes == {"invalid_request", "resource_not_found", "conflict", "agent_error", "cancelled"}

Ingestion   == INSTANCE PhaseAnswers WITH Branches <- IngestionAgents, Nothing <- None
Forecasting == INSTANCE PhaseAnswers WITH Branches <- ForecastingAgents, Nothing <- None

IngestionSuccesses   == [IngestionAgents -> Results]
ForecastingSuccesses == [ForecastingAgents -> Results]

ASSUME ContextAssumption ==
  /\ InitialSnapshots \subseteq Snapshots
  /\ \A s \in InitialSnapshots : s.phase \in {"contract", "ingestion"}
  /\ PolicyActions \subseteq {"retry", "fallback", "fail"}
  /\ None \notin IngestionSuccesses \cup ForecastingSuccesses
  /\ IsFiniteSet(IngestionAgents) /\ IsFiniteSet(ForecastingAgents)

VARIABLES known,      \* known[w]: snapshots of w its callers hold
          pc,         \* pc[i]: where invocation i is
          wf,         \* wf[i]: its workflow
          state,      \* state[i]: the snapshot the graph passes along
          got,        \* got[i]: what execute returned or raised in it
          context,    \* context[i]: the failure context its policy was asked about
          error,      \* error[i]: what it raised to its caller
          ingested,   \* successes of the Phase 2 context
          forecast,   \* successes of the Phase 3 context
          published,  \* successes of the read-after-write view over it
          seen        \* seen[w]: successes that Phase 4 has read for w

callVars    == <<pc, wf, state, got, context, error>>
contextVars == <<ingested, forecast, published>>
vars        == <<known, callVars, contextVars, seen>>

Ended(i) == pc[i] \in {"returned", "raised"}

TypeOK ==
  /\ known \in [Workflows -> SUBSET Snapshots]
  /\ pc \in [Invocations -> {"idle", "entry", "reg_resolve", "reg_run", "reg_record", "resolve", "execute",
                             "record", "handle", "route", "advance", "returned", "raised"}]
  /\ wf \in [Invocations -> Workflows \cup {None}]
  /\ state \in [Invocations -> Snapshots \cup {None}]
  /\ \A i \in Invocations : pc[i] # "idle" => wf[i] \in Workflows /\ state[i] \in Snapshots
  /\ error \in [Invocations -> ErrorCodes \cup {None}]
  /\ ingested \in [Workflows -> IngestionSuccesses \cup {None}]
  /\ forecast \in [Workflows -> ForecastingSuccesses \cup {None}]
  /\ published \in [Workflows -> ForecastingSuccesses \cup {None}]
  /\ seen \in [Workflows -> SUBSET ForecastingSuccesses]

Init ==
  /\ known = [w \in Workflows |-> InitialSnapshots]
  /\ pc = [i \in Invocations |-> "idle"]
  /\ wf = [i \in Invocations |-> None]
  /\ state = [i \in Invocations |-> None]
  /\ got = [i \in Invocations |-> None]
  /\ context = [i \in Invocations |-> None]
  /\ error = [i \in Invocations |-> None]
  /\ ingested = [w \in Workflows |-> None]
  /\ forecast = [w \in Workflows |-> None]
  /\ published = [w \in Workflows |-> None]
  /\ seen = [w \in Workflows |-> {}]

-----------------------------------------------------------------------------
(* How a step of invocation i ends.                                         *)
Goto(i, where) ==
  /\ pc' = [pc EXCEPT ![i] = where]
  /\ UNCHANGED <<known, wf, error>>

Raise(i, code) ==
  /\ pc' = [pc EXCEPT ![i] = "raised"]
  /\ error' = [error EXCEPT ![i] = code]
  /\ UNCHANGED <<known, wf>>

(* END: the caller receives snapshot s.                                     *)
ReturnSnapshot(i, s) ==
  /\ pc' = [pc EXCEPT ![i] = "returned"]
  /\ known' = [known EXCEPT ![wf[i]] = @ \cup {s}]
  /\ UNCHANGED <<wf, error>>

(* A caller invokes the graph with a snapshot it holds, however old.        *)
Invoke(i) ==
  /\ pc[i] = "idle"
  /\ \E w \in Workflows : \E s \in known[w] :
       /\ wf' = [wf EXCEPT ![i] = w]
       /\ state' = [state EXCEPT ![i] = s]
  /\ pc' = [pc EXCEPT ![i] = "entry"]
  /\ UNCHANGED <<known, got, context, error, contextVars, seen>>

(* _workflow_entry and _route_after_workflow_entry.                         *)
RouteAfterWorkflowEntry(i) ==
  /\ pc[i] = "entry"
  /\ IF state[i] = Running("contract") THEN Goto(i, "reg_resolve")
     ELSE IF state[i] \in {Running("ingestion"), Running("forecasting")} THEN Goto(i, "resolve")
     ELSE Raise(i, "invalid_request")
  /\ UNCHANGED <<state, got, context, contextVars, seen>>

(* RegulatoryIntelligenceWorkflowNodeAdapter.run: resolve the request, run  *)
(* the step, record its result, return the snapshot unchanged.  The context *)
(* behind the port is the caller's; any of the three awaits may raise.      *)
RegulatoryNode(i) ==
  /\ \/ pc[i] = "reg_resolve" /\ Goto(i, "reg_run")
     \/ pc[i] = "reg_run" /\ Goto(i, "reg_record")
     \/ pc[i] = "reg_record" /\ ReturnSnapshot(i, state[i])
     \/ pc[i] \in {"reg_resolve", "reg_run", "reg_record"} /\ Raise(i, "agent_error")
  /\ UNCHANGED <<state, got, context, contextVars, seen>>

InPhase(i, where, phase) == pc[i] = where /\ state[i].phase = phase

(* InMemoryParallelIngestionWorkflowContext.resolve_plan.                   *)
ResolveIngestionPlan(i) ==
  /\ InPhase(i, "resolve", "ingestion")
  /\ IF wf[i] \in IngestionPlans THEN Goto(i, "execute") ELSE Raise(i, "resource_not_found")
  /\ UNCHANGED <<state, got, context, contextVars, seen>>

(* InMemoryForecastingWorkflowContext.resolve_plan, through the view.       *)
ResolveForecastingPlan(i) ==
  /\ InPhase(i, "resolve", "forecasting")
  /\ IF wf[i] \in ForecastingPlans THEN Goto(i, "execute") ELSE Raise(i, "resource_not_found")
  /\ UNCHANGED <<state, got, context, contextVars, seen>>

(* The phase node receives the executor's answer: a success goes on to be   *)
(* recorded, an exception group is caught, CancelledError is not.           *)
TakeAnswer(i, answer) ==
  /\ \/ /\ answer.kind = "success"
        /\ got' = [got EXCEPT ![i] = answer.results]
        /\ Goto(i, "record")
     \/ /\ answer.kind = "group"
        /\ got' = [got EXCEPT ![i] = answer.failures]
        /\ Goto(i, "handle")
     \/ /\ answer.kind = "cancelled"
        /\ Raise(i, "cancelled")
        /\ UNCHANGED got
  /\ UNCHANGED <<state, context, contextVars, seen>>

ExecuteIngestion(i) ==
  /\ InPhase(i, "execute", "ingestion")
  /\ \E answer \in Ingestion!Answers : TakeAnswer(i, answer)

ExecuteForecasting(i) ==
  /\ InPhase(i, "execute", "forecasting")
  /\ \E answer \in Forecasting!Answers : TakeAnswer(i, answer)

RecordFirstWins(i) ==         \* mutant: a conflicting success is dropped silently
  /\ InPhase(i, "record", "ingestion")
  /\ ingested' = IF ingested[wf[i]] = None THEN [ingested EXCEPT ![wf[i]] = got[i]] ELSE ingested
  /\ Goto(i, "route")
  /\ UNCHANGED <<state, got, context, forecast, published, seen>>

(* InMemoryParallelIngestionWorkflowContext.record_success.                 *)
RecordIngestion(i) ==
  /\ InPhase(i, "record", "ingestion")
  /\ IF ingested[wf[i]] \in {None, got[i]}
       THEN ingested' = [ingested EXCEPT ![wf[i]] = got[i]] /\ Goto(i, "route")
       ELSE UNCHANGED ingested /\ Raise(i, "conflict")
  /\ UNCHANGED <<state, got, context, forecast, published, seen>>

PublishOnlyNew(i) ==          \* mutant: an equal success already in the context is not published
  /\ InPhase(i, "record", "forecasting")
  /\ IF forecast[wf[i]] \in {None, got[i]}
       THEN /\ forecast' = [forecast EXCEPT ![wf[i]] = got[i]]
            /\ published' = IF forecast[wf[i]] = None THEN [published EXCEPT ![wf[i]] = got[i]] ELSE published
            /\ Goto(i, "route")
       ELSE UNCHANGED <<forecast, published>> /\ Raise(i, "conflict")
  /\ UNCHANGED <<state, got, context, ingested, seen>>

(* InMemoryForecastingReadAfterWriteContext.record_success: delegate to the *)
(* wrapped context, then publish the first success it accepted.             *)
RecordForecasting(i) ==
  /\ InPhase(i, "record", "forecasting")
  /\ IF forecast[wf[i]] \in {None, got[i]}
       THEN /\ forecast' = [forecast EXCEPT ![wf[i]] = got[i]]
            /\ published' = [published EXCEPT ![wf[i]] = IF @ = None THEN got[i] ELSE @]
            /\ Goto(i, "route")
       ELSE UNCHANGED <<forecast, published>> /\ Raise(i, "conflict")
  /\ UNCHANGED <<state, got, context, ingested, seen>>

(* InMemoryForecastingWorkflowContext.record_success called directly on the *)
(* wrapped context by another part of the process.                          *)
RecordOnWrappedContext(w) ==
  /\ forecast[w] = None
  /\ \E s \in ForecastingSuccesses : forecast' = [forecast EXCEPT ![w] = s]
  /\ UNCHANGED <<known, callVars, ingested, published, seen>>

(* ...FailureRuntimeHandlingService.handle, from the except clause of the   *)
(* phase node: the policy is asked once a context could be prepared.        *)
HandleFailure(i, phase) ==
  /\ InPhase(i, "handle", phase)
  /\ IF PrepareDefined(phase, got[i])
       THEN /\ context' = [context EXCEPT ![i] = Context(phase, got[i])]
            /\ \E action \in PolicyActions :
                 IF ActionDefined(phase, state[i], action)
                   THEN state' = [state EXCEPT ![i] = Failed(phase)] /\ Goto(i, "route")
                   ELSE UNCHANGED state /\ Raise(i, "invalid_request")
       ELSE UNCHANGED <<context, state>> /\ Raise(i, "invalid_request")
  /\ UNCHANGED <<got, contextVars, seen>>

HandleIngestionFailure(i) == HandleFailure(i, "ingestion")

HandleForecastingFailure(i) == HandleFailure(i, "forecasting")

RouteOnlySuccess(i, phase) ==  \* mutant: the failed snapshot has no route to END
  /\ InPhase(i, "route", phase)
  /\ state[i] = Running(phase) /\ Goto(i, "advance")
  /\ UNCHANGED <<state, got, context, contextVars, seen>>

RouteByStatus(i, phase) ==
  /\ InPhase(i, "route", phase)
  /\ IF state[i] = Running(phase) THEN Goto(i, "advance")
     ELSE IF state[i] = Failed(phase) THEN ReturnSnapshot(i, state[i])
     ELSE Raise(i, "invalid_request")
  /\ UNCHANGED <<state, got, context, contextVars, seen>>

(* _route_after_parallel_ingestion and _route_after_forecasting.            *)
RouteAfterIngestion(i) == RouteByStatus(i, "ingestion")
RouteAfterForecasting(i) == RouteByStatus(i, "forecasting")

Advance(i, from, to) ==
  /\ InPhase(i, "advance", from)
  /\ IF state[i] = Running(from)
       THEN state' = [state EXCEPT ![i] = Running(to)] /\ ReturnSnapshot(i, Running(to))
       ELSE UNCHANGED state /\ Raise(i, "invalid_request")
  /\ UNCHANGED <<got, context, contextVars, seen>>

AdvanceAfterIngestion(i) == Advance(i, "ingestion", "forecasting")
AdvanceAfterForecasting(i) == Advance(i, "forecasting", "risk_and_bid")

(* The task of invocation i is cancelled while it is suspended outside the  *)
(* executor, which answers for itself.                                      *)
Cancel(i) ==
  /\ pc[i] \notin {"idle", "execute", "returned", "raised"}
  /\ Raise(i, "cancelled")
  /\ UNCHANGED <<state, got, context, contextVars, seen>>

(* get_success of the view, as Phase 4 calls it; an absent success raises   *)
(* ResourceNotFoundError and changes nothing.                               *)
GetSuccess(w) ==
  /\ published[w] # None
  /\ seen' = [seen EXCEPT ![w] = @ \cup {published[w]}]
  /\ UNCHANGED <<known, callVars, contextVars>>

(* The steps that wait for nothing but the event loop.                      *)
LoopStep(i) ==
  \/ RouteAfterWorkflowEntry(i)
  \/ ResolveIngestionPlan(i) \/ ResolveForecastingPlan(i)
  \/ RecordIngestion(i) \/ RecordForecasting(i)
  \/ HandleIngestionFailure(i) \/ HandleForecastingFailure(i)
  \/ RouteAfterIngestion(i) \/ RouteAfterForecasting(i)
  \/ AdvanceAfterIngestion(i) \/ AdvanceAfterForecasting(i)

Next ==
  \/ \E i \in Invocations :
       \/ Invoke(i)
       \/ RegulatoryNode(i)
       \/ ExecuteIngestion(i)
       \/ ExecuteForecasting(i)
       \/ LoopStep(i)
       \/ Cancel(i)
  \/ \E w \in Workflows : RecordOnWrappedContext(w) \/ GetSuccess(w)

Spec == Init /\ [][Next]_vars

(* The event loop runs every callback that is ready.  Agents and the        *)
(* regulatory ports may never answer.                                       *)
FairSpec == Spec /\ \A i \in Invocations : WF_vars(LoopStep(i))

-----------------------------------------------------------------------------
(* What the contexts must hold for workflow w to have reached snapshot s.   *)
Backed(w, s) ==
  /\ s.phase \in {"forecasting", "risk_and_bid"} => ingested[w] # None
  /\ s.phase = "risk_and_bid" => forecast[w] # None /\ published[w] # None

(* A caller holds a forecasting snapshot, running or failed, only after     *)
(* ingestion was recorded for the workflow, and a risk_and_bid one only     *)
(* after both phases were recorded and the forecast can be read: Phase 4    *)
(* never misses it.                                                         *)
SnapshotsAreBacked == \A w \in Workflows : \A s \in known[w] : Backed(w, s)

(* Invocations of one workflow that advanced past a phase agree on its      *)
(* success, and it is the recorded one: a racing invocation that computed   *)
(* another success does not advance.                                        *)
AdvancedInvocationsAgree ==
  \A i \in Invocations :
    pc[i] = "returned" =>
      /\ state[i] = Running("forecasting") => got[i] = ingested[wf[i]]
      /\ state[i] = Running("risk_and_bid") => got[i] = forecast[wf[i]]

(* The read-after-write view shows nothing but what the wrapped context     *)
(* holds, also when somebody else writes to that context directly.          *)
PublishedIsRecorded ==
  \A w \in Workflows : published[w] # None => published[w] = forecast[w]

(* Phase 4 reads one success per workflow, however often it reads.          *)
ReadsAreStable == \A w \in Workflows : \A a, b \in seen[w] : a = b

(* The agents a phase runs, and the code its policy sees for an exception   *)
(* that is no ApplicationError.                                             *)
AgentsOf(phase) == IF phase = "ingestion" THEN IngestionAgents ELSE ForecastingAgents

UnexpectedCode(phase) ==
  IF phase = "ingestion" THEN "parallel_ingestion_unexpected_failure" ELSE "forecasting_unexpected_failure"

(* A snapshot returned as failed comes from exactly one agent failure of    *)
(* its own phase, and the policy was asked about that phase, that agent     *)
(* and that code: the code an ApplicationError carries, the phase's         *)
(* unexpected code for any other exception.                                 *)
FailureHasOneCause ==
  \A i \in Invocations :
    pc[i] = "returned" /\ state[i].status = "failed" =>
      \E b \in AgentsOf(state[i].phase) :
        /\ DOMAIN got[i] = {b}
        /\ got[i][b].agent = b
        /\ context[i].agent_name = b
        /\ context[i].phase = state[i].phase
        /\ got[i][b].cause \in ApplicationCodes => context[i].error_code = got[i][b].cause
        /\ got[i][b].cause \notin ApplicationCodes => context[i].error_code = UnexpectedCode(state[i].phase)

(* What a context has recorded or published never changes.                  *)
RecordsAreFinal ==
  [][\A w \in Workflows :
       /\ ingested[w] # None => ingested'[w] = ingested[w]
       /\ forecast[w] # None => forecast'[w] = forecast[w]
       /\ published[w] # None => published'[w] = published[w]]_vars

(* Once its agents have answered, an invocation ends, even when another     *)
(* invocation of the same workflow hangs in its own agents.                 *)
AnsweredInvocationsEnd ==
  \A i \in Invocations : got[i] # None ~> Ended(i)
=============================================================================
