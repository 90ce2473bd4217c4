# Verification of the Armenian energy trading platform

TLA+ models of the platform, from the files it ingests to the bids it hands
over: the orchestration core, the persistence adapters, structured and document
ingestion, the forecast models, the service's start-up and shutdown and its HTTP
and cache edges; the TLC runs that check them, and TLAPS proofs of the most
important results. Source paths are relative to `src/energy_trading/` of the
repository.

## 1. Inventory of the system

The platform is an asynchronous Python service. A workflow walks through five
phases (`contract`, `ingestion`, `forecasting`, `risk_and_bid`, `settlement`) as
an immutable `WorkflowState` snapshot that its caller keeps; what the phases
produce is kept in contexts and stores behind ports.

| component | state it keeps | operations | talks to | hard behaviour |
|---|---|---|---|---|
| Phase executors (`application/orchestration/parallel_ingestion_executor.py`, `forecasting_executor.py`) | the tasks of one `TaskGroup` | `execute` | agents, the phase nodes | sibling abort, cancellation of the caller, order of callbacks |
| Workflow graph (`graph.py`, `state.py`, `*_workflow.py`, `*_transition.py`) | none; the snapshot is a value | entry route, phase nodes, routes, transitions | executors, contexts, failure handling | concurrent and repeated invocations from old snapshots |
| Failure handling (`*_exception_group.py` ... `*_failure_action.py`) | none | extract, classify, select, prepare, decide, act | graph | several failures at once, unattributed exceptions |
| In-memory contexts (`infrastructure/orchestration/`) | plans, first recorded success, published success | `resolve_plan`, `record_success`, `get_success` | graph, Phase 4 | racing successes, direct writes behind the view |
| Risk and bid handoffs (`portfolio_risk_execution.py`, `trading_strategy_*`) | none | assess, request bids, hand off | forecasting view, agents | the forecast is read twice while others record |
| Document vector index (`infrastructure/vector_store/qdrant/document_vector.py`) | a Qdrant collection | `index`, `search` | Qdrant | no lock between read, insert and verify; late or lost upserts; stale reads |
| Document pipeline (`infrastructure/adapters/unstructured/`, `embeddings/`, `regulatory/`) | none | extract, embed, index, query, infer | OpenAI, the index | reordered and partial answers, edits and retries |
| Consumption repository (`infrastructure/persistence/postgres/`) | a PostgreSQL table, a connection pool | `save_many` | PostgreSQL | row locks, deadlocks, lost commit answers, full pool |
| Filesystem DLQ (`infrastructure/persistence/dlq.py`) | one file per `record_id` | `enqueue` | the filesystem | threads, failing writes, crashes, retries |
| Structured ingestion (`infrastructure/adapters/structured/`) | the row loop of one `ingest()`, an open workbook | resolve the header, convert rows, validate the series | DLQ records | which of many bad rows is reported how, duplicates, clock changes |
| Forecast models (`ml/`) | none | features, splits, regressions, predictions, comparisons | – | look-ahead, mixed cohorts, singular designs |
| Composition and lifespans (`composition/`, `api/app.py`, `*_lifespan.py`), collection provisioning | clients, `app.state`, exit stacks | load settings, open, verify or create, publish, unwind | Qdrant, OpenAI, ASGI server | partial start-up, racing creates, requests during shutdown |
| HTTP boundary (`api/middleware.py`, `exception_handlers.py`) | one ContextVar per task | correlate, log, translate errors | routes | interleaved requests, errors outside the scope |
| Redis cache (`infrastructure/cache/`) | the server's keys | `get`, `set`, `delete` | Redis | late commands, expiry, rounding of lifetimes |
| Agents | none | one await of a port each | ports | – |

What makes each of them correct:

- **executors**: exactly one answer, after every branch ended; a success is the
  aggregate of all results; a group holds exactly what the agents raised;
  cancellation never hides a failure; an abort reaches queued branches too.
- **graph and contexts**: a snapshot of a later phase exists only if the earlier
  phases are recorded and readable; racing invocations agree; records are final;
  a failed snapshot has one attributed cause; answered invocations end.
- **Phase 4**: what a handoff pairs belongs to one workflow and one recorded
  forecast.
- **stores**: what was acknowledged stays stored; a conflict is real and
  permanent; nothing is replaced; batches of the repository are atomic; retries
  converge; nobody waits for ever.
- **structured ingestion**: every row is accounted for once; no row of a
  contradiction wins; gaps are exactly the missing instants; an instant is read
  only if it is unambiguous; units are those declared.
- **document pipeline**: a vector belongs to its text; a document is indexed whole
  or quarantined; constraints rest on chunks that were found.
- **forecast models**: no fit sees the future; scores compare like with like; a
  live forecast is what the backtest scored.
- **service**: what serves is wired to its own, open, compatible resources;
  nothing leaks; start-up and shutdown end.
- **edges**: every request is answered and logged once under its own id; a hit is
  live and a live entry is hit.

The hazards in the code that these properties are aimed at are listed, with
their lines, in `PROJECT.json`.

## 2. Modules

```
PhaseAnswers               exceptions and answers of a phase (no state)
  PhaseExecution           abstract: what execute(plan) promises
    PhaseExecutor          the TaskGroup executor, implements PhaseExecution
      PhaseExecutorProofs  of the executor, and of RiskAndBidHandoff
  WorkflowGraph            the graph, its contexts, concurrent invocations
    FailureHandling        what the failure services compute (no state)
    WorkflowGraphProofs
RiskAndBidHandoff          Phase 4 on top of the read-after-write view
WriteOnceStore             abstract: what the three persistence ports promise
  DocumentVectorIndex      Qdrant index, implements WriteOnceStore
  ConsumptionRepository    PostgreSQL repository, implements WriteOnceStore
  FilesystemDLQ            filesystem queue, implements WriteOnceStore
    FilesystemDLQProofs
StructuredIngestion        one ingest(), of a CSV file or of a workbook
  ConsumptionCsvAdapter    the CSV adapter, row by row
  ConsumptionExcelAdapter  the Excel adapter, row by row
    SchemaMapping          header resolution and unit policy (no state)
    ConsumptionValues      conversions and record validation (no state)
    ConsumptionSeries      duplicates, alignment, gaps (no state)
    Enumeration            a finite set of integers, smallest first, with proofs
  StructuredIngestionProofs  of the ingestion, and of ConsumptionRepository
DocumentPipeline           extraction, embedding, indexing, search, inference
  DocumentPipelineProofs   of the pipeline, and of DocumentVectorIndex
ForecastBacktests          a backtest of the load or of the price models
  BacktestSession          a caller who mixes fits, cases and predictions
  ConsumerLoadModels       ml/consumer_load (no state)
  DamPriceModels           ml/dam_price (no state)
    LagRegression          what both share: lags, least squares, errors
  ForecastBacktestsProofs
ServiceLifespan            processes from start-up to shutdown over one store
  ServiceWiring            settings, clients, services (no state)
  ServiceProofs            of the lifespans, and of ServiceEdges
ServiceEdges               HttpBoundary and RedisCache, one or the other
  HttpBoundary             correlation, logging, error translation
  RedisCache               get, set and delete against one server
MC...                      constants of the TLC runs
```

An operator marked `mutant` in a comment is a plausible bug of the definition
that follows it; no specification uses it. `PROJECT.json` pairs each property
with a mutant that breaks it.

### PhaseExecutor

`task[b]` is the asyncio task of branch `b`; `errors`, `aborting` are the
`_errors` and `_aborting` of `asyncio.TaskGroup` (external, modelled from its
use in `execute`); `parentCancel` follows a cancellation of the task that awaits
`execute` from the request to its delivery. `Start` is a task's first step,
`Return`, `RaiseAttributed`, `RaiseBare` and `EndCancelled` the ways out of
`_run_attributed`, `OnTaskDone` the group's callback, `Conclude` the end of
`__aexit__` together with the reading of `task.result()`. The end of a task and
its callback are separate steps because the loop may run others in between. The
two executors have the same structure; the model is parameterised by the set of
branches (five for ingestion, two for forecasting).

### FailureHandling and WorkflowGraph

`FailureHandling` gives each stage of the two (textually parallel) failure
pipelines as an operator; `...Defined` says when a stage does not raise.
`WorkflowGraph` runs any number of `ainvoke` calls. `pc[i]` is the await an
invocation is at, `state[i]` the snapshot in the graph, `known[w]` the snapshots
callers of workflow `w` hold and may start from again. `ExecuteIngestion` and
`ExecuteForecasting` take any answer that `PhaseExecution` allows (the set
`Answers` of `PhaseAnswers`), so the composition rests on the refinement of
`PhaseExecutor`. `ingested`, `forecast` and `published` are the dictionaries of the
contexts. `record_success` is one step: its locks are never held across a
suspension. `RecordOnWrappedContext` is a direct call on the wrapped context,
which the view's docstring allows for; `GetSuccess` is the read of Phase 4.
The policies of the repository always answer FAIL; the model lets the policy
port answer whatever `PolicyActions` holds, since RETRY and FALLBACK have
explicit error paths.

### RiskAndBidHandoff

A caller reads the forecast for the risk service (`ReadForRisk`), has it
assessed, reads it once more itself (`GetSuccess`), asks for bids and wraps both
in a handoff, while other invocations record. Forecasts are Python objects, of
which several may be equal (`Content`): the context compares with `==`, and which
object the view keeps decides what the caller pairs. Agents are external.

### WriteOnceStore and its implementations

`WriteOnceStore` is the common promise of `DocumentVectorIndexPort.index`,
`ConsumptionRepositoryPort.save_many` and `DeadLetterQueuePort.enqueue`.

- `DocumentVectorIndex`: a call coalesces, retrieves, upserts, verifies. The
  server applies points one by one (`ApplyPoint`, external: INSERT_ONLY);
  `wire[c]` holds what it has not applied yet, also after the caller got an
  error. `StaleReads` lets a retrieve miss stored points. An entry is reduced to
  its point id and its fingerprint; an unparsable payload is a backend error.
- `ConsumptionRepository`: the INSERT visits its rows one at a time in an
  arbitrary order (the caller's) and waits for the holder of an uncommitted
  row; `DeadlockAbort` is the server's detector; `Commit` and `Return` are apart
  so that the answer to COMMIT can be lost. A batch is a set: exact repeats of a
  record collapse in `_normalize`.
- `FilesystemDLQ`: the filesystem calls of `_enqueue_sync` in concurrent
  threads. `file[i]` is absent, `Torn` (created, not yet a whole record) or a
  record. `Fail` is an OSError of any call, `Crash` the end of the process.
  `CloseMayFail` admits an error of close() after the bytes are visible.
  `Orphaned` says that a torn file has no thread left that would remove it.

### Structured ingestion

A header is a sequence of words and separators; `SchemaMapping` normalises it,
matches exact names and aliases first and then by similarity (`Ratio`, external)
with the code's threshold and margin, and decides the unit from the column and
the declaration. `ConsumptionValues` takes a cell (Python type, what it reads as,
a datum) to a value, a rejection, or an exception that the adapter does not
catch. `ConsumptionSeries` is `validate_consumption_series`. The two adapters
keep the row loop as state: one step per row, the early ends (empty file, bad
encoding, unmapped header, missing sheet, broken workbook) as steps of their own,
and the validation of the series as part of the last step. A blank row only
counts as a line read (`lines`); `source` and `sheet` hold the data rows. What a
loop keeps of the positions it visits is written with `InOrder` of `Enumeration`.
The workbook's `open` flag follows the `finally` that closes it.
`StructuredIngestion` runs either. A zone has a base offset and one summer period,
hence one hour that no clock shows and one that it shows twice.

### DocumentPipeline

`job[j]` is a run of extraction, embedding and indexing of one document, from a
PDF or from an HTTP request; `query[q]` a question on its way to constraints.
The provider may reorder its items, leave one out, send one in the place of all
(its index is then repeated), give an index out of range or return vectors of a
wrong size, and need not return the same floats twice (`variant`).
Index calls are the retrieve and the upsert of `DocumentVectorIndex`, here as two
steps without its faults, which are checked there. `EditFile` changes the file
between two runs of a job. `workload` fixes who runs together; it never changes.

### Forecast models

`LagRegression` computes with exact integers: a fit is a set of numerators over
one denominator, so least squares can be checked by its defining equations.
`ConsumerLoadModels` and `DamPriceModels` are the functions of the two packages,
`BacktestSession` a caller who applies them to two histories and mixes what he
gets, since no signature ties a fit to the rows it came from. Every
`InvalidRequestError` is `Failed`.

### ServiceWiring and ServiceLifespan

`ServiceWiring` loads the settings from an environment and builds the services
as records that name the clients and collections they were given.
`ServiceLifespan` takes processes through `EnterLayer` (open and register two
clients), `Verify` or `Probe` and `Create` of the collection, publication on
`app.state`, `Receive` and `Respond` of requests, `Signal`, `Drained` and
`Unwind` (one callback of the exit stack at a time, any of which may raise). A
create whose caller gave up is in `delayed` and may still be applied.

### HttpBoundary and RedisCache

`Arrive` opens the correlation scope; `StartResponse` and `EndRoute` are what a
route does; `LogCompletion`, `LeaveScope` and `HandleUnhandled` are the way out
through the middlewares and the handler of last resort, which runs when the
scope is left. Requests of one task share a context and follow each other.
`RedisCache` counts time in ticks of which `MicrosPerMilli` make a server
millisecond; `Execute` may come late, also after the caller was given an error.
An entry is taken to be served while `now <= until`, as Redis does (expiry is
`now > when`). The two do not interact; `ServiceEdges` chooses one by `edge`, so
that one run checks both.

## 3. Runs

| run | instance | distinct states | shows |
|---|---|---|---|
| `phase_executor` | 3 branches, 2 results, 2 causes, fair | 49 425 | the group's bookkeeping; the executor implements `PhaseExecution`; once aborted it answers although an agent hangs |
| `workflow_graph` | 1 workflow, 3 invocations, 1 and 2 agents, 2 results, 2 causes, fair | 629 973 | backing, agreement, one cause per failure, reported with its code; an answered invocation ends |
| `vector_index` | 2 calls, 2 ids, 3 contents (1 of a wrong dimension), 1 error, stale reads, fair | 225 953 | `index` implements the port; retries converge |
| `consumption_repository` | 3 calls, 2 identities, 5 batches, pool of 2, 1 error, 1 retry, fair | 217 580 | atomic batches, the port; deadlocks are broken and calls end |
| `filesystem_dlq` | 3 threads, 2 ids, 2 OSErrors, 1 crash, fair | 306 517 | the port; one error leaves no orphan; nothing but an orphan keeps a retry from converging |
| `filesystem_dlq_crash` | 1 thread, 1 crash, fair | – | **violated**: see findings |
| `structured_ingestion` | up to 3 rows of 17 and 12, 9 and 5 headers, 5 and 3 configurations, 3 workbooks | 138 600 | rows, duplicates, gaps, instants, units |
| `forecast_backtests` | 729 pairs of load and 810 of price histories of 7 hours | 99 954 | no look-ahead, least squares, like with like, live agrees with backtest |
| `service_lifespan` | 2 processes, 8 deployments, 6 stores, 1 fault or crash, fair | 106 429 | compatibility, wiring, release; start-up and shutdown end; a race has a winner |
| `document_pipeline` | 2 jobs (2 PDF with an edit and 2 variants; or PDF and HTTP with a query) | 704 218 | vectors of their text, whole documents in the index, grounded constraints |
| `service_edges` | 3 requests in 2 tasks; 3 cache calls, 3 spellings, 2 values and one that is refused, 11 ticks, 1 lost entry | 2 208 911 | ids, logs and answers of requests; hits and misses of the cache |
| `risk_and_bid_handoff` | 2 workflows, 2 callers, 3 forecasts (2 of them equal), 2 attempts | 328 004 | coherent handoffs |

A run checks what nothing else covers: of a component with proofs the properties
that matter most, of a store its refinement, which implies that what was
acknowledged stays stored and that conflicts are real. The other invariants
stated in those modules (`AbortHasCause`, `ReadsAreStable`, `RecordsAreFinal`,
`AcknowledgedIsStored`, `ExclusiveWriter`, `TypeOK` and so on) are theorems, see
section 4. `TypeOK` of a module without proofs states the types of its variables
and can be added to its configuration.

**Bounds.** Three branches are the least with which a failing, a running and a
queued branch coexist. Two agents of a phase tell one failure from several. Three
invocations let one race with another while a third starts from a snapshot that
one of them returned; one cause is an `ApplicationError` and one is not; every workflow has its plans, so the branch without a plan
is not exercised. For the stores two keys and two values give overlapping, equal,
contradicting and oppositely ordered batches; the third call meets what the
others left behind. Of the repository's batches five are enough for these cases
(`Batches`). Three rows give two that disagree and one beside them, or a gap
between two; in either format two rows name one instant in different spellings.
Seven hours with a day of 1 and a week of 2 leave at least two
training and two evaluation rows on each side of the cutoff. Three ticks to a
millisecond and a lifetime of five put both the write and the lifetime at every
fraction, and are the least with which rounding down shows. An entry written at
tick 0 is served until tick 8 and must be gone by tick 11, which is why the clock
runs to 11: a lifetime sent in the wrong unit is refuted there. Two values tell the
last one written from an older one. `Workloads` and `Deployments` list the mixtures worth running together
instead of all products. `MaxFailures`, `MaxRetries`, `MaxCrashes`, `MaxFaults`,
`MaxLosses`, `MaxTime`, `MaxInFlight`, `MaxAttempts` and `edits` bound what the
environment does, never steps of the code. Symmetry (of cache calls, of the two
values, and of the two requests of one task) is used in
`service_edges` only, which has no liveness property. Deadlock checking is off
where finished calls are the normal end of the model.

**Fairness.** Weak fairness is assumed of steps that wait for nothing but the
event loop, a thread, the server's next step or the pool. It is not assumed of
agents: no timeout in the code makes them answer. A cancelled branch is assumed
to end because no agent or adapter of the repository catches `CancelledError`.
Where a property speaks of retries, the caller is assumed to retry. Strong
fairness is assumed once, of `VerifyCurrent` of the vector index: a replica that
lags does not lag at every single read. In `ServiceLifespan` the steps of a
started process are fair because its clients have timeouts; nobody has to start,
signal or kill a process.

### Findings

1. `infrastructure/persistence/dlq.py:53`: a crash between `open("x")` and the
   write leaves an empty file. Every later enqueue of the record fails with
   `DependencyUnavailableError`, although the docstrings and ADR-021 promise that
   retries are safe (`filesystem_dlq_crash`). An unlink that fails after a
   failed write has the same effect; `OnlyOrphansBlockRetries` shows that there is
   no third way.

Further disagreements with the documents, met while modelling; the modules
contain the behaviour, no run is kept for them:

2. `infrastructure/persistence/dlq.py:60`: if close() fails after the record
   became visible, the unlink can remove a record that a concurrent retry of it
   was told is stored (`AcknowledgedIsStored` with `CloseMayFail = TRUE`).
3. `infrastructure/adapters/structured/csv/consumption.py:204`: a timestamp at the
   edge of `datetime`'s range or a kW value beyond the decimal context raises an
   exception the row's `except` does not name, and ends `ingest()`, although
   `DECISIONS.md:138` says that record-level failures must not crash a batch.
   `EveryRowAccounted` is about the rows of an `ingest()` that returns; one that
   raises answers for none of them.
4. `infrastructure/adapters/structured/excel/consumption.py:180`: malformed XML of
   a sheet is met while its rows are read, outside the `except` around
   `load_workbook`; `DECISIONS.md:200` promises a diagnostic and a dead letter
   (`SheetMalformed`; the workbook is closed all the same).
5. `api/app.py:45`: the default `create_app()` does not serve without the OpenAI,
   Qdrant and collection settings, of which `.env.example:90` says "Not required
   for process health or create_app()".

## 4. Proofs

Proved with TLAPS, for all values of the constants:

- `PhaseExecutorProofs` assumes `BranchesAssumption` (there is a branch, and the
  mark of unattributed exceptions is no branch). `ErrorsExact`,
  `AbortReachesEveryBranch` and the rest are not inductive alone: the inductive
  invariant adds what a task holds in each of its states, that only ended tasks
  are notified, that a cancellation request before an abort does not exist, and
  that the answer given matches the tasks' final states. From it follow type
  correctness (`TypeCorrect`), `GroupBookkeeping`, `AbortsAreCaused`,
  `AbortsAreComplete`, `FailuresSurviveCancellation`, the action property
  `QueuedAgentsStayUntouched`, and the refinement `ExecutorKeepsPromise`: each step
  of the executor is a step of `PhaseExecution` or leaves its variables unchanged.
- `WorkflowGraphProofs` assumes `ContextAssumption`. The inductive invariant ties
  `pc[i]`, `state[i]` and `got[i]` together (an invocation about to advance holds
  the recorded success; one that handles a failure holds a group of its phase)
  and says that snapshots in flight are backed as well as those returned. From it
  follow `TypeCorrect`, `Backing`, `Agreement`, `PublicationFollowsRecord`,
  `StableReads`, `OneCausePerFailure` and the action property `FinalRecords`. The
  cause of a failed snapshot (`NamesTheFailure`) is stated of the exception group
  itself, without the facts and the selector that the handlers compute from it.
- `PhaseExecutorProofs` also proves Phase 4, which reads what the graph recorded
  (`RiskAndBidHandoff`), from its assumption that `None` is no forecast.
  `HandoffIsCoherent` speaks of finished handoffs; the invariant adds that every
  forecast on its way, read by the risk service, inside an assessment or read by
  the caller, is the one published for its workflow, and that the published one
  equals the recorded one. Since the view keeps the first object, both reads are
  of one object whatever was recorded in between. From it follow
  `HandoffTypesCorrect`, `CoherentHandoffs` and `AssessmentsOfRecordedForecasts`.
- The three stores are proved separately, each with an invariant of its own, and
  beside the part that writes to them where that part is proved too
  (`StructuredIngestionProofs` has the repository, `DocumentPipelineProofs` the
  index; the two models of such a module share no constant, variable or
  definition, and no theorem speaks of both).
  - The repository (in `StructuredIngestionProofs`) assumes `RepositoryAssumption`
    (batches are non-empty sets of records, the pool has a connection). Whether
    stored rows come in whole batches is decided at COMMIT, by what an open
    transaction holds; so the invariant ties a held row to the batch of its holder
    (`HoldersOwnRows`: not committed by anybody, hence nobody else's), says that a
    batch in a transaction does not contradict itself (`BatchesAreSound`), that
    what the SELECT showed is still so at the commit (`ReadyToCommit`), and that a
    batch stays stored while the answer to its COMMIT is on the way or lost
    (`CommittedIsStored`). From it follow `RepositoryTypesCorrect`, `WholeBatches`
    and the refinement `RepositoryImplementsPort`, in which a COMMIT writes the
    batch at once.
  - The index (in `DocumentPipelineProofs`): neither errors nor reads are bounded.
    `AcknowledgedIsStored` is not inductive: the invariant adds that a call past
    its first retrieve found everything it did not send already stored
    (`UnsentIsStored`), and that whatever is on the wire, even of a call that gave
    up, belongs to a batch that passed the dimension check (`SentIsWellFormed`).
    From it follow `IndexTypesCorrect`, `IndexAcknowledgementsHold`,
    `IndexConflictsAreReal` and the refinement `IndexImplementsPort`, in which the
    server's application of one point is the port's write of one entry.
  - The queue (`FilesystemDLQProofs`) has two invariants. `Ownership` says that a
    torn file has a thread that will write or unlink it, unless there was a crash
    or a second error (`TornHasCause`). It holds whether or not close() may fail,
    and gives `TypeCorrect`, `OneWriter` and `OneErrorIsCleanedUp`. `IInv` adds
    what the call that created a file knows of it (`OwnersKnowFile`: torn until
    written, then its own record). It needs `~CloseMayFail`; disagreement 2 above
    shows that the proviso is necessary. From it follow `AcknowledgementsHold`,
    `ConflictsAreReal` and the refinement `QueueImplementsPort`, in which the
    write of the record is the port's write, and a crash ends all open calls at
    once.
- `Enumeration` replaces the induction that statements about loops would need.
  `InOrder(S)` puts at place k the element with exactly k elements of S up to it,
  and is not recursive; `InOrderEnumerates` and `InOrderIsUnique` show, from the
  theorems about cardinality, that this is the increasing enumeration of S and the
  only one. A loop that keeps some of its positions is then a set, and adding a
  row is adding a largest element.
- `StructuredIngestionProofs` assumes `IngestionAssumption`: the units, zones and
  grids that the constructors let through, and rows that are tuples of cells; the
  number of rows is not bounded by it. The four properties speak of results; the
  invariant (`CsvInv`, `ExcelInv`) follows the row loop. While rows are read, each
  one so far is exactly one of a candidate, in source order and with the record it
  converts to, or a dead letter that names it (`Filed`); and columns were only
  taken from a header in which the column of `value_mw` claims neither energy nor
  another unit than the declared one (`GoodColumns`). The last step is the
  series validation: `Settled` shows that it moves faulty candidates to the dead
  letters and loses none, which gives `NoRowIsLost`, the same statement for both
  formats. For `GapsAreExact` a grid point
  that is missing lies between two neighbours of the increasing enumeration
  (`LiesBetweenNeighbours`), nothing recorded lies between neighbours, and of the
  gap that is reported between them both bounds and the count are right
  (`PointsInside`, with the arithmetic of multiples of the interval).
  `LocalTimesNameOneInstant` compares the two folds that `_localize_naive` tries
  with the instants that show a wall clock, for every zone
  (`AcceptedNamesOneInstant`). `EnergyIsNeverReadAsPower` holds through alias,
  fuzzy and exact matches because the unit policy comes last
  (`AcceptedColumnsAreGood`).
- `DocumentPipelineProofs` assumes `PipelineAssumption`: the collection has a
  dimension, chunk lists and pages are tuples. Three invariants. `QueriesFit` ties
  what a query holds to what it found; it gives `AnswersAreGrounded`. `JobsFit`
  says what a job holds at each of its awaits: chunks of the file it read, entries
  that embed those chunks one by one, and between retrieve and upsert that every
  entry is stored or still to be sent; and that each stored point was made by such
  an entry. It gives `StoredVectorsAreTheirTexts`, `AcknowledgedIsWhole` and
  `PipelineTypesCorrect`. `ContentFits` adds that while no file was edited a job
  holds the present file, so that two chunks with one key are one chunk
  (`OneChunkPerKey`) and, embedded equally, one entry: `ReindexingNeverConflicts`.
- `ServiceProofs` assumes for the edges `BoundaryAssumption` (generated ids are not among
  the headers clients send, every request has a task) and `CacheAssumption` (the
  normal form of a key is a key or blank, a millisecond has at least one tick).
  The invariant of the boundary says that a task's context belongs to the one
  request it serves and is empty between two (`ContextsAreOwned`), how ids were
  resolved, and what has been sent and logged at each stage of the way out. From
  it follow `ResponsesCarryTheirId` and `CompletionsAreExact`. The invariant of the
  cache ties the stored entry to the last write the server executed, a command
  on the wire, possibly of a caller that gave up, to its call, and each reply to
  the state it was given in. `HitsAreLive` and `MissesAreNotEarly` follow with
  the arithmetic of `_ttl_to_px_milliseconds`: rounding a lifetime up and the
  instant of the write down to milliseconds neither shortens the lifetime nor
  adds two milliseconds to it (lemmas `PxRoundsUp`, `LifetimeIsKept`, for every
  lifetime and resolution). `EdgesRunBoth`: the composition is both of them.
- `ServiceProofs` assumes for the lifespans `LifespanAssumption`: settings that load
  name a collection of `Names`, and the marks for "absent" and "named vectors" are not
  vector parameters. `NothingLeaks` speaks of ended processes; the invariant
  says at every moment that the exit stack is a beginning of the one order in
  which a start-up registers its exits, and that what is open and what is
  published is exactly what the stack will undo (`StackCovers`, `DepthFits`). That
  a published service is compatible survives the steps of other processes
  because no step replaces a collection that exists (`Kept`), a create that comes
  late included. From it follow `TypeCorrect`, `NothingIsLeftOpen`,
  `ServicesAreCompatible`, `ServicesHaveOpenClients` and, with lemmas about loaders
  and builders for every environment, `ServicesUseTheirOwnSettings`.

- `ForecastBacktestsProofs` assumes that lags are natural numbers and the cutoff an
  instant (`LagsAssumption`), and that an input is two sequences of observations at
  whole instants with whole values (`LoadsAssumption`, `PricesAssumption`); nothing
  bounds their length. The state machine is the easy part: the invariant
  `BacktestsStaged` says that each stage is what the stage before gives
  (`BacktestsAreStaged`). The work is in the operators.
  - Induction over a sequence is replaced as in `Enumeration`: among the places up to
    which a claim about running sums holds there is a greatest (`Greatest`), and it is
    the last. This gives linearity of sums (`SumsAdd`), the sums of centered products
    (`CenteredProducts`) and from them the normal equations of the closed forms
    (`OneLagSolves`, `TwoLagsSolve`): `FitsSolveTheNormalEquations`.
    `FitsDivideByPositives` says that what they are divided by is never zero.
  - A row, a case and a prediction are functions of their target, and each stage
    takes them along a set of targets (`Taken`). A target before the cutoff has only
    lags before it, so the training rows are the rows of the earlier observations:
    `NoFitSeesTheFuture`.
  - The alignment guards compare cohorts place by place. Two increasing enumerations
    that agree in targets are of one set, so what passes is of the same targets, the
    same actuals and one series (`LoadAlike`, `PriceAlike`), and the errors are those
    recomputed from the observations: `ComparisonsAreLikeWithLike`.
  - The live lookup of a lag by a scan finds what the index of the backtest found,
    since a history that passed the backtest has no timestamp twice:
    `LiveForecastsAreTheScoredOnes`.

TLC checked each inductive invariant on the instance of its run before it was
proved.

Only model-checked: the liveness properties. Fairness and ENABLED are outside the
prover's reach. The proofs about `ml/` are, like the model, of exact arithmetic: they
say nothing of float or Decimal rounding.

## 5. Not modelled

- The ingestion and forecast agents: each awaits one port once and wraps what it
  gets; the executor's branches already return, raise, hang or are cancelled.
- Domain models and request schemas: field validation of immutable values, seen
  by the models as accepted or rejected (a document query with a limit below 1, or
  a model answer against its schema, ends "internal"). Log and error wording.
- Assessment, bid algorithm and coordinator of Phase 4: the repository has none.
- Float and Decimal rounding, Decimal signals and non-finite values in `ml/`; the
  regressions are exact. The lag models answer them with `InvalidRequestError`;
  `dam_price/previous_day_persistence_evaluation.py:84` has no such guard.
- Nested exception groups: the executors' groups are flat. A lost database
  connection is taken to end its transaction at once. Distinct cache keys are
  taken to have distinct digests.
- Known limits of the code that no property covers: a hung agent hangs its phase
  while nothing fails; one workflow can be returned as failed to one caller and
  as advanced to another; the sign of zero in fingerprints; the 65 535 parameters
  of one INSERT; no fsync in the DLQ; a re-ingested row has another `failed_at`
  and conflicts with its own dead letter; page ordinals shift when a blank page
  is filled; evidence is checked by `chunk_id` alone; a router's own ValueError
  is a 500; a fit carries neither consumer nor currency; and on a fresh store the
  regulatory layer verifies a collection that only the index layer inside it
  would create, so that the first start fails.

## 6. Plan

1. Done: executors, graph, contexts, failure handling and Phase 4 with proofs;
   the three stores against one abstract port; structured ingestion, the document
   pipeline, the forecast models, the lifespans, the HTTP boundary and the cache.
2. Done: proofs of the three stores, the lifespans, the HTTP boundary, the cache,
   structured ingestion, the document pipeline and the forecast models: every
   invariant, action property and refinement that a passing run checks is a theorem.
3. Left: a composition of `DocumentPipeline` with `DocumentVectorIndex`, so that the
   pipeline meets the faults that are checked of the index alone.
