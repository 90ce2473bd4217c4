--------------------------- MODULE ServiceLifespan ----------------------------
(***************************************************************************)
(* The life of the API processes: the production lifespan nests the        *)
(* regulatory layer (verify its collection) around the document index      *)
(* layer (create its collection or verify it); each layer opens two        *)
(* clients, publishes one service on the application and is unwound in     *)
(* reverse order on a failed start-up or a shutdown.  The processes share  *)
(* one Qdrant store.  Every call of the store is one step; between two     *)
(* awaits a process is not interrupted.                                    *)
(*                                                                         *)
(* External: the store, the ASGI server (starts the lifespan before it     *)
(* accepts requests, drains the requests before it ends the lifespan) and  *)
(* whoever starts, signals or kills a process.                             *)
(***************************************************************************)
EXTENDS ServiceWiring, FiniteSets, Sequences, SequencesExt

CONSTANTS Process,        \* the API processes
          Names,          \* collection names
          Deployments,    \* what a process may run: [app, env], the app "production" or
                          \* "custom" (create_app's lifespan argument)
          InitialStores,  \* the collections found in the store
          Absent,         \* no such collection
          NamedVectors,   \* a collection of named vectors: no unnamed dense vector
          MaxInFlight,    \* bound: requests in flight per process and layer
          MaxFaults       \* bound: failed store calls, failed closes and crashes

\* Valid settings name a collection and parameters, and build a service that is not nil.
ASSUME LifespanAssumption ==
  /\ MaxInFlight \in Nat /\ MaxFaults \in Nat
  /\ \A s \in InitialStores : DOMAIN s = Names
  /\ \A d \in Deployments :
       /\ d.app \in {"production", "custom"}
       /\ \A l \in Layers :
            LET settings == LoadedSettings(d.env, l) IN
              SettingsValid(settings) =>
                /\ ConfiguredCollection(settings, l).name \in Names
                /\ ConfiguredCollection(settings, l).params \notin {Absent, NamedVectors}
                /\ BuildService(l, settings) # None

VARIABLES app, env,       \* fixed per process
          store,          \* name -> vector parameters, Absent or NamedVectors
          delayed,        \* create requests whose caller has given up
          pc, layer,      \* where the process is, and the layer being entered
          stack,          \* exit callbacks: clients to close, services to delete
          open,           \* clients not yet closed
          service,        \* app.state: layer -> service or None
          cause,          \* what the process unwinds for
          inflight,       \* layer -> number of requests being served
          refused,        \* a request was answered 503 by the dependency
          faults

vars == <<app, env, store, delayed, pc, layer, stack, open, service, cause, inflight,
          refused, faults>>

Ended == {"down", "failed", "stopped"}
NoService == [l \in Layers |-> None]
NoRequest == [l \in Layers |-> 0]
Clients == [kind : {"openai", "qdrant"}, layer : Layers]
ServiceExit(l) == [kind |-> "service", layer |-> l]

Init ==
  /\ \E d \in [Process -> Deployments] :
       app = [p \in Process |-> d[p].app] /\ env = [p \in Process |-> d[p].env]
  /\ store \in InitialStores /\ delayed = {}
  /\ pc = [p \in Process |-> "down"] /\ layer = [p \in Process |-> "regulatory"]
  /\ stack = [p \in Process |-> <<>>] /\ open = [p \in Process |-> {}]
  /\ service = [p \in Process |-> NoService]
  /\ cause = [p \in Process |-> "none"]
  /\ inflight = [p \in Process |-> NoRequest]
  /\ refused = [p \in Process |-> FALSE]
  /\ faults = 0

Settings(p) == LoadedSettings(env[p], layer[p])
Target(p) == ConfiguredCollection(Settings(p), layer[p])

-----------------------------------------------------------------------------
(* Pieces of a step: each says what becomes of pc, layer, stack, open,     *)
(* service and cause.                                                      *)

Abort(p, why) ==
  /\ pc' = [pc EXCEPT ![p] = "unwinding"] /\ cause' = [cause EXCEPT ![p] = why]
  /\ UNCHANGED <<layer, stack, open, service>>

\* The production lifespan enters the index layer inside the regulatory one.
AfterPublish(p) ==
  IF layer[p] = "regulatory"
  THEN pc' = [pc EXCEPT ![p] = "entering"] /\ layer' = [layer EXCEPT ![p] = "index"]
  ELSE pc' = [pc EXCEPT ![p] = "serving"] /\ UNCHANGED layer

\* Build the layer's service and put it on app.state.
Publish(p) ==
  /\ service' = [service EXCEPT ![p][layer[p]] = BuildService(layer[p], Settings(p))]
  /\ stack' = [stack EXCEPT ![p] = Append(@, ServiceExit(layer[p]))]
  /\ AfterPublish(p)
  /\ UNCHANGED <<open, cause>>

Fault == faults < MaxFaults /\ faults' = faults + 1

-----------------------------------------------------------------------------
(* Start-up                                                                *)

\* A custom lifespan publishes nothing; the production one enters its layers.
Start(p) ==
  /\ pc[p] \in Ended
  /\ pc' = [pc EXCEPT ![p] = IF app[p] = "production" THEN "entering" ELSE "serving"]
  /\ layer' = [layer EXCEPT ![p] = "regulatory"]
  /\ cause' = [cause EXCEPT ![p] = "none"]
  /\ UNCHANGED <<app, env, store, delayed, stack, open, service, inflight, refused, faults>>

\* mutant: the close of the Qdrant client is not registered
OpenClientsUnregistered(p) ==
  LET openai == CreateOpenAIClient(layer[p], Settings(p).openai)
      qdrant == CreateQdrantClient(layer[p], Settings(p).qdrant)
  IN  /\ open' = [open EXCEPT ![p] = @ \union {openai, qdrant}]
      /\ stack' = [stack EXCEPT ![p] = @ \o <<openai>>]

OpenClients(p) ==
  LET openai == CreateOpenAIClient(layer[p], Settings(p).openai)
      qdrant == CreateQdrantClient(layer[p], Settings(p).qdrant)
  IN  /\ open' = [open EXCEPT ![p] = @ \union {openai, qdrant}]
      /\ stack' = [stack EXCEPT ![p] = @ \o <<openai, qdrant>>]

\* The regulatory layer goes on to verify, the index layer to ensure.
EnterLayer(p) ==
  /\ pc[p] = "entering"
  /\ \/ /\ SettingsValid(Settings(p))
        /\ OpenClients(p)
        /\ pc' = [pc EXCEPT ![p] = IF layer[p] = "regulatory" THEN "verify" ELSE "probe"]
        /\ UNCHANGED <<layer, service, cause>>
     \/ ~SettingsValid(Settings(p)) /\ Abort(p, "settings")
  /\ UNCHANGED <<app, env, store, delayed, inflight, refused, faults>>

\* An unnamed dense vector of the configured size and distance.
Compatible(found, params) ==
  found \notin {Absent, NamedVectors} /\ found = params

\* get_collection raises for an absent collection.
Verify(p) ==
  /\ pc[p] = "verify"
  /\ \/ Fault /\ Abort(p, "unavailable")
     \/ /\ Compatible(store[Target(p).name], Target(p).params)
        /\ Publish(p) /\ UNCHANGED faults
     \/ /\ ~Compatible(store[Target(p).name], Target(p).params)
        /\ Abort(p, "unavailable") /\ UNCHANGED faults
  /\ UNCHANGED <<app, env, store, delayed, inflight, refused>>

\* mutant: the probe's answer is read the wrong way round
ProbeInverted(p) ==
  /\ pc[p] = "probe"
  /\ pc' = [pc EXCEPT ![p] = IF store[Target(p).name] = Absent THEN "verify" ELSE "create"]
  /\ UNCHANGED <<app, env, store, delayed, layer, stack, open, service, cause, inflight,
                 refused, faults>>

Probe(p) ==
  /\ pc[p] = "probe"
  /\ \/ Fault /\ Abort(p, "unavailable")
     \/ /\ pc' = [pc EXCEPT ![p] = IF store[Target(p).name] = Absent THEN "create" ELSE "verify"]
        /\ UNCHANGED <<layer, stack, open, service, cause, faults>>
  /\ UNCHANGED <<app, env, store, delayed, inflight, refused>>

\* mutant: the "already exists" answer counts as success
CreateIgnoresConflict(p) ==
  /\ pc[p] = "create"
  /\ store' = IF store[Target(p).name] = Absent
              THEN [store EXCEPT ![Target(p).name] = Target(p).params] ELSE store
  /\ Publish(p)
  /\ UNCHANGED <<app, env, delayed, inflight, refused, faults>>

\* The store creates, refuses because the collection exists by now, or the
\* answer is an error or False; after an error the request may still be on
\* its way.
Create(p) ==
  /\ pc[p] = "create"
  /\ \/ /\ store[Target(p).name] = Absent
        /\ store' = [store EXCEPT ![Target(p).name] = Target(p).params]
        /\ Publish(p) /\ UNCHANGED <<delayed, faults>>
     \/ /\ store[Target(p).name] # Absent
        /\ Abort(p, "unavailable") /\ UNCHANGED <<store, delayed, faults>>
     \/ /\ Fault /\ Abort(p, "unavailable")
        /\ delayed' \in {delayed, delayed \union {Target(p)}} /\ UNCHANGED store
  /\ UNCHANGED <<app, env, inflight, refused>>

\* A create whose caller saw an error takes effect, or is refused.
ApplyDelayed(c) ==
  /\ delayed' = delayed \ {c}
  /\ store' = IF store[c.name] = Absent THEN [store EXCEPT ![c.name] = c.params] ELSE store
  /\ UNCHANGED <<app, env, pc, layer, stack, open, service, cause, inflight, refused, faults>>

-----------------------------------------------------------------------------
(* Requests.  A dependency answers with the published service or fails     *)
(* with DependencyUnavailableError.                                        *)

GetRegulatoryService(p) == service[p]["regulatory"]
GetIndexService(p) == service[p]["index"]
GetService(p, l) == IF l = "regulatory" THEN GetRegulatoryService(p) ELSE GetIndexService(p)

Receive(p, l) ==
  /\ pc[p] = "serving" /\ inflight[p][l] < MaxInFlight
  /\ \/ /\ GetService(p, l) # None
        /\ inflight' = [inflight EXCEPT ![p][l] = @ + 1] /\ UNCHANGED refused
     \/ /\ GetService(p, l) = None
        /\ refused' = [refused EXCEPT ![p] = TRUE] /\ UNCHANGED inflight
  /\ UNCHANGED <<app, env, store, delayed, pc, layer, stack, open, service, cause, faults>>

Respond(p, l) ==
  /\ inflight[p][l] > 0
  /\ inflight' = [inflight EXCEPT ![p][l] = @ - 1]
  /\ UNCHANGED <<app, env, store, delayed, pc, layer, stack, open, service, cause, refused,
                 faults>>

-----------------------------------------------------------------------------
(* Shutdown, failure and crash                                             *)

Signal(p) ==
  /\ pc[p] = "serving"
  /\ pc' = [pc EXCEPT ![p] = "draining"]
  /\ UNCHANGED <<app, env, store, delayed, layer, stack, open, service, cause, inflight,
                 refused, faults>>

Drained(p) ==
  /\ pc[p] = "draining" /\ inflight[p] = NoRequest
  /\ Abort(p, "shutdown")
  /\ UNCHANGED <<app, env, store, delayed, inflight, refused, faults>>

\* What running one exit callback does; a deleted attribute reads as None.
Exit(p, callback) ==
  IF callback.kind = "service"
  THEN service' = [service EXCEPT ![p][callback.layer] = None] /\ UNCHANGED open
  ELSE open' = [open EXCEPT ![p] = @ \ {callback}] /\ UNCHANGED service

\* mutant: the callbacks run in the order they were registered
UnwindFirstIn(p) ==
  /\ pc[p] = "unwinding" /\ stack[p] # <<>>
  /\ Exit(p, Head(stack[p]))
  /\ stack' = [stack EXCEPT ![p] = Tail(@)]
  /\ UNCHANGED <<app, env, store, delayed, pc, layer, cause, inflight, refused, faults>>

\* mutant: once a close has raised the callbacks left are never run
UnwindStops(p) ==
  /\ pc[p] = "unwinding" /\ stack[p] # <<>>
  /\ \/ cause[p] = "close" /\ UNCHANGED vars
     \/ /\ cause[p] # "close"
        /\ Exit(p, Last(stack[p]))
        /\ stack' = [stack EXCEPT ![p] = Front(@)]
        /\ \/ UNCHANGED <<cause, faults>>
           \/ /\ Last(stack[p]).kind # "service" /\ Fault
              /\ cause' = [cause EXCEPT ![p] = "close"]
        /\ UNCHANGED <<app, env, store, delayed, pc, layer, inflight, refused>>

\* The last callback runs first; a close that raises does not stop the rest.
Unwind(p) ==
  /\ pc[p] = "unwinding" /\ stack[p] # <<>>
  /\ Exit(p, Last(stack[p]))
  /\ stack' = [stack EXCEPT ![p] = Front(@)]
  /\ \/ UNCHANGED <<cause, faults>>
     \/ Last(stack[p]).kind # "service" /\ Fault /\ cause' = [cause EXCEPT ![p] = "close"]
  /\ UNCHANGED <<app, env, store, delayed, pc, layer, inflight, refused>>

Unwound(p) ==
  /\ pc[p] = "unwinding" /\ stack[p] = <<>>
  /\ pc' = [pc EXCEPT ![p] = IF cause[p] = "shutdown" THEN "stopped" ELSE "failed"]
  /\ UNCHANGED <<app, env, store, delayed, layer, stack, open, service, cause, inflight,
                 refused, faults>>

Crash(p) ==
  /\ pc[p] \notin Ended /\ Fault
  /\ pc' = [pc EXCEPT ![p] = "down"]
  /\ stack' = [stack EXCEPT ![p] = <<>>] /\ open' = [open EXCEPT ![p] = {}]
  /\ service' = [service EXCEPT ![p] = NoService]
  /\ inflight' = [inflight EXCEPT ![p] = NoRequest]
  /\ UNCHANGED <<app, env, store, delayed, layer, cause, refused>>

Next ==
  \/ \E p \in Process :
       \/ Start(p) \/ EnterLayer(p) \/ Verify(p) \/ Probe(p) \/ Create(p)
       \/ Signal(p) \/ Drained(p) \/ Unwind(p) \/ Unwound(p) \/ Crash(p)
       \/ \E l \in Layers : Receive(p, l) \/ Respond(p, l)
  \/ \E c \in delayed : ApplyDelayed(c)

Spec == Init /\ [][Next]_vars

\* A started process goes on: Qdrant calls end by the client's timeout, requests
\* by the clients' timeouts.  Nobody has to start, signal or kill a process.
OwnStep(p) ==
  \/ EnterLayer(p) \/ Verify(p) \/ Probe(p) \/ Create(p)
  \/ Drained(p) \/ Unwind(p) \/ Unwound(p)

Fairness ==
  \A p \in Process :
    WF_vars(OwnStep(p)) /\ \A l \in Layers : WF_vars(Respond(p, l))

FairSpec == Spec /\ Fairness

-----------------------------------------------------------------------------
(* Properties                                                              *)

\* The variables have their types.
TypeOK ==
  /\ app \in [Process -> {"production", "custom"}] /\ DOMAIN env = Process
  /\ DOMAIN store = Names /\ faults \in 0 .. MaxFaults
  /\ pc \in [Process -> Ended \union {"entering", "verify", "probe", "create", "serving",
                                      "draining", "unwinding"}]
  /\ layer \in [Process -> Layers]
  /\ \A p \in Process :
       /\ open[p] \subseteq Clients
       /\ ToSet(stack[p]) \subseteq Clients \union {ServiceExit(l) : l \in Layers}
       /\ DOMAIN service[p] = Layers
       /\ inflight[p] \in [Layers -> 0 .. MaxInFlight]
  /\ cause \in [Process -> {"none", "settings", "unavailable", "shutdown", "close"}]
  /\ refused \in [Process -> BOOLEAN]

\* A published service works on a collection of the dimension and the distance
\* its process was configured with, whoever created the collection and however
\* the probes and creates of other processes interleaved (collection_ensure.py).
ServingIsCompatible ==
  \A p \in Process, l \in Layers :
    service[p][l] # None =>
      LET found == store[service[p][l].vectors.collection] IN
        /\ found \notin {Absent, NamedVectors}
        /\ found.size = service[p][l].vectors.size
        /\ found.distance = QdrantDistance[env[p].document_vector_distance]

\* A published service uses the models, the collection and the dimension of its
\* own settings, each where its name says (the builders of api/composition).
ServiceUsesItsOwnSettings ==
  \A p \in Process :
    LET regulatory == service[p]["regulatory"]  index == service[p]["index"] IN
      /\ regulatory # None =>
           /\ regulatory.embedding.model = env[p].query_embedding_model
           /\ regulatory.inference.model = env[p].constraint_inference_model
           /\ regulatory.vectors.collection = env[p].regulatory_collection_name
           /\ regulatory.vectors.size = env[p].regulatory_vector_size
      /\ index # None =>
           /\ index.embedding.model = env[p].document_embedding_model
           /\ index.vectors.collection = env[p].index_collection_name
           /\ index.vectors.size = env[p].index_vector_size

\* As long as a service can be found on app.state, or a request is using it, the
\* clients it was wired to are open: the service goes before its clients.  And no
\* request of a production process is refused for want of a service: both are there
\* before the first request and until after the last (api/dependencies).
ServiceUsesOpenClients ==
  \A p \in Process :
    /\ refused[p] => app[p] = "custom"
    /\ \A l \in Layers :
         service[p][l] # None \/ inflight[p][l] > 0 =>
           {service[p][l].embedding.client, service[p][l].vectors.client} \subseteq open[p]

\* A start-up that failed at any step, and a shutdown, leave no client open and
\* no service behind, whichever closes raised (the managed runtimes).
NothingLeaks ==
  \A p \in Process :
    pc[p] \in Ended => open[p] = {} /\ service[p] = NoService

\* Every start-up comes to an end: the process serves, has failed with everything
\* unwound, or was killed; and so does every shutdown, although requests are in
\* flight when it is signalled and closes may raise.
StartUpAndShutdownEnd ==
  \A p \in Process :
    /\ (pc[p] = "entering") ~> (pc[p] \in {"serving", "failed", "down"})
    /\ (pc[p] = "draining") ~> (pc[p] \in {"stopped", "failed", "down"})

\* Process p's settings are valid and the store has what its layers would accept.
CanServe(p) ==
  /\ \A l \in Layers : SettingsValid(LoadedSettings(env[p], l))
  /\ LET target(l) == ConfiguredCollection(LoadedSettings(env[p], l), l)
     IN  /\ Compatible(store[target("regulatory").name], target("regulatory").params)
         /\ \/ store[target("index").name] = Absent
            \/ Compatible(store[target("index").name], target("index").params)

\* Processes with equal, valid settings that race to create the index collection cannot
\* all lose: once one starts, one of them serves, unless a call fails or one is killed.
RaceHasAWinner ==
  \A p \in Process :
    (pc[p] = "entering" /\ CanServe(p) /\ \A q \in Process : app[q] = app[p] /\ env[q] = env[p])
      ~> (faults > 0 \/ \E q \in Process : pc[q] = "serving")

=============================================================================
