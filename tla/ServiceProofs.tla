----------------------------- MODULE ServiceProofs ----------------------------
(***************************************************************************)
(* The service and its two edges.  For any number of processes,            *)
(* deployments, collections, requests and faults: what a process has       *)
(* opened and published is what its exit stack will undo, so a failed      *)
(* start-up or a shutdown leaves nothing behind; and a collection that was *)
(* found compatible stays so, since nobody replaces one.  The HTTP         *)
(* boundary for any number of requests and tasks, and the cache for any    *)
(* number of calls, keys and lifetimes and any clock.                      *)
(***************************************************************************)
EXTENDS ServiceLifespan, ServiceEdges, TLAPS

------------------------------------------------------------------------------
(* The life of the processes.                                             *)

Client(kind, l) == [kind |-> kind, layer |-> l]

\* The exits of a process that serves, in the order they were registered.
ExitAt(i) ==
  IF i \in {3, 6} THEN ServiceExit(IF i = 3 THEN "regulatory" ELSE "index")
  ELSE Client(IF i \in {1, 4} THEN "openai" ELSE "qdrant", IF i < 3 THEN "regulatory" ELSE "index")

\* The clients that are open while the stack is n high.
OpenAt(n) == {ExitAt(i) : i \in {j \in 1 .. n : j \notin {3, 6}}}

Exits == Clients \union {ServiceExit(l) : l \in Layers}
Services == {BuildService(l, LoadedSettings(d.env, l)) : d \in Deployments, l \in Layers}
Depth(p) == Len(stack[p])

\* The stack is a beginning of that order; what is open is what it will close, and
\* what is published what it will delete.
StackCovers(p) ==
  /\ Depth(p) <= 6 /\ \A i \in 1 .. Depth(p) : stack[p][i] = ExitAt(i)
  /\ open[p] = OpenAt(Depth(p))
  /\ service[p]["regulatory"] # None <=> Depth(p) >= 3
  /\ service[p]["index"] # None <=> Depth(p) = 6

\* How far the start-up of a process has come.
DepthFits(p) ==
  /\ pc[p] \in Ended => Depth(p) = 0
  /\ pc[p] = "entering" => Depth(p) = IF layer[p] = "regulatory" THEN 0 ELSE 3
  /\ pc[p] = "verify" => Depth(p) = IF layer[p] = "regulatory" THEN 2 ELSE 5
  /\ pc[p] \in {"probe", "create"} => layer[p] = "index" /\ Depth(p) = 5
  /\ pc[p] \in {"serving", "draining"} => Depth(p) = IF app[p] = "production" THEN 6 ELSE 0
  /\ pc[p] \in {"entering", "verify", "probe", "create"} => app[p] = "production"
  /\ pc[p] \in {"verify", "probe", "create"} => SettingsValid(Settings(p))

\* A published service is that of the process's own settings, on its own collection.
ServicesAreBuilt(p) ==
  /\ \E d \in Deployments : app[p] = d.app /\ env[p] = d.env
  /\ \A l \in Layers : service[p][l] # None =>
       LET settings == LoadedSettings(env[p], l)
           target == ConfiguredCollection(settings, l)
       IN  /\ SettingsValid(settings) /\ service[p][l] = BuildService(l, settings)
           /\ store[target.name] = target.params

\* Requests are served while the process is up, by services that are there.
RequestsAreServed(p) ==
  /\ \A l \in Layers : inflight[p][l] > 0 => pc[p] \in {"serving", "draining"} /\ service[p][l] # None
  /\ refused[p] => app[p] = "custom"

Good(p) == StackCovers(p) /\ DepthFits(p) /\ ServicesAreBuilt(p) /\ RequestsAreServed(p)

Where == Ended \union {"entering", "verify", "probe", "create", "serving", "draining", "unwinding"}
Causes == {"none", "settings", "unavailable", "shutdown", "close"}

LifespanType ==
  /\ app \in [Process -> {"production", "custom"}] /\ DOMAIN env = Process
  /\ DOMAIN store = Names /\ faults \in 0 .. MaxFaults
  /\ pc \in [Process -> Where] /\ layer \in [Process -> Layers]
  /\ stack \in [Process -> Seq(Exits)] /\ open \in [Process -> SUBSET Clients]
  /\ service \in [Process -> [Layers -> Services \union {None}]]
  /\ inflight \in [Process -> [Layers -> 0 .. MaxInFlight]]
  /\ cause \in [Process -> Causes]
  /\ refused \in [Process -> BOOLEAN]

IInv == LifespanType /\ \A p \in Process : Good(p)

-----------------------------------------------------------------------------
(* The order of the exits.                                                  *)

(* The six exits of a process that entered both layers, in the order pushed.*)
LEMMA ExitTable ==
  /\ ExitAt(1) = Client("openai", "regulatory") /\ ExitAt(2) = Client("qdrant", "regulatory")
  /\ ExitAt(3) = ServiceExit("regulatory")
  /\ ExitAt(4) = Client("openai", "index") /\ ExitAt(5) = Client("qdrant", "index")
  /\ ExitAt(6) = ServiceExit("index")
BY DEF ExitAt

(* The exits of a layer are exits, and its clients are clients.             *)
LEMMA ExitKinds ==
  /\ \A l \in Layers : /\ Client("openai", l) \in Clients /\ Client("qdrant", l) \in Clients
                       /\ ServiceExit(l) \in Exits
  /\ Clients \subseteq Exits
BY DEF Client, Clients, Exits

(* The clients that are open at each depth of the exit stack.               *)
LEMMA OpenTable ==
  /\ OpenAt(0) = {} /\ OpenAt(1) = {ExitAt(1)} /\ OpenAt(2) = {ExitAt(1), ExitAt(2)}
  /\ OpenAt(3) = OpenAt(2) /\ OpenAt(4) = {ExitAt(1), ExitAt(2), ExitAt(4)}
  /\ OpenAt(5) = {ExitAt(1), ExitAt(2), ExitAt(4), ExitAt(5)} /\ OpenAt(6) = OpenAt(5)
<1> DEFINE Is(n) == {j \in 1 .. n : j \notin {3, 6}}
<1>1. Is(0) = {} /\ Is(1) = {1} /\ Is(2) = {1, 2} /\ Is(3) = {1, 2}
  OBVIOUS
<1>2. Is(4) = {1, 2, 4} /\ Is(5) = {1, 2, 4, 5} /\ Is(6) = {1, 2, 4, 5}
  OBVIOUS
<1>3. \A n : OpenAt(n) = {ExitAt(i) : i \in Is(n)}
  BY DEF OpenAt
<1> HIDE DEF Is
<1>4. OpenAt(0) = {} /\ OpenAt(1) = {ExitAt(1)} /\ OpenAt(2) = {ExitAt(1), ExitAt(2)} /\ OpenAt(3) = OpenAt(2)
  BY <1>1, <1>3
<1>5. /\ OpenAt(4) = {ExitAt(1), ExitAt(2), ExitAt(4)}
      /\ OpenAt(5) = {ExitAt(1), ExitAt(2), ExitAt(4), ExitAt(5)} /\ OpenAt(6) = OpenAt(5)
  BY <1>2, <1>3
<1> QED BY <1>4, <1>5

(* Running the exit on top closes what it opened and nothing else.          *)
LEMMA TopExit ==
  ASSUME NEW n \in 1 .. 6
  PROVE  /\ n \notin {3, 6} => ExitAt(n).kind # "service" /\ OpenAt(n - 1) = OpenAt(n) \ {ExitAt(n)}
         /\ n = 3 => ExitAt(n) = ServiceExit("regulatory") /\ OpenAt(n - 1) = OpenAt(n)
         /\ n = 6 => ExitAt(n) = ServiceExit("index") /\ OpenAt(n - 1) = OpenAt(n)
<1>1. /\ ExitAt(1) \notin {ExitAt(2), ExitAt(4), ExitAt(5)}
      /\ ExitAt(2) \notin {ExitAt(4), ExitAt(5)} /\ ExitAt(4) # ExitAt(5)
  BY ExitTable DEF Client
<1>2. \A i \in {1, 2, 4, 5} : ExitAt(i).kind # "service"
  BY ExitTable DEF Client
<1>3. n = 1 \/ n = 2 \/ n = 3 \/ n = 4 \/ n = 5 \/ n = 6
  OBVIOUS
<1> QED BY <1>1, <1>2, <1>3, ExitTable, OpenTable

-----------------------------------------------------------------------------
(* What the steps have in common.                                           *)

(* Settings that load describe a collection and a service.                  *)
LEMMA Deployed ==
  ASSUME IInv, NEW p \in Process, NEW l \in Layers, SettingsValid(LoadedSettings(env[p], l))
  PROVE  /\ ConfiguredCollection(LoadedSettings(env[p], l), l).name \in Names
         /\ ConfiguredCollection(LoadedSettings(env[p], l), l).params \notin {Absent, NamedVectors}
         /\ BuildService(l, LoadedSettings(env[p], l)) \in Services \ {None}
<1>1. PICK d \in Deployments : env[p] = d.env
  BY DEF IInv, Good, ServicesAreBuilt
<1> QED BY <1>1, LifespanAssumption DEF Services

(* No step takes a collection away or changes it.                           *)
Kept == \A n \in Names : store[n] # Absent => store'[n] = store[n]

(* A process whose services, store and settings stay as they are.           *)
LEMMA SameServices ==
  ASSUME IInv, NEW p \in Process, app' = app, env' = env, Kept, service'[p] = service[p]
  PROVE  ServicesAreBuilt(p)'
<1>0. ServicesAreBuilt(p)
  BY DEF IInv, Good
<1>1. ASSUME NEW l \in Layers, service[p][l] # None
      PROVE  LET target == ConfiguredCollection(LoadedSettings(env[p], l), l)
             IN  store'[target.name] = target.params
  <2>1. SettingsValid(LoadedSettings(env[p], l))
    BY <1>0, <1>1 DEF ServicesAreBuilt
  <2> QED BY <1>0, <1>1, <2>1, Deployed DEF ServicesAreBuilt, Kept
<1> QED BY <1>0, <1>1 DEF ServicesAreBuilt

(* A process that does not move is not disturbed by the steps of others.    *)
LEMMA Undisturbed ==
  ASSUME IInv, NEW q \in Process, app' = app, env' = env, Kept,
         pc'[q] = pc[q], layer'[q] = layer[q], stack'[q] = stack[q], open'[q] = open[q],
         service'[q] = service[q], inflight'[q] = inflight[q], refused'[q] = refused[q]
  PROVE  Good(q)'
<1>0. Good(q)
  BY DEF IInv
<1>1. StackCovers(q)'
  BY <1>0 DEF Good, StackCovers, Depth
<1>2. DepthFits(q)'
  BY <1>0 DEF Good, DepthFits, Depth, Settings
<1>3. ServicesAreBuilt(q)'
  BY SameServices
<1>4. RequestsAreServed(q)'
  BY <1>0 DEF Good, RequestsAreServed
<1> QED BY <1>1, <1>2, <1>3, <1>4 DEF Good

(* A step of one process that keeps the store keeps what is said of the rest. *)
LEMMA StepOf ==
  ASSUME IInv, NEW p \in Process, app' = app, env' = env, Kept,
         \A q \in Process \ {p} :
           /\ pc'[q] = pc[q] /\ layer'[q] = layer[q] /\ stack'[q] = stack[q] /\ open'[q] = open[q]
           /\ service'[q] = service[q] /\ inflight'[q] = inflight[q] /\ refused'[q] = refused[q],
         LifespanType', Good(p)'
  PROVE  IInv'
<1>1. \A q \in Process \ {p} : Good(q)'
  BY Undisturbed
<1> QED BY <1>1 DEF IInv

(* No service is published and no request is answered before the start-up.  *)
LEMMA Initially == Init => IInv
<1> SUFFICES ASSUME Init PROVE IInv
  OBVIOUS
<1>1. PICK d \in [Process -> Deployments] :
        app = [p \in Process |-> d[p].app] /\ env = [p \in Process |-> d[p].env]
  BY DEF Init
<1>2. LifespanType
  <2>1. app \in [Process -> {"production", "custom"}] /\ DOMAIN env = Process
    BY <1>1, LifespanAssumption
  <2>2. stack \in [Process -> Seq(Exits)] /\ open \in [Process -> SUBSET Clients]
    BY DEF Init
  <2>3. /\ service \in [Process -> [Layers -> Services \union {None}]]
        /\ inflight \in [Process -> [Layers -> 0 .. MaxInFlight]]
    BY LifespanAssumption DEF Init, NoService, NoRequest
  <2>4. DOMAIN store = Names /\ faults \in 0 .. MaxFaults
    BY LifespanAssumption DEF Init
  <2> QED BY <2>1, <2>2, <2>3, <2>4 DEF Init, LifespanType, Where, Causes, Ended, Layers
<1>3. ASSUME NEW p \in Process PROVE Good(p)
  <2>1. Depth(p) = 0 /\ pc[p] = "down" /\ service[p] = NoService /\ inflight[p] = NoRequest /\ ~refused[p]
    BY DEF Init, Depth
  <2>2. StackCovers(p)
    BY <2>1, OpenTable DEF Init, StackCovers, NoService, Layers
  <2>3. DepthFits(p)
    BY <2>1 DEF DepthFits, Ended
  <2>4. ServicesAreBuilt(p)
    BY <1>1, <2>1 DEF ServicesAreBuilt, NoService
  <2>5. RequestsAreServed(p)
    BY <2>1 DEF RequestsAreServed, NoRequest
  <2> QED BY <2>2, <2>3, <2>4, <2>5 DEF Good
<1> QED BY <1>2, <1>3 DEF IInv

(* A process goes on without opening, publishing or undoing anything.       *)
LEMMA Moves ==
  ASSUME IInv, NEW p \in Process, UNCHANGED <<app, env, store, stack, open, service, inflight, refused>>,
         NEW to \in Where, pc' = [pc EXCEPT ![p] = to],
         layer' \in [Process -> Layers], \A q \in Process \ {p} : layer'[q] = layer[q],
         cause' \in [Process -> Causes], faults' \in 0 .. MaxFaults,
         DepthFits(p)', \A l \in Layers : inflight[p][l] > 0 => to \in {"serving", "draining"}
  PROVE  IInv'
<1>1. pc'[p] = to /\ \A q \in Process \ {p} : pc'[q] = pc[q]
  BY DEF IInv, LifespanType
<1>2. LifespanType'
  BY DEF IInv, LifespanType
<1>3. StackCovers(p)' /\ RequestsAreServed(p)'
  BY <1>1 DEF IInv, Good, StackCovers, RequestsAreServed, Depth
<1>4. Kept
  BY DEF Kept
<1>5. Good(p)'
  BY <1>3, <1>4, SameServices DEF Good
<1> QED BY <1>1, <1>2, <1>4, <1>5, StepOf

(* A process that gives up, or stops, unwinds with what it has.             *)
LEMMA AbortKeeps ==
  ASSUME IInv, NEW p \in Process, NEW why \in Causes, Abort(p, why),
         UNCHANGED <<app, env, store, inflight, refused>>, faults' \in 0 .. MaxFaults,
         pc[p] \in {"entering", "verify", "probe", "create"} \/ inflight[p] = NoRequest
  PROVE  IInv'
<1>1. /\ pc' = [pc EXCEPT ![p] = "unwinding"] /\ cause' = [cause EXCEPT ![p] = why]
      /\ UNCHANGED <<layer, stack, open, service>>
  BY DEF Abort
<1>2. pc'[p] = "unwinding" /\ "unwinding" \in Where
  BY <1>1 DEF IInv, LifespanType, Where
<1>3. DepthFits(p)'
  BY <1>2 DEF DepthFits, Ended
<1>4. \A l \in Layers : inflight[p][l] = 0 \/ ~(inflight[p][l] > 0)
  BY DEF IInv, Good, RequestsAreServed, NoRequest
<1>5. \A l \in Layers : ~(inflight[p][l] > 0)
  BY <1>4
<1>6. layer' \in [Process -> Layers] /\ cause' \in [Process -> Causes]
  BY <1>1 DEF IInv, LifespanType
<1> QED BY <1>1, <1>2, <1>3, <1>5, <1>6, Moves

(* A fault is counted within its bound.                                     *)
LEMMA FaultType ==
  ASSUME IInv, Fault
  PROVE  faults' \in 0 .. MaxFaults
BY LifespanAssumption DEF IInv, LifespanType, Fault

-----------------------------------------------------------------------------
(* Every action keeps the invariant.                                        *)

(* A process that starts has an empty stack and no layer entered.           *)
LEMMA StartKeeps ==
  ASSUME IInv, NEW p \in Process, Start(p)
  PROVE  IInv'
<1> DEFINE to == IF app[p] = "production" THEN "entering" ELSE "serving"
<1>1. /\ pc' = [pc EXCEPT ![p] = to] /\ layer' = [layer EXCEPT ![p] = "regulatory"]
      /\ cause' = [cause EXCEPT ![p] = "none"] /\ pc[p] \in Ended
      /\ UNCHANGED <<app, env, store, delayed, stack, open, service, inflight, refused, faults>>
  BY DEF Start
<1>2. /\ pc'[p] = to /\ to \in Where /\ layer'[p] = "regulatory"
      /\ layer' \in [Process -> Layers] /\ \A q \in Process \ {p} : layer'[q] = layer[q]
      /\ cause' \in [Process -> Causes]
  BY <1>1 DEF IInv, LifespanType, Where, Layers, Causes
<1>3. Depth(p)' = 0 /\ app[p] \in {"production", "custom"}
  BY <1>1 DEF IInv, LifespanType, Good, DepthFits, Depth
<1>4. DepthFits(p)'
  BY <1>1, <1>2, <1>3 DEF DepthFits, Ended
<1>5. \A l \in Layers : ~(inflight[p][l] > 0)
  BY <1>1 DEF IInv, Good, RequestsAreServed, Ended
<1>6. faults' \in 0 .. MaxFaults
  BY <1>1 DEF IInv, LifespanType
<1> HIDE DEF to
<1> QED BY <1>1, <1>2, <1>4, <1>5, <1>6, Moves

(* collection_exists fails and unwinds, or says what to do next.            *)
LEMMA ProbeKeeps ==
  ASSUME IInv, NEW p \in Process, Probe(p)
  PROVE  IInv'
<1>1. pc[p] = "probe" /\ UNCHANGED <<app, env, store, delayed, inflight, refused>>
  BY DEF Probe
<1>2. CASE Fault /\ Abort(p, "unavailable")
  BY <1>1, <1>2, FaultType, AbortKeeps DEF Causes
<1>3. ASSUME NEW to \in {"create", "verify"}, pc' = [pc EXCEPT ![p] = to],
             UNCHANGED <<layer, stack, open, service, cause, faults>>
      PROVE  IInv'
  <2>1. pc'[p] = to /\ to \in Where
    BY <1>3 DEF IInv, LifespanType, Where
  <2>2. /\ layer[p] = "index" /\ Depth(p) = 5 /\ app[p] = "production" /\ SettingsValid(Settings(p))
    BY <1>1 DEF IInv, Good, DepthFits
  <2>3. Depth(p)' = 5 /\ SettingsValid(Settings(p))'
    BY <1>1, <1>3, <2>2 DEF Depth, Settings
  <2>4. DepthFits(p)'
    BY <1>1, <1>3, <2>1, <2>2, <2>3 DEF DepthFits, Ended
  <2>5. \A l \in Layers : ~(inflight[p][l] > 0)
    BY <1>1 DEF IInv, Good, RequestsAreServed
  <2>6. layer' \in [Process -> Layers] /\ cause' \in [Process -> Causes] /\ faults' \in 0 .. MaxFaults
    BY <1>3 DEF IInv, LifespanType
  <2> QED BY <1>1, <1>3, <2>1, <2>4, <2>5, <2>6, Moves
<1> QED BY <1>2, <1>3 DEF Probe

(* A signal closes nothing yet: requests in flight keep their clients.      *)
LEMMA SignalKeeps ==
  ASSUME IInv, NEW p \in Process, Signal(p)
  PROVE  IInv'
<1>1. /\ pc[p] = "serving" /\ pc' = [pc EXCEPT ![p] = "draining"]
      /\ UNCHANGED <<app, env, store, delayed, layer, stack, open, service, cause, inflight, refused, faults>>
  BY DEF Signal
<1>2. pc'[p] = "draining" /\ "draining" \in Where
  BY <1>1 DEF IInv, LifespanType, Where
<1>3. DepthFits(p)'
  BY <1>1, <1>2 DEF IInv, Good, DepthFits, Depth, Ended
<1>4. layer' \in [Process -> Layers] /\ cause' \in [Process -> Causes] /\ faults' \in 0 .. MaxFaults
  BY <1>1 DEF IInv, LifespanType
<1> QED BY <1>1, <1>2, <1>3, <1>4, Moves

(* Unwinding begins once no request is in flight.                           *)
LEMMA DrainedKeeps ==
  ASSUME IInv, NEW p \in Process, Drained(p)
  PROVE  IInv'
BY AbortKeeps DEF Drained, Causes, IInv, LifespanType

(* A process has ended only when its stack is empty.                        *)
LEMMA UnwoundKeeps ==
  ASSUME IInv, NEW p \in Process, Unwound(p)
  PROVE  IInv'
<1> DEFINE to == IF cause[p] = "shutdown" THEN "stopped" ELSE "failed"
<1>1. /\ pc[p] = "unwinding" /\ stack[p] = <<>> /\ pc' = [pc EXCEPT ![p] = to]
      /\ UNCHANGED <<app, env, store, delayed, layer, stack, open, service, cause, inflight, refused, faults>>
  BY DEF Unwound
<1>2. pc'[p] = to /\ to \in Where /\ to \in Ended
  BY <1>1 DEF IInv, LifespanType, Where, Ended
<1>3. Depth(p)' = 0
  BY <1>1 DEF Depth
<1>4. DepthFits(p)'
  BY <1>2, <1>3 DEF DepthFits, Ended
<1>5. \A l \in Layers : ~(inflight[p][l] > 0)
  BY <1>1 DEF IInv, Good, RequestsAreServed
<1>6. layer' \in [Process -> Layers] /\ cause' \in [Process -> Causes] /\ faults' \in 0 .. MaxFaults
  BY <1>1 DEF IInv, LifespanType
<1> HIDE DEF to
<1> QED BY <1>1, <1>2, <1>4, <1>5, <1>6, Moves

(* Each client that a layer opens is pushed before the next one is built.   *)
LEMMA EnterLayerKeeps ==
  ASSUME IInv, NEW p \in Process, EnterLayer(p)
  PROVE  IInv'
<1>1. pc[p] = "entering" /\ UNCHANGED <<app, env, store, delayed, inflight, refused, faults>>
  BY DEF EnterLayer
<1>2. CASE ~SettingsValid(Settings(p))
  BY <1>1, <1>2, AbortKeeps DEF EnterLayer, Causes, IInv, LifespanType
<1>3. CASE SettingsValid(Settings(p))
  <2> DEFINE to == IF layer[p] = "regulatory" THEN "verify" ELSE "probe"
             openai == Client("openai", layer[p])
             qdrant == Client("qdrant", layer[p])
  <2>1. /\ open' = [open EXCEPT ![p] = @ \union {openai, qdrant}]
        /\ stack' = [stack EXCEPT ![p] = @ \o <<openai, qdrant>>]
        /\ pc' = [pc EXCEPT ![p] = to] /\ UNCHANGED <<layer, service, cause>>
    BY <1>3 DEF EnterLayer, OpenClients, CreateOpenAIClient, CreateQdrantClient, Client
  <2>2. layer[p] \in Layers
    BY DEF IInv, LifespanType
  <2>3. openai \in Clients /\ qdrant \in Clients /\ openai \in Exits /\ qdrant \in Exits
    BY <2>2, ExitKinds
  <2>4. /\ open'[p] = open[p] \union {openai, qdrant} /\ open' \in [Process -> SUBSET Clients]
        /\ \A q \in Process \ {p} : open'[q] = open[q]
    BY <2>1, <2>3 DEF IInv, LifespanType
  <2>5. /\ stack[p] \in Seq(Exits) /\ stack'[p] = stack[p] \o <<openai, qdrant>>
        /\ \A q \in Process \ {p} : stack'[q] = stack[q]
    BY <2>1 DEF IInv, LifespanType
  <2>6. /\ stack'[p] \in Seq(Exits) /\ Depth(p)' = Depth(p) + 2
        /\ \A i \in 1 .. Depth(p) : stack'[p][i] = stack[p][i]
        /\ stack'[p][Depth(p) + 1] = openai /\ stack'[p][Depth(p) + 2] = qdrant
    <3> HIDE DEF openai, qdrant
    <3> QED BY <2>3, <2>5 DEF Depth
  <2>7. stack' \in [Process -> Seq(Exits)]
    BY <2>1, <2>5, <2>6 DEF IInv, LifespanType
  <2>8. pc'[p] = to /\ to \in Where /\ \A q \in Process \ {p} : pc'[q] = pc[q]
    BY <2>1 DEF IInv, LifespanType, Where
  <2>9. LifespanType'
    BY <1>1, <2>1, <2>4, <2>7, <2>8 DEF IInv, LifespanType
  <2>10. /\ Depth(p) = (IF layer[p] = "regulatory" THEN 0 ELSE 3) /\ app[p] = "production"
         /\ \A i \in 1 .. Depth(p) : stack[p][i] = ExitAt(i)
         /\ open[p] = OpenAt(Depth(p))
         /\ service[p]["regulatory"] # None <=> Depth(p) >= 3
         /\ service[p]["index"] # None <=> Depth(p) = 6
    BY <1>1 DEF IInv, Good, DepthFits, StackCovers
  <2>11. /\ openai = ExitAt(Depth(p) + 1) /\ qdrant = ExitAt(Depth(p) + 2)
         /\ OpenAt(Depth(p) + 2) = OpenAt(Depth(p)) \union {openai, qdrant}
    BY <2>2, <2>10, ExitTable, OpenTable DEF Layers
  <2>12. StackCovers(p)'
    <3>1. \A i \in 1 .. Depth(p)' : stack'[p][i] = ExitAt(i)
      <4> HIDE DEF openai, qdrant
      <4> QED BY <2>6, <2>10, <2>11
    <3>2. open'[p] = OpenAt(Depth(p)')
      <4> HIDE DEF openai, qdrant
      <4> QED BY <2>4, <2>6, <2>10, <2>11
    <3>3. /\ service'[p]["regulatory"] # None <=> Depth(p)' >= 3
          /\ service'[p]["index"] # None <=> Depth(p)' = 6 
          /\ Depth(p)' <= 6
      BY <2>1, <2>6, <2>10
    <3> QED BY <3>1, <3>2, <3>3 DEF StackCovers
  <2>13. DepthFits(p)'
    <3>1. SettingsValid(Settings(p))'
      BY <1>1, <1>3, <2>1 DEF Settings
    <3> QED BY <1>1, <2>1, <2>2, <2>6, <2>8, <2>10, <3>1 DEF DepthFits, Ended, Layers
  <2>14. RequestsAreServed(p)'
    BY <1>1, <2>1 DEF IInv, Good, RequestsAreServed
  <2>15. Kept
    BY <1>1 DEF Kept
  <2>16. Good(p)'
    BY <1>1, <2>1, <2>12, <2>13, <2>14, <2>15, SameServices DEF Good
  <2> QED BY <1>1, <2>1, <2>4, <2>5, <2>8, <2>9, <2>15, <2>16, StepOf
<1> QED BY <1>2, <1>3

(* A layer publishes once its collection was found or made compatible.      *)
LEMMA PublishKeeps ==
  ASSUME IInv, NEW p \in Process, pc[p] \in {"verify", "create"}, Publish(p),
         UNCHANGED <<app, env, inflight, refused, faults>>,
         Kept, DOMAIN store' = Names, store'[Target(p).name] = Target(p).params
  PROVE  IInv'
<1> DEFINE l == layer[p]
           built == BuildService(l, Settings(p))
           exit == ServiceExit(l)
<1>1. /\ service' = [service EXCEPT ![p][l] = built] /\ stack' = [stack EXCEPT ![p] = Append(@, exit)]
      /\ UNCHANGED <<open, cause>>
  BY DEF Publish
<1>2. /\ l \in Layers /\ SettingsValid(Settings(p)) /\ app[p] = "production"
      /\ Depth(p) = IF l = "regulatory" THEN 2 ELSE 5
  BY DEF IInv, LifespanType, Good, DepthFits, Layers
<1>3. built \in Services /\ built # None
  BY <1>2, Deployed DEF Settings
<1>4. exit \in Exits
  BY <1>2, ExitKinds
<1>5. /\ \A k \in Layers : service'[p][k] = IF k = l THEN built ELSE service[p][k]
      /\ \A q \in Process \ {p} : service'[q] = service[q]
      /\ service' \in [Process -> [Layers -> Services \union {None}]]
  <2> HIDE DEF built, l
  <2> QED BY <1>1, <1>2, <1>3 DEF IInv, LifespanType
<1>6. stack[p] \in Seq(Exits) /\ stack'[p] = Append(stack[p], exit) /\ \A q \in Process \ {p} : stack'[q] = stack[q]
  BY <1>1 DEF IInv, LifespanType
<1>7. /\ stack'[p] \in Seq(Exits) /\ Depth(p)' = Depth(p) + 1 /\ stack'[p][Depth(p) + 1] = exit
      /\ \A i \in 1 .. Depth(p) : stack'[p][i] = stack[p][i]
  <2> HIDE DEF exit
  <2> QED BY <1>4, <1>6 DEF Depth
<1>8. stack' \in [Process -> Seq(Exits)]
  BY <1>1, <1>6, <1>7 DEF IInv, LifespanType
<1>9. /\ pc' \in [Process -> Where] /\ layer' \in [Process -> Layers]
      /\ \A q \in Process \ {p} : pc'[q] = pc[q] /\ layer'[q] = layer[q]
      /\ l = "regulatory" => pc'[p] = "entering" /\ layer'[p] = "index"
      /\ l = "index" => pc'[p] = "serving" /\ layer'[p] = "index"
  BY <1>2 DEF Publish, AfterPublish, IInv, LifespanType, Where, Layers
<1>10. LifespanType'
  BY <1>1, <1>5, <1>8, <1>9 DEF IInv, LifespanType
<1>11. /\ \A i \in 1 .. Depth(p) : stack[p][i] = ExitAt(i)
       /\ open[p] = OpenAt(Depth(p))
       /\ service[p]["regulatory"] # None <=> Depth(p) >= 3
       /\ service[p]["index"] # None <=> Depth(p) = 6
  BY DEF IInv, Good, StackCovers
<1>12. exit = ExitAt(Depth(p) + 1) /\ OpenAt(Depth(p) + 1) = OpenAt(Depth(p))
  BY <1>2, ExitTable, OpenTable DEF Layers
<1>13. StackCovers(p)'
  <2>1. \A i \in 1 .. Depth(p)' : stack'[p][i] = ExitAt(i)
    <3> HIDE DEF exit
    <3> QED BY <1>2, <1>7, <1>11, <1>12
  <2>2. open'[p] = OpenAt(Depth(p)')
    BY <1>1, <1>7, <1>11, <1>12
  <2>3. Depth(p)' <= 6
    BY <1>2, <1>7
  <2>4. /\ service'[p]["regulatory"] # None <=> Depth(p)' >= 3
        /\ service'[p]["index"] # None <=> Depth(p)' = 6
    <3>1. CASE l = "regulatory"
      BY <1>2, <1>3, <1>5, <1>7, <1>11, <3>1 DEF Layers
    <3>2. CASE l = "index"
      BY <1>2, <1>3, <1>5, <1>7, <1>11, <3>2 DEF Layers
    <3> QED BY <1>2, <3>1, <3>2 DEF Layers
  <2> QED BY <2>1, <2>2, <2>3, <2>4 DEF StackCovers
<1>14. DepthFits(p)'
  BY <1>2, <1>7, <1>9 DEF DepthFits, Ended, Layers
<1>15. ServicesAreBuilt(p)'
  <2>0. ServicesAreBuilt(p)
    BY DEF IInv, Good
  <2>1. ASSUME NEW k \in Layers, service'[p][k] # None
        PROVE  LET settings == LoadedSettings(env[p], k)
                   target == ConfiguredCollection(settings, k)
               IN  /\ SettingsValid(settings) /\ service'[p][k] = BuildService(k, settings)
                   /\ store'[target.name] = target.params
    <3>1. CASE k = l
      BY <1>2, <1>5, <3>1 DEF Settings, Target
    <3>2. CASE k # l
      <4>1. service[p][k] # None /\ service'[p][k] = service[p][k]
        BY <1>5, <2>1, <3>2
      <4>2. SettingsValid(LoadedSettings(env[p], k))
        BY <2>0, <4>1 DEF ServicesAreBuilt
      <4> QED BY <2>0, <4>1, <4>2, Deployed DEF ServicesAreBuilt, Kept
    <3> QED BY <3>1, <3>2
  <2> QED BY <2>0, <2>1 DEF ServicesAreBuilt
<1>16. RequestsAreServed(p)'
  BY DEF IInv, Good, RequestsAreServed
<1>17. Good(p)'
  BY <1>13, <1>14, <1>15, <1>16 DEF Good
<1> QED BY <1>1, <1>5, <1>6, <1>9, <1>10, <1>17, StepOf

(* A collection that is missing or differs unwinds what was entered.        *)
LEMMA VerifyKeeps ==
  ASSUME IInv, NEW p \in Process, Verify(p)
  PROVE  IInv'
<1>1. pc[p] = "verify" /\ UNCHANGED <<app, env, store, delayed, inflight, refused>>
  BY DEF Verify
<1>2. CASE Fault /\ Abort(p, "unavailable")
  BY <1>1, <1>2, FaultType, AbortKeeps DEF Causes
<1>3. CASE UNCHANGED faults /\ Abort(p, "unavailable")
  BY <1>1, <1>3, AbortKeeps DEF Causes, IInv, LifespanType
<1>4. CASE Compatible(store[Target(p).name], Target(p).params) /\ Publish(p) /\ UNCHANGED faults
  <2>1. store'[Target(p).name] = Target(p).params
    BY <1>1, <1>4 DEF Compatible
  <2>2. Kept /\ DOMAIN store' = Names
    BY <1>1 DEF Kept, IInv, LifespanType
  <2> QED BY <1>1, <1>4, <2>1, <2>2, PublishKeeps
<1> QED BY <1>2, <1>3, <1>4 DEF Verify

(* So does a creation that fails, applied by the server or not.             *)
LEMMA CreateKeeps ==
  ASSUME IInv, NEW p \in Process, Create(p)
  PROVE  IInv'
<1>1. pc[p] = "create" /\ UNCHANGED <<app, env, inflight, refused>>
  BY DEF Create
<1>2. CASE Fault /\ Abort(p, "unavailable") /\ UNCHANGED store
  BY <1>1, <1>2, FaultType, AbortKeeps DEF Causes
<1>3. CASE UNCHANGED <<store, faults>> /\ Abort(p, "unavailable")
  BY <1>1, <1>3, AbortKeeps DEF Causes, IInv, LifespanType
<1>4. CASE /\ store[Target(p).name] = Absent /\ Publish(p) /\ UNCHANGED faults
           /\ store' = [store EXCEPT ![Target(p).name] = Target(p).params]
  <2>1. Target(p).name \in Names
    <3>1. layer[p] \in Layers /\ SettingsValid(Settings(p))
      BY <1>1 DEF IInv, LifespanType, Good, DepthFits
    <3> QED BY <3>1, Deployed DEF Settings, Target
  <2>2. store'[Target(p).name] = Target(p).params /\ DOMAIN store' = Names /\ Kept
    BY <1>4, <2>1 DEF Kept, IInv, LifespanType
  <2> QED BY <1>1, <1>4, <2>2, PublishKeeps
<1> QED BY <1>2, <1>3, <1>4 DEF Create

(* A late creation fills a gap; it replaces nothing.                        *)
LEMMA ApplyDelayedKeeps ==
  ASSUME IInv, NEW c \in delayed, ApplyDelayed(c)
  PROVE  IInv'
<1>1. Kept /\ DOMAIN store' = Names
  BY DEF ApplyDelayed, Kept, IInv, LifespanType
<1>2. \A q \in Process : Good(q)'
  BY <1>1, Undisturbed DEF ApplyDelayed
<1> QED BY <1>1, <1>2 DEF IInv, LifespanType, ApplyDelayed

(* Requests come and go while the stack stays as it is.                     *)
LEMMA RequestStep ==
  ASSUME IInv, NEW p \in Process,
         UNCHANGED <<app, env, store, pc, layer, stack, open, service, cause, faults>>,
         inflight' \in [Process -> [Layers -> 0 .. MaxInFlight]], refused' \in [Process -> BOOLEAN],
         \A q \in Process \ {p} : inflight'[q] = inflight[q] /\ refused'[q] = refused[q],
         RequestsAreServed(p)'
  PROVE  IInv'
<1>1. LifespanType'
  BY DEF IInv, LifespanType
<1>2. StackCovers(p)' /\ DepthFits(p)'
  BY DEF IInv, Good, StackCovers, DepthFits, Depth, Settings
<1>3. Kept
  BY DEF Kept
<1>4. Good(p)'
  BY <1>2, <1>3, SameServices DEF Good
<1> QED BY <1>1, <1>3, <1>4, StepOf

(* A request is accepted while its layer is served.                         *)
LEMMA ReceiveKeeps ==
  ASSUME IInv, NEW p \in Process, NEW l \in Layers, Receive(p, l)
  PROVE  IInv'
<1>1. /\ pc[p] = "serving" /\ inflight[p][l] < MaxInFlight
      /\ UNCHANGED <<app, env, store, delayed, pc, layer, stack, open, service, cause, faults>>
  BY DEF Receive
<1>2. GetService(p, l) = service[p][l]
  BY DEF GetService, GetRegulatoryService, GetIndexService, Layers
<1>3. CASE service[p][l] # None /\ inflight' = [inflight EXCEPT ![p][l] = @ + 1] /\ UNCHANGED refused
  <2>1. /\ inflight[p][l] \in 0 .. MaxInFlight /\ inflight[p][l] + 1 \in 0 .. MaxInFlight
    BY <1>1, LifespanAssumption DEF IInv, LifespanType
  <2>2. /\ inflight' \in [Process -> [Layers -> 0 .. MaxInFlight]]
        /\ \A q \in Process \ {p} : inflight'[q] = inflight[q]
        /\ \A k \in Layers : k # l => inflight'[p][k] = inflight[p][k]
    BY <1>3, <2>1 DEF IInv, LifespanType
  <2>3. RequestsAreServed(p)'
    BY <1>1, <1>3, <2>2 DEF IInv, Good, RequestsAreServed
  <2> QED BY <1>1, <1>3, <2>2, <2>3, RequestStep DEF IInv, LifespanType
<1>4. CASE service[p][l] = None /\ refused' = [refused EXCEPT ![p] = TRUE] /\ UNCHANGED inflight
  <2>1. app[p] = "custom"
    <3>1. app[p] = "production" => Depth(p) = 6
      BY <1>1 DEF IInv, Good, DepthFits
    <3>2. Depth(p) = 6 => service[p]["regulatory"] # None /\ service[p]["index"] # None
      BY DEF IInv, Good, StackCovers
    <3> QED BY <1>4, <3>1, <3>2 DEF IInv, LifespanType, Layers
  <2>2. RequestsAreServed(p)'
    BY <1>1, <1>4, <2>1 DEF IInv, Good, RequestsAreServed
  <2>3. /\ refused' \in [Process -> BOOLEAN] /\ \A q \in Process \ {p} : refused'[q] = refused[q]
    BY <1>4 DEF IInv, LifespanType
  <2>4. inflight' \in [Process -> [Layers -> 0 .. MaxInFlight]]
    BY <1>4 DEF IInv, LifespanType
  <2> QED BY <1>1, <1>4, <2>2, <2>3, <2>4, RequestStep
<1> QED BY <1>2, <1>3, <1>4 DEF Receive

(* An answered request leaves the process as it was.                        *)
LEMMA RespondKeeps ==
  ASSUME IInv, NEW p \in Process, NEW l \in Layers, Respond(p, l)
  PROVE  IInv'
<1>1. /\ inflight[p][l] > 0 /\ inflight' = [inflight EXCEPT ![p][l] = @ - 1]
      /\ UNCHANGED <<app, env, store, pc, layer, stack, open, service, cause, refused, faults>>
  BY DEF Respond
<1>2. inflight[p][l] \in 0 .. MaxInFlight /\ inflight[p][l] - 1 \in 0 .. MaxInFlight
  BY <1>1, LifespanAssumption DEF IInv, LifespanType
<1>3. /\ inflight' \in [Process -> [Layers -> 0 .. MaxInFlight]]
      /\ \A q \in Process \ {p} : inflight'[q] = inflight[q]
      /\ \A k \in Layers : k # l => inflight'[p][k] = inflight[p][k]
  BY <1>1, <1>2 DEF IInv, LifespanType
<1>4. RequestsAreServed(p)'
  BY <1>1, <1>3 DEF IInv, Good, RequestsAreServed
<1>5. refused' \in [Process -> BOOLEAN]
  BY <1>1 DEF IInv, LifespanType
<1> QED BY <1>1, <1>3, <1>4, <1>5, RequestStep

(* The exit on top of the stack undoes what was done last.                  *)
LEMMA UnwindKeeps ==
  ASSUME IInv, NEW p \in Process, Unwind(p)
  PROVE  IInv'
<1> DEFINE n == Depth(p)
           top == ExitAt(n)
<1>1. /\ pc[p] = "unwinding" /\ stack[p] # <<>> /\ stack' = [stack EXCEPT ![p] = Front(@)]
      /\ Exit(p, Last(stack[p]))
      /\ UNCHANGED <<app, env, store, delayed, pc, layer, inflight, refused>>
  BY DEF Unwind
<1>2. stack[p] \in Seq(Exits) /\ n \in Nat /\ n # 0
  BY <1>1 DEF IInv, LifespanType, Depth
<1>3. /\ n <= 6 /\ \A i \in 1 .. n : stack[p][i] = ExitAt(i)
      /\ open[p] = OpenAt(n)
      /\ service[p]["regulatory"] # None <=> n >= 3
      /\ service[p]["index"] # None <=> n = 6
  BY DEF IInv, Good, StackCovers
<1>4. n \in 1 .. 6 /\ Last(stack[p]) = top
  <2>1. n \in 1 .. 6 /\ n \in 1 .. n
    BY <1>2, <1>3
  <2>2. Last(stack[p]) = stack[p][n]
    BY DEF Last, Depth
  <2> QED BY <1>3, <2>1, <2>2
<1>5. stack'[p] = SubSeq(stack[p], 1, n - 1) /\ \A q \in Process \ {p} : stack'[q] = stack[q]
  BY <1>1 DEF IInv, LifespanType, Front, Depth
<1>6. /\ stack'[p] \in Seq(Exits) /\ Depth(p)' = n - 1
      /\ \A i \in 1 .. (n - 1) : stack'[p][i] = stack[p][i]
  BY <1>2, <1>5 DEF Depth
<1>7. stack' \in [Process -> Seq(Exits)]
  BY <1>1, <1>6, <1>5 DEF IInv, LifespanType
<1>8. /\ open' \in [Process -> SUBSET Clients] /\ open'[p] = OpenAt(n - 1)
      /\ \A q \in Process \ {p} : open'[q] = open[q]
      /\ service' \in [Process -> [Layers -> Services \union {None}]]
      /\ \A q \in Process \ {p} : service'[q] = service[q]
      /\ service'[p]["regulatory"] # None <=> n - 1 >= 3
      /\ service'[p]["index"] # None <=> n - 1 = 6
      /\ \A l \in Layers : service'[p][l] \in {service[p][l], None}
  <2>1. CASE n \notin {3, 6}
    <3>1. top.kind # "service" /\ OpenAt(n - 1) = OpenAt(n) \ {top}
      BY <1>4, <2>1, TopExit
    <3>2. open' = [open EXCEPT ![p] = @ \ {top}] /\ UNCHANGED service
      BY <1>1, <1>4, <3>1 DEF Exit
    <3>3. /\ open' \in [Process -> SUBSET Clients] /\ open'[p] = open[p] \ {top}
          /\ \A q \in Process \ {p} : open'[q] = open[q]
      <4> HIDE DEF top
      <4> QED BY <3>2 DEF IInv, LifespanType
    <3> QED BY <1>3, <1>4, <2>1, <3>1, <3>2, <3>3 DEF IInv, LifespanType
  <2>2. ASSUME NEW l \in Layers, top = ServiceExit(l), OpenAt(n - 1) = OpenAt(n),
               (l = "regulatory" /\ n = 3) \/ (l = "index" /\ n = 6)
        PROVE  <1>8!:
    <3>1. service' = [service EXCEPT ![p][l] = None] /\ UNCHANGED open
      <4>1. top.kind = "service" /\ top.layer = l
        BY <2>2 DEF ServiceExit
      <4> QED BY <1>1, <1>4, <4>1 DEF Exit
    <3>2. /\ service' \in [Process -> [Layers -> Services \union {None}]]
          /\ \A q \in Process \ {p} : service'[q] = service[q]
          /\ \A k \in Layers : service'[p][k] = IF k = l THEN None ELSE service[p][k]
      BY <3>1 DEF IInv, LifespanType
    <3>3. "regulatory" \in Layers /\ "index" \in Layers
      BY DEF Layers
    <3>4. /\ service'[p]["regulatory"] # None <=> n - 1 >= 3
          /\ service'[p]["index"] # None <=> n - 1 = 6
      BY <1>3, <1>4, <2>2, <3>2, <3>3
    <3> QED BY <1>3, <2>2, <3>1, <3>2, <3>4 DEF IInv, LifespanType
  <2>3. CASE n = 3
    <3>1. top = ServiceExit("regulatory") /\ OpenAt(n - 1) = OpenAt(n) /\ "regulatory" \in Layers
      BY <1>4, <2>3, TopExit DEF Layers
    <3> HIDE DEF n, top
    <3> QED BY <2>2, <2>3, <3>1
  <2>4. CASE n = 6
    <3>1. top = ServiceExit("index") /\ OpenAt(n - 1) = OpenAt(n) /\ "index" \in Layers
      BY <1>4, <2>4, TopExit DEF Layers
    <3> HIDE DEF n, top
    <3> QED BY <2>2, <2>4, <3>1
  <2> QED BY <2>1, <2>3, <2>4
<1>9. cause' \in [Process -> Causes] /\ faults' \in 0 .. MaxFaults
  <2>1. CASE UNCHANGED <<cause, faults>>
    BY <2>1 DEF IInv, LifespanType
  <2>2. CASE Fault /\ cause' = [cause EXCEPT ![p] = "close"]
    BY <2>2, FaultType DEF IInv, LifespanType, Causes
  <2> QED BY <2>1, <2>2 DEF Unwind
<1>10. LifespanType'
  BY <1>1, <1>7, <1>8, <1>9 DEF IInv, LifespanType
<1>11. StackCovers(p)'
  BY <1>3, <1>4, <1>6, <1>8 DEF StackCovers
<1>12. DepthFits(p)'
  BY <1>1 DEF DepthFits, Ended
<1>13. ServicesAreBuilt(p)'
  BY <1>1, <1>8 DEF IInv, Good, ServicesAreBuilt
<1>14. RequestsAreServed(p)'
  BY <1>1 DEF IInv, Good, RequestsAreServed
<1>15. Kept
  BY <1>1 DEF Kept
<1> QED BY <1>1, <1>5, <1>8, <1>10, <1>11, <1>12, <1>13, <1>14, <1>15, StepOf DEF Good

(* A crash takes the stack, the clients and the requests together.          *)
LEMMA CrashKeeps ==
  ASSUME IInv, NEW p \in Process, Crash(p)
  PROVE  IInv'
<1>1. /\ pc' = [pc EXCEPT ![p] = "down"] /\ stack' = [stack EXCEPT ![p] = <<>>]
      /\ open' = [open EXCEPT ![p] = {}] /\ service' = [service EXCEPT ![p] = NoService]
      /\ inflight' = [inflight EXCEPT ![p] = NoRequest] /\ Fault
      /\ UNCHANGED <<app, env, store, delayed, layer, cause, refused>>
  BY DEF Crash
<1>2. /\ pc'[p] = "down" /\ stack'[p] = <<>> /\ open'[p] = {} /\ service'[p] = NoService
      /\ inflight'[p] = NoRequest
      /\ \A q \in Process \ {p} : /\ pc'[q] = pc[q] /\ stack'[q] = stack[q] /\ open'[q] = open[q]
                                  /\ service'[q] = service[q] /\ inflight'[q] = inflight[q]
  BY <1>1 DEF IInv, LifespanType
<1>3. NoService \in [Layers -> Services \union {None}] /\ NoRequest \in [Layers -> 0 .. MaxInFlight]
  BY LifespanAssumption DEF NoService, NoRequest
<1>4. LifespanType'
  <2>1. pc' \in [Process -> Where] /\ stack' \in [Process -> Seq(Exits)] /\ open' \in [Process -> SUBSET Clients]
    BY <1>1 DEF IInv, LifespanType, Where, Ended
  <2>2. /\ service' \in [Process -> [Layers -> Services \union {None}]]
        /\ inflight' \in [Process -> [Layers -> 0 .. MaxInFlight]]
    BY <1>1, <1>3 DEF IInv, LifespanType
  <2> QED BY <1>1, <2>1, <2>2, FaultType DEF IInv, LifespanType
<1>5. Depth(p)' = 0
  BY <1>2 DEF Depth
<1>6. StackCovers(p)'
  BY <1>2, <1>5, OpenTable DEF StackCovers, NoService, Layers
<1>7. DepthFits(p)'
  BY <1>2, <1>5 DEF DepthFits, Ended
<1>8. ServicesAreBuilt(p)'
  BY <1>1, <1>2 DEF IInv, Good, ServicesAreBuilt, NoService
<1>9. RequestsAreServed(p)'
  BY <1>1, <1>2 DEF IInv, Good, RequestsAreServed, NoRequest
<1>10. Kept
  BY <1>1 DEF Kept
<1> QED BY <1>1, <1>2, <1>4, <1>6, <1>7, <1>8, <1>9, <1>10, StepOf DEF Good

(* Every step of every process keeps the invariant.                         *)
LEMMA NextKeeps ==
  ASSUME IInv, [Next]_vars
  PROVE  IInv'
<1>1. CASE UNCHANGED vars
  <2>1. Kept
    BY <1>1 DEF vars, Kept
  <2>2. \A q \in Process : Good(q)'
    BY <1>1, <2>1, Undisturbed DEF vars
  <2> QED BY <1>1, <2>2 DEF IInv, LifespanType, vars
<1>2. ASSUME NEW p \in Process, Start(p) \/ EnterLayer(p) \/ Verify(p) \/ Probe(p) \/ Create(p)
      PROVE  IInv'
  BY <1>2, StartKeeps, EnterLayerKeeps, VerifyKeeps, ProbeKeeps, CreateKeeps
<1>3. ASSUME NEW p \in Process, Signal(p) \/ Drained(p) \/ Unwind(p) \/ Unwound(p) \/ Crash(p)
      PROVE  IInv'
  BY <1>3, SignalKeeps, DrainedKeeps, UnwindKeeps, UnwoundKeeps, CrashKeeps
<1>4. ASSUME NEW p \in Process, NEW l \in Layers, Receive(p, l) \/ Respond(p, l)
      PROVE  IInv'
  BY <1>4, ReceiveKeeps, RespondKeeps
<1> QED BY <1>1, <1>2, <1>3, <1>4, ApplyDelayedKeeps DEF Next

(* The exit stack of every process covers what it opened and published,     *)
(* through start-up, requests, shutdown, failures and crashes.              *)
THEOREM InvariantHolds == Spec => []IInv
BY Initially, NextKeeps, PTL DEF Spec

(* The variables have their types.                                          *)
THEOREM TypeCorrect == Spec => []TypeOK
<1>1. IInv => TypeOK
  <2> SUFFICES ASSUME IInv PROVE TypeOK
    OBVIOUS
  <2>1. ASSUME NEW p \in Process
        PROVE  /\ open[p] \subseteq Clients /\ ToSet(stack[p]) \subseteq Clients \union {ServiceExit(l) : l \in Layers}
               /\ DOMAIN service[p] = Layers /\ inflight[p] \in [Layers -> 0 .. MaxInFlight]
    <3>1. stack[p] \in Seq(Exits)
      BY DEF IInv, LifespanType
    <3>2. \A i \in DOMAIN stack[p] : stack[p][i] \in Exits
      BY <3>1
    <3>3. ToSet(stack[p]) \subseteq Exits
      BY <3>2 DEF ToSet
    <3> QED BY <3>3 DEF Exits, IInv, LifespanType
  <2> QED BY <2>1 DEF IInv, LifespanType, TypeOK, Where, Causes
<1> QED BY <1>1, InvariantHolds, PTL

(* When a process has ended, after a failed start-up or a shutdown, its stack *)
(* is empty, and so are its clients and services.                           *)
THEOREM NothingIsLeftOpen == Spec => []NothingLeaks
<1>1. IInv => NothingLeaks
  <2> SUFFICES ASSUME IInv, NEW p \in Process, pc[p] \in Ended
               PROVE  open[p] = {} /\ service[p] = NoService
    BY DEF NothingLeaks
  <2>1. Depth(p) = 0
    BY DEF IInv, Good, DepthFits
  <2>2. open[p] = {} /\ service[p]["regulatory"] = None /\ service[p]["index"] = None
    BY <2>1, OpenTable DEF IInv, Good, StackCovers
  <2>3. service[p] \in [Layers -> Services \union {None}]
    BY DEF IInv, LifespanType
  <2> QED BY <2>2, <2>3 DEF NoService, Layers
<1> QED BY <1>1, InvariantHolds, PTL

-----------------------------------------------------------------------------
(* What the builders make of settings that load.                            *)

(* A service is built from the clients and the collection of its own layer. *)
LEMMA WiredToOwnClients ==
  ASSUME NEW e, NEW l \in Layers
  PROVE  LET s == BuildService(l, LoadedSettings(e, l))
             target == ConfiguredCollection(LoadedSettings(e, l), l)
         IN  /\ s.embedding.client = Client("openai", l) /\ s.vectors.client = Client("qdrant", l)
             /\ s.vectors.collection = target.name /\ s.vectors.size = target.params.size
<1>1. CASE l = "regulatory"
  BY <1>1 DEF BuildService, BuildRegulatoryConfiguredRuntime, BuildRegulatoryProviderRuntime,
     BuildRegulatoryQueryExecution, ConfiguredCollection, ConfiguredRegulatoryCollection,
     CreateOpenAIClient, CreateQdrantClient, Client
<1>2. CASE l = "index"
  BY <1>2 DEF BuildService, BuildDocumentVectorIndexConfiguredRuntime, BuildDocumentVectorIndexProviderRuntime,
     BuildDocumentVectorIndexExecution, ConfiguredCollection, ConfiguredIndexCollection,
     CreateOpenAIClient, CreateQdrantClient, Client
<1> QED BY <1>1, <1>2 DEF Layers

(* Valid settings of the regulatory layer come from its own variables.      *)
LEMMA RegulatoryWiring ==
  ASSUME NEW e, SettingsValid(LoadedSettings(e, "regulatory"))
  PROVE  LET s == BuildService("regulatory", LoadedSettings(e, "regulatory"))
         IN  /\ s.embedding.model = e.query_embedding_model
             /\ s.inference.model = e.constraint_inference_model
             /\ s.vectors.collection = e.regulatory_collection_name
             /\ s.vectors.size = e.regulatory_vector_size
<1>1. LoadRegulatoryIntelligenceRuntimeSettings(e) # Invalid
  BY DEF SettingsValid, LoadedSettings, LoadedRegulatorySettings
<1>2. LoadRegulatoryIntelligenceRuntimeSettings(e) =
        [query_embedding_model      |-> e.query_embedding_model,
         constraint_inference_model |-> e.constraint_inference_model,
         qdrant_collection_name     |-> e.regulatory_collection_name,
         qdrant_vector_size         |-> e.regulatory_vector_size]
  BY <1>1 DEF LoadRegulatoryIntelligenceRuntimeSettings
<1>3. LoadedSettings(e, "regulatory").runtime = LoadRegulatoryIntelligenceRuntimeSettings(e)
  BY DEF LoadedSettings, LoadedRegulatorySettings
<1> QED BY <1>2, <1>3 DEF BuildService, BuildRegulatoryConfiguredRuntime, BuildRegulatoryProviderRuntime,
     BuildRegulatoryQueryExecution

(* So do those of the index layer.                                          *)
LEMMA IndexWiring ==
  ASSUME NEW e, SettingsValid(LoadedSettings(e, "index"))
  PROVE  LET s == BuildService("index", LoadedSettings(e, "index"))
         IN  /\ s.embedding.model = e.document_embedding_model
             /\ s.vectors.collection = e.index_collection_name
             /\ s.vectors.size = e.index_vector_size
<1>1. LoadDocumentVectorIndexRuntimeSettings(e) # Invalid
  BY DEF SettingsValid, LoadedSettings, LoadedIndexSettings
<1>2. LoadDocumentVectorIndexRuntimeSettings(e) =
        [document_embedding_model |-> e.document_embedding_model,
         qdrant_collection_name   |-> e.index_collection_name,
         qdrant_vector_size       |-> e.index_vector_size]
  BY <1>1 DEF LoadDocumentVectorIndexRuntimeSettings
<1>3. LoadedSettings(e, "index").runtime = LoadDocumentVectorIndexRuntimeSettings(e)
  BY DEF LoadedSettings, LoadedIndexSettings
<1> QED BY <1>2, <1>3 DEF BuildService, BuildDocumentVectorIndexConfiguredRuntime,
     BuildDocumentVectorIndexProviderRuntime, BuildDocumentVectorIndexExecution

(* The distance of a collection is the configured one.                      *)
LEMMA DistanceIsConfigured ==
  ASSUME NEW e, NEW l \in Layers, SettingsValid(LoadedSettings(e, l))
  PROVE  ConfiguredCollection(LoadedSettings(e, l), l).params.distance = QdrantDistance[e.document_vector_distance]
<1>1. LoadedSettings(e, l).distance = LoadQdrantDocumentVectorDistanceSettings(e)
  BY DEF LoadedSettings, LoadedRegulatorySettings, LoadedIndexSettings
<1>2. LoadQdrantDocumentVectorDistanceSettings(e) # Invalid
  BY <1>1 DEF SettingsValid
<1>3. LoadQdrantDocumentVectorDistanceSettings(e) = [document_vector_distance |-> e.document_vector_distance]
  BY <1>2 DEF LoadQdrantDocumentVectorDistanceSettings
<1> QED BY <1>1, <1>3 DEF ConfiguredCollection, ConfiguredRegulatoryCollection, ConfiguredIndexCollection

(* A published service finds its collection as it was configured, whoever   *)
(* made it and however the processes' probes and creates interleaved.       *)
THEOREM ServicesAreCompatible == Spec => []ServingIsCompatible
<1>1. IInv => ServingIsCompatible
  <2> SUFFICES ASSUME IInv, NEW p \in Process, NEW l \in Layers, service[p][l] # None
               PROVE  LET found == store[service[p][l].vectors.collection] IN
                        /\ found \notin {Absent, NamedVectors}
                        /\ found.size = service[p][l].vectors.size
                        /\ found.distance = QdrantDistance[env[p].document_vector_distance]
    BY DEF ServingIsCompatible
  <2> DEFINE target == ConfiguredCollection(LoadedSettings(env[p], l), l)
  <2>1. /\ SettingsValid(LoadedSettings(env[p], l)) /\ store[target.name] = target.params
        /\ service[p][l] = BuildService(l, LoadedSettings(env[p], l))
    BY DEF IInv, Good, ServicesAreBuilt
  <2>2. service[p][l].vectors.collection = target.name /\ service[p][l].vectors.size = target.params.size
    BY <2>1, WiredToOwnClients
  <2>3. target.params \notin {Absent, NamedVectors}
    BY <2>1, Deployed
  <2>4. target.params.distance = QdrantDistance[env[p].document_vector_distance]
    BY <2>1, DistanceIsConfigured
  <2> HIDE DEF target
  <2> QED BY <2>1, <2>2, <2>3, <2>4
<1> QED BY <1>1, InvariantHolds, PTL

(* No model, collection name or dimension is crossed between the layers.    *)
THEOREM ServicesUseTheirOwnSettings == Spec => []ServiceUsesItsOwnSettings
<1>1. IInv => ServiceUsesItsOwnSettings
  <2> SUFFICES ASSUME IInv, NEW p \in Process
               PROVE  LET regulatory == service[p]["regulatory"]  index == service[p]["index"] IN
                        /\ regulatory # None =>
                             /\ regulatory.embedding.model = env[p].query_embedding_model
                             /\ regulatory.inference.model = env[p].constraint_inference_model
                             /\ regulatory.vectors.collection = env[p].regulatory_collection_name
                             /\ regulatory.vectors.size = env[p].regulatory_vector_size
                        /\ index # None =>
                             /\ index.embedding.model = env[p].document_embedding_model
                             /\ index.vectors.collection = env[p].index_collection_name
                             /\ index.vectors.size = env[p].index_vector_size
    BY DEF ServiceUsesItsOwnSettings
  <2>1. \A l \in {"regulatory", "index"} : service[p][l] # None =>
          /\ SettingsValid(LoadedSettings(env[p], l))
          /\ service[p][l] = BuildService(l, LoadedSettings(env[p], l))
    BY DEF IInv, Good, ServicesAreBuilt, Layers
  <2> QED BY <2>1, RegulatoryWiring, IndexWiring
<1> QED BY <1>1, InvariantHolds, PTL

(* A service that can be found, or is in use, has its clients open; and no  *)
(* production process refuses a request for want of a service.              *)
THEOREM ServicesHaveOpenClients == Spec => []ServiceUsesOpenClients
<1>1. IInv => ServiceUsesOpenClients
  <2> SUFFICES ASSUME IInv, NEW p \in Process
               PROVE  /\ refused[p] => app[p] = "custom"
                      /\ \A l \in Layers :
                           service[p][l] # None \/ inflight[p][l] > 0 =>
                             {service[p][l].embedding.client, service[p][l].vectors.client} \subseteq open[p]
    BY DEF ServiceUsesOpenClients
  <2>1. /\ refused[p] => app[p] = "custom"
        /\ \A l \in Layers : inflight[p][l] > 0 => service[p][l] # None
    BY DEF IInv, Good, RequestsAreServed
  <2>2. ASSUME NEW l \in Layers, service[p][l] # None
        PROVE  {service[p][l].embedding.client, service[p][l].vectors.client} \subseteq open[p]
    <3>1. /\ service[p][l].embedding.client = Client("openai", l)
          /\ service[p][l].vectors.client = Client("qdrant", l)
      BY <2>2, WiredToOwnClients DEF IInv, Good, ServicesAreBuilt
    <3>2. /\ Depth(p) \in 0 .. 6 /\ open[p] = OpenAt(Depth(p))
          /\ l = "regulatory" => Depth(p) >= 3
          /\ l = "index" => Depth(p) = 6
      <4>1. stack[p] \in Seq(Exits)
        BY DEF IInv, LifespanType
      <4>2. Depth(p) \in Nat
        BY <4>1 DEF Depth
      <4> QED BY <2>2, <4>2 DEF IInv, Good, StackCovers
    <3>3. CASE l = "regulatory"
      <4>1. Depth(p) \in {3, 4, 5, 6}
        BY <3>2, <3>3
      <4> QED BY <3>1, <3>2, <3>3, <4>1, ExitTable, OpenTable
    <3>4. CASE l = "index"
      BY <3>1, <3>2, <3>4, ExitTable, OpenTable
    <3> QED BY <3>3, <3>4 DEF Layers
  <2> QED BY <2>1, <2>2
<1> QED BY <1>1, InvariantHolds, PTL

------------------------------------------------------------------------------
(* The HTTP boundary and the cache.                                       *)

Entered == {"route", "logging", "leaving"}    \* the ContextVar is bound
Logged == {"leaving", "escaped", "done"}

\* A context belongs to the one request of its task that is being served, and is
\* empty otherwise: no request sees, or leaves behind, the id of another.
ContextsAreOwned ==
  /\ \A q, r \in Requests :
       stage[q] \notin {"new", "done"} /\ stage[r] \notin {"new", "done"} /\ Task[q] = Task[r] => q = r
  /\ \A r \in Requests : /\ stage[r] \in Entered => context[Task[r]] = scope[r]
                         /\ saved[r] = Nil
  /\ \A t \in Tasks : (\A r \in Requests : Task[r] = t => stage[r] \notin Entered) => context[t] = Nil

\* The id of a request is the client's or a generated one.
IdsAreResolved ==
  \A r \in Requests :
    /\ stage[r] = "new" <=> scope[r] = Nil
    /\ stage[r] # "new" => IF header[r] \in Valid THEN scope[r] = header[r] ELSE scope[r] \in Uuids

\* What was sent so far carries that id.
ResponsesAreOwn ==
  \A r \in Requests :
    response[r] # Nil =>
      stage[r] # "new" /\ response[r].header = scope[r] /\ response[r].body \in {Nil, scope[r]}

\* The status of a finished request, as the logging middleware sees it.
StatusOf(r) ==
  IF outcome[r] = "exception" \/ response[r] = Nil THEN 500 ELSE response[r].status

\* The completion record of a request is written on its way out, and only there.
RecordsAreWritten ==
  \A r \in Requests :
    completions[r] = IF stage[r] \in Logged THEN <<[status |-> StatusOf(r), id |-> scope[r]]>> ELSE <<>>

\* A route that neither raised nor was cancelled has sent its response.
RoutesAnswer ==
  \A r \in Requests :
    /\ stage[r] \in {"logging", "leaving", "done"} /\ response[r] = Nil =>
         outcome[r] = "cancelled" \/ (stage[r] # "done" /\ outcome[r] = "exception")
    /\ stage[r] = "escaped" => outcome[r] = "exception"

HttpType ==
  /\ stage \in [Requests -> {"new", "route", "logging", "leaving", "escaped", "done"}]
  /\ outcome \in [Requests -> Outcomes \union {"none"}]
  /\ generated \in Nat
  /\ header \in [Requests -> Headers \union {Nil}]
  /\ scope \in [Requests -> Ids] /\ saved \in [Requests -> Ids] /\ context \in [Tasks -> Ids]
  /\ response \in [Requests -> Responses \union {Nil}]
  /\ completions \in [Requests -> Seq([status : Nat, id : Ids])]

HttpInv ==
  /\ HttpType /\ ContextsAreOwned /\ IdsAreResolved
  /\ ResponsesAreOwn /\ RecordsAreWritten /\ RoutesAnswer

-----------------------------------------------------------------------------
\* Nothing has arrived and no context is bound.
LEMMA HttpInitially == HttpInit => HttpInv
<1> SUFFICES ASSUME HttpInit PROVE HttpInv
  OBVIOUS
<1>1. HttpType
  BY DEF HttpInit, HttpType, Ids
<1>2. ContextsAreOwned /\ IdsAreResolved /\ ResponsesAreOwn
  BY DEF HttpInit, ContextsAreOwned, IdsAreResolved, ResponsesAreOwn, Entered, Tasks
<1>3. RecordsAreWritten /\ RoutesAnswer
  BY DEF HttpInit, RecordsAreWritten, RoutesAnswer, Logged
<1> QED BY <1>1, <1>2, <1>3 DEF HttpInv

\* The resolved id of an arriving request is the client's or a generated one, never nil.
LEMMA ResolvedId ==
  ASSUME NEW h \in Headers, generated \in Nat
  PROVE  /\ ResolveCorrelationId(h) \in Ids /\ ResolveCorrelationId(h) # Nil
         /\ IF h \in Valid THEN ResolveCorrelationId(h) = h ELSE ResolveCorrelationId(h) \in Uuids
<1>1. Uuid(generated) \in Uuids
  BY DEF Uuid, Uuids
<1>2. Uuid(generated) # Nil
  BY <1>1, BoundaryAssumption
<1>3. h \in Valid => h # Nil
  BY BoundaryAssumption
<1> QED BY <1>1, <1>2, <1>3 DEF ResolveCorrelationId, Ids

\* A request arrives in an idle task, whose context is empty, and binds it.
LEMMA ArriveKeeps ==
  ASSUME HttpInv, NEW r \in Requests, Arrive(r)
  PROVE  HttpInv'
<1> USE DEF HttpInv
<1>1. PICK h \in Headers :
        /\ stage[r] = "new" /\ Idle(Task[r])
        /\ stage' = [stage EXCEPT ![r] = "route"]
        /\ header' = [header EXCEPT ![r] = h]
        /\ scope' = [scope EXCEPT ![r] = ResolveCorrelationId(h)]
        /\ saved' = [saved EXCEPT ![r] = context[Task[r]]]
        /\ context' = [context EXCEPT ![Task[r]] = ResolveCorrelationId(h)]
        /\ generated' = generated + (IF h \in Valid THEN 0 ELSE 1)
        /\ UNCHANGED <<response, outcome, completions>>
  BY DEF Arrive
<1> DEFINE id == ResolveCorrelationId(h)
<1>2. /\ id \in Ids /\ id # Nil
      /\ IF h \in Valid THEN id = h ELSE id \in Uuids
  BY ResolvedId DEF HttpType
<1> HIDE DEF id
<1>3. Task[r] \in Tasks /\ context[Task[r]] = Nil
  <2>1. \A q \in Requests : Task[q] = Task[r] => stage[q] \notin Entered
    BY <1>1 DEF Idle, Entered
  <2> QED BY <2>1 DEF ContextsAreOwned, Tasks
<1>4. \A q \in Requests : /\ stage'[q] = IF q = r THEN "route" ELSE stage[q]
                          /\ header'[q] = IF q = r THEN h ELSE header[q]
                          /\ scope'[q] = IF q = r THEN id ELSE scope[q]
                          /\ saved'[q] = IF q = r THEN Nil ELSE saved[q]
  BY <1>1, <1>3 DEF HttpType, id
<1>5. \A t \in Tasks : context'[t] = IF t = Task[r] THEN id ELSE context[t]
  BY <1>1 DEF HttpType, id
<1>6. HttpType'
  <2>1. generated' \in Nat
    BY <1>1 DEF HttpType
  <2>2. header' \in [Requests -> Headers \union {Nil}] /\ scope' \in [Requests -> Ids]
        /\ saved' \in [Requests -> Ids] /\ context' \in [Tasks -> Ids]
    BY <1>1, <1>2, <1>3 DEF HttpType, id, Ids
  <2> QED BY <1>1, <2>1, <2>2 DEF HttpType
<1>7. ContextsAreOwned'
  <2>1. \A q \in Requests \ {r} : Task[q] = Task[r] => stage[q] \in {"new", "done"}
    BY <1>1 DEF Idle
  <2>2. \A q \in Requests : stage'[q] \in Entered => context'[Task[q]] = scope'[q]
    BY <1>4, <1>5, <2>1 DEF ContextsAreOwned, Entered, Tasks
  <2>3. \A p, q \in Requests :
          stage'[p] \notin {"new", "done"} /\ stage'[q] \notin {"new", "done"} /\ Task[p] = Task[q] => p = q
    BY <1>4, <2>1 DEF ContextsAreOwned
  <2>4. \A t \in Tasks : (\A q \in Requests : Task[q] = t => stage'[q] \notin Entered) => context'[t] = Nil
    <3> SUFFICES ASSUME NEW t \in Tasks, \A q \in Requests : Task[q] = t => stage'[q] \notin Entered
                 PROVE  context'[t] = Nil
      OBVIOUS
    <3>1. t # Task[r]
      BY <1>4 DEF Entered
    <3>2. \A q \in Requests : Task[q] = t => stage[q] \notin Entered
      BY <1>4, <3>1
    <3> QED BY <1>5, <3>1, <3>2 DEF ContextsAreOwned
  <2> QED BY <1>4, <2>2, <2>3, <2>4 DEF ContextsAreOwned
<1>8. IdsAreResolved'
  BY <1>2, <1>4 DEF IdsAreResolved
<1>9. ResponsesAreOwn' /\ RoutesAnswer'
  BY <1>1, <1>4 DEF ResponsesAreOwn, RoutesAnswer
<1>10. RecordsAreWritten'
  <2>1. \A q \in Requests : (stage'[q] \in Logged <=> stage[q] \in Logged) /\ StatusOf(q)' = StatusOf(q)
    BY <1>1, <1>4 DEF StatusOf, Logged
  <2>2. \A q \in Requests : stage[q] \in Logged => scope'[q] = scope[q]
    BY <1>1, <1>4 DEF Logged
  <2> QED BY <1>1, <2>1, <2>2 DEF RecordsAreWritten
<1> QED BY <1>6, <1>7, <1>8, <1>9, <1>10

\* Steps of a request that leave ids and contexts alone and do not leave the scope.
LEMMA ScopeStays ==
  ASSUME HttpInv, NEW r \in Requests, NEW where, stage' = [stage EXCEPT ![r] = where],
         (stage[r] \in Entered /\ where \in Entered) \/ (stage[r] = "escaped" /\ where = "done"),
         UNCHANGED <<header, scope, context, saved, generated>>
  PROVE  ContextsAreOwned' /\ IdsAreResolved'
<1>1. \A q \in Requests : stage'[q] = IF q = r THEN where ELSE stage[q]
  BY DEF HttpInv, HttpType
<1>2. ContextsAreOwned'
  BY <1>1 DEF HttpInv, ContextsAreOwned, Entered
<1>3. IdsAreResolved'
  BY <1>1 DEF HttpInv, IdsAreResolved, Entered
<1> QED BY <1>2, <1>3

\* The status of a handled error is a number.
LEMMA StatusIsNumber ==
  ASSUME NEW end \in Outcomes \ {"ok", "cancelled", "exception"}
  PROVE  HandledStatus(end) \in Nat
<1>1. CASE end \in ApplicationErrors
  <2>1. HandledStatus(end) = ApplicationErrorStatus(end)
    BY <1>1 DEF HandledStatus, ApplicationErrors
  <2>2. MappedHttpStatus(end) \in {400, 404, 409, 503, Nil}
    <3>1. end = "invalid" => MappedHttpStatus(end) = 400
      BY DEF MappedHttpStatus
    <3>2. end = "not found" => MappedHttpStatus(end) = 404
      BY DEF MappedHttpStatus
    <3>3. end = "conflict" => MappedHttpStatus(end) = 409
      BY DEF MappedHttpStatus
    <3>4. end = "unavailable" => MappedHttpStatus(end) = 503
      BY DEF MappedHttpStatus
    <3>5. end = "unmapped" => MappedHttpStatus(end) = Nil
      BY DEF MappedHttpStatus
    <3> QED BY <1>1, <3>1, <3>2, <3>3, <3>4, <3>5 DEF ApplicationErrors
  <2> QED BY <2>1, <2>2 DEF ApplicationErrorStatus
<1>2. CASE end \in {"validation", "http"}
  <2>1. end = "validation" => HandledStatus(end) = 422
    BY DEF HandledStatus, ApplicationErrors
  <2>2. end = "http" => HandledStatus(end) = 404
    BY DEF HandledStatus, ApplicationErrors
  <2> QED BY <1>2, <2>1, <2>2
<1> QED BY <1>1, <1>2 DEF Outcomes

\* Inside the scope, and behind it too, a response is built with the request's own id:
\* the context is the request's own or empty, and then the ASGI scope has the id.
LEMMA OwnId ==
  ASSUME HttpInv, NEW r \in Requests, stage[r] \in Entered \union {"escaped"}
  PROVE  ResolveRequestCorrelationId(r) = scope[r] /\ scope[r] # Nil /\ scope[r] \in Ids
<1>1. scope[r] # Nil /\ scope[r] \in Ids /\ Task[r] \in Tasks
  BY DEF HttpInv, HttpType, IdsAreResolved, Entered, Tasks
<1>2. CASE stage[r] \in Entered
  BY <1>1, <1>2 DEF HttpInv, ContextsAreOwned, ResolveRequestCorrelationId
<1>3. CASE stage[r] = "escaped"
  <2>1. \A q \in Requests : Task[q] = Task[r] => stage[q] \notin Entered
    BY <1>3 DEF HttpInv, ContextsAreOwned, Entered
  <2>2. context[Task[r]] = Nil
    BY <1>1, <2>1 DEF HttpInv, ContextsAreOwned
  <2> QED BY <1>1, <2>2 DEF ResolveRequestCorrelationId
<1> QED BY <1>2, <1>3

\* What passes the correlation middleware is a response with the id of its request.
LEMMA SentIsOwn ==
  ASSUME HttpInv, NEW r \in Requests, stage[r] \in Entered, NEW status \in Nat,
         NEW body \in {Nil, scope[r]}, NEW any \in Ids
  PROVE  LET sent == SendWithCorrelation(r, [status |-> status, body |-> body, header |-> any])
         IN  /\ sent \in Responses /\ sent # Nil
             /\ sent.header = scope[r] /\ sent.body = body /\ sent.status = status
<1> DEFINE sent == SendWithCorrelation(r, [status |-> status, body |-> body, header |-> any])
<1>1. sent = [status |-> status, body |-> body, header |-> scope[r]]
  BY DEF SendWithCorrelation
<1>2. scope[r] \in Ids /\ body \in Ids
  BY OwnId DEF Ids
<1>3. sent \in Responses
  BY <1>1, <1>2 DEF Responses
<1> QED BY <1>1, <1>3, BoundaryAssumption

\* The route starts its response.
LEMMA StartResponseKeeps ==
  ASSUME HttpInv, NEW r \in Requests, StartResponse(r)
  PROVE  HttpInv'
<1> USE DEF HttpInv
<1>1. /\ stage[r] = "route" /\ UNCHANGED <<stage, header, scope, context, saved, outcome, completions, generated>>
      /\ response' = [response EXCEPT ![r] =
           SendWithCorrelation(r, [status |-> 200, body |-> Nil, header |-> Nil])]
  BY DEF StartResponse
<1> DEFINE sent == SendWithCorrelation(r, [status |-> 200, body |-> Nil, header |-> Nil])
<1>2. sent \in Responses /\ sent # Nil /\ sent.header = scope[r] /\ sent.body = Nil
  BY <1>1, SentIsOwn DEF Entered, Ids
<1> HIDE DEF sent
<1>3. response' = [response EXCEPT ![r] = sent]
  BY <1>1 DEF sent
<1>4. \A q \in Requests : response'[q] = IF q = r THEN sent ELSE response[q]
  BY <1>3 DEF HttpType
<1>5. HttpType'
  <2>1. response' \in [Requests -> Responses \union {Nil}]
    BY <1>2, <1>3 DEF HttpType
  <2> QED BY <1>1, <2>1 DEF HttpType
<1>6. ContextsAreOwned' /\ IdsAreResolved'
  BY <1>1 DEF ContextsAreOwned, IdsAreResolved
<1>7. ResponsesAreOwn' /\ RoutesAnswer'
  BY <1>1, <1>2, <1>4 DEF ResponsesAreOwn, RoutesAnswer
<1>8. RecordsAreWritten'
  <2>1. \A q \in Requests : stage[q] \in Logged => StatusOf(q)' = StatusOf(q)
    BY <1>1, <1>4 DEF StatusOf, Logged
  <2> QED BY <1>1, <2>1 DEF RecordsAreWritten
<1> QED BY <1>5, <1>6, <1>7, <1>8

\* The route ends: with what it sent, with an exception or a cancellation, or with a
\* handled error that is answered on the spot.
LEMMA EndRouteKeeps ==
  ASSUME HttpInv, NEW r \in Requests, NEW end \in Outcomes, EndRoute(r, end)
  PROVE  HttpInv'
<1> USE DEF HttpInv
<1>1. /\ stage[r] = "route" /\ (end = "ok" => response[r] # Nil) /\ stage' = [stage EXCEPT ![r] = "logging"]
      /\ UNCHANGED <<header, scope, context, saved, completions, generated>>
  BY DEF EndRoute
<1>2. \A q \in Requests : stage'[q] = IF q = r THEN "logging" ELSE stage[q]
  BY <1>1 DEF HttpType
<1>3. ContextsAreOwned' /\ IdsAreResolved'
  BY <1>1, ScopeStays DEF Entered
<1>4. PICK o \in Outcomes, sent \in Responses \union {Nil} :
        /\ outcome' = [outcome EXCEPT ![r] = o] /\ response' = [response EXCEPT ![r] = sent]
        /\ sent = Nil => o \in {"cancelled", "exception"}
        /\ sent # Nil => sent.header = scope[r] /\ sent.body \in {Nil, scope[r]}
  <2>1. CASE end \in {"ok", "cancelled", "exception"} \/ response[r] # Nil
    <3>1. PICK o \in Outcomes : /\ outcome' = [outcome EXCEPT ![r] = o]
                                /\ response[r] = Nil => o \in {"cancelled", "exception"}
      BY <1>1, <2>1 DEF EndRoute, Outcomes
    <3>2. response' = [response EXCEPT ![r] = response[r]]
      BY <2>1 DEF EndRoute, HttpType
    <3>3. response[r] \in Responses \union {Nil}
      BY DEF HttpType
    <3> QED BY <3>1, <3>2, <3>3 DEF ResponsesAreOwn
  <2>2. CASE ~(end \in {"ok", "cancelled", "exception"} \/ response[r] # Nil)
    <3> DEFINE sent == SendWithCorrelation(r, ErrorResponse(r, HandledStatus(end)))
    <3>1. outcome' = [outcome EXCEPT ![r] = end] /\ response' = [response EXCEPT ![r] = sent]
      BY <2>2 DEF EndRoute
    <3>2. HandledStatus(end) \in Nat
      BY <2>2, StatusIsNumber
    <3>3. ErrorResponse(r, HandledStatus(end)) =
            [status |-> HandledStatus(end), body |-> scope[r], header |-> scope[r]] /\ scope[r] \in Ids
      BY <1>1, OwnId DEF ErrorResponse, Entered
    <3>4. sent \in Responses /\ sent # Nil /\ sent.header = scope[r] /\ sent.body = scope[r]
      BY <1>1, <3>2, <3>3, SentIsOwn DEF Entered
    <3> HIDE DEF sent
    <3> QED BY <3>1, <3>4
  <2> QED BY <2>1, <2>2
<1>5. \A q \in Requests : /\ outcome'[q] = IF q = r THEN o ELSE outcome[q]
                          /\ response'[q] = IF q = r THEN sent ELSE response[q]
  BY <1>4 DEF HttpType
<1>6. HttpType'
  BY <1>1, <1>4 DEF HttpType
<1>7. ResponsesAreOwn'
  BY <1>1, <1>2, <1>4, <1>5 DEF ResponsesAreOwn
<1>8. RoutesAnswer'
  BY <1>2, <1>4, <1>5 DEF RoutesAnswer
<1>9. RecordsAreWritten'
  <2>1. \A q \in Requests : (stage'[q] \in Logged <=> stage[q] \in Logged)
    BY <1>1, <1>2 DEF Logged
  <2>2. \A q \in Requests : stage[q] \in Logged => StatusOf(q)' = StatusOf(q)
    BY <1>1, <1>5 DEF StatusOf, Logged
  <2> QED BY <1>1, <2>1, <2>2 DEF RecordsAreWritten
<1> QED BY <1>3, <1>6, <1>7, <1>8, <1>9

\* The completion record is written while the context still has the request's id.
LEMMA LogKeeps ==
  ASSUME HttpInv, NEW r \in Requests, LogCompletion(r)
  PROVE  HttpInv'
<1> USE DEF HttpInv
<1>1. /\ stage[r] = "logging" /\ stage' = [stage EXCEPT ![r] = "leaving"]
      /\ completions' = [completions EXCEPT ![r] =
           Append(@, [status |-> StatusOf(r), id |-> context[Task[r]]])]
      /\ UNCHANGED <<header, scope, context, saved, response, outcome, generated>>
  BY DEF LogCompletion, StatusOf
<1>2. \A q \in Requests : stage'[q] = IF q = r THEN "leaving" ELSE stage[q]
  BY <1>1 DEF HttpType
<1>3. ContextsAreOwned' /\ IdsAreResolved'
  BY <1>1, ScopeStays DEF Entered
<1> DEFINE entry == [status |-> StatusOf(r), id |-> scope[r]]
<1>4. context[Task[r]] = scope[r] /\ completions[r] = <<>>
  BY <1>1 DEF ContextsAreOwned, RecordsAreWritten, Entered, Logged
<1>5. entry \in [status : Nat, id : Ids]
  <2>1. StatusOf(r) \in Nat
    BY DEF StatusOf, HttpType, Responses
  <2> QED BY <2>1 DEF HttpType
<1>6. completions' = [completions EXCEPT ![r] = <<entry>>]
  <2>1. completions' = [completions EXCEPT ![r] = Append(completions[r], entry)]
    BY <1>1, <1>4 DEF HttpType
  <2>2. Append(completions[r], entry) = <<entry>>
    BY <1>4
  <2> QED BY <2>1, <2>2
<1>7. HttpType'
  <2> DEFINE Entries == [status : Nat, id : Ids]
  <2>1. completions \in [Requests -> Seq(Entries)] /\ entry \in Entries
    BY <1>5 DEF HttpType
  <2>2. completions' \in [Requests -> Seq(Entries)]
    <3> HIDE DEF entry, Entries
    <3>1. <<entry>> \in Seq(Entries)
      BY <2>1
    <3> QED BY <1>6, <2>1, <3>1
  <2> QED BY <1>1, <2>2 DEF HttpType
<1>8. ResponsesAreOwn' /\ RoutesAnswer'
  BY <1>1, <1>2 DEF ResponsesAreOwn, RoutesAnswer
<1>9. RecordsAreWritten'
  <2>1. \A q \in Requests : StatusOf(q)' = StatusOf(q)
    BY <1>1 DEF StatusOf
  <2>2. \A q \in Requests : completions'[q] = IF q = r THEN <<entry>> ELSE completions[q]
    BY <1>6 DEF HttpType
  <2>3. \A q \in Requests : completions'[q] =
          IF stage'[q] \in Logged THEN <<[status |-> StatusOf(q), id |-> scope[q]]>> ELSE <<>>
    BY <1>2, <2>2 DEF RecordsAreWritten, Logged
  <2> QED BY <1>1, <2>1, <2>3 DEF RecordsAreWritten
<1> QED BY <1>3, <1>7, <1>8, <1>9

\* The context is empty again when its request has left it.
LEMMA LeaveScopeKeeps ==
  ASSUME HttpInv, NEW r \in Requests, LeaveScope(r)
  PROVE  HttpInv'
<1> USE DEF HttpInv
<1>1. /\ stage[r] = "leaving" /\ context' = [context EXCEPT ![Task[r]] = Nil]
      /\ stage' = [stage EXCEPT ![r] = IF outcome[r] = "exception" THEN "escaped" ELSE "done"]
      /\ UNCHANGED <<header, scope, saved, response, outcome, completions, generated>>
  BY DEF LeaveScope, ContextsAreOwned
<1>2. \A q \in Requests : stage'[q] = IF q # r THEN stage[q]
                                   ELSE IF outcome[r] = "exception" THEN "escaped" ELSE "done"
  BY <1>1 DEF HttpType
<1>3. \A t \in Tasks : context'[t] = IF t = Task[r] THEN Nil ELSE context[t]
  BY <1>1 DEF HttpType
<1>4. HttpType'
  BY <1>1 DEF HttpType, Ids
<1>5. ContextsAreOwned'
  <2>1. \A q \in Requests \ {r} : Task[q] = Task[r] => stage[q] \in {"new", "done"}
    BY <1>1 DEF ContextsAreOwned
  <2>2. \A p, q \in Requests :
          stage'[p] \notin {"new", "done"} /\ stage'[q] \notin {"new", "done"} /\ Task[p] = Task[q] => p = q
    BY <1>1, <1>2 DEF ContextsAreOwned
  <2>3. \A q \in Requests : stage'[q] \in Entered => context'[Task[q]] = scope'[q]
    BY <1>1, <1>2, <1>3, <2>1 DEF ContextsAreOwned, Entered, Tasks
  <2>4. \A t \in Tasks : (\A q \in Requests : Task[q] = t => stage'[q] \notin Entered) => context'[t] = Nil
    <3> SUFFICES ASSUME NEW t \in Tasks, t # Task[r],
                        \A q \in Requests : Task[q] = t => stage'[q] \notin Entered
                 PROVE  context[t] = Nil
      BY <1>3
    <3>1. \A q \in Requests : Task[q] = t => stage[q] \notin Entered
      BY <1>2
    <3> QED BY <3>1 DEF ContextsAreOwned
  <2> QED BY <1>1, <2>2, <2>3, <2>4 DEF ContextsAreOwned
<1>6. IdsAreResolved' /\ ResponsesAreOwn'
  BY <1>1, <1>2 DEF IdsAreResolved, ResponsesAreOwn
<1>7. RoutesAnswer'
  BY <1>1, <1>2 DEF RoutesAnswer
<1>8. RecordsAreWritten'
  <2>1. \A q \in Requests : (stage'[q] \in Logged <=> stage[q] \in Logged) /\ StatusOf(q)' = StatusOf(q)
    BY <1>1, <1>2 DEF StatusOf, Logged
  <2> QED BY <1>1, <2>1 DEF RecordsAreWritten
<1> QED BY <1>4, <1>5, <1>6, <1>7, <1>8

\* The outermost handler answers behind the scope, with the id of the ASGI scope.
LEMMA UnhandledKeeps ==
  ASSUME HttpInv, NEW r \in Requests, HandleUnhandled(r)
  PROVE  HttpInv'
<1> USE DEF HttpInv
<1>1. /\ stage[r] = "escaped" /\ stage' = [stage EXCEPT ![r] = "done"]
      /\ UNCHANGED <<header, scope, context, saved, outcome, completions, generated>>
  BY DEF HandleUnhandled
<1>2. \A q \in Requests : stage'[q] = IF q = r THEN "done" ELSE stage[q]
  BY <1>1 DEF HttpType
<1>3. ContextsAreOwned' /\ IdsAreResolved'
  BY <1>1, ScopeStays
<1>4. PICK sent \in Responses :
        /\ response' = [response EXCEPT ![r] = sent]
        /\ sent.header = scope[r] /\ sent.body \in {Nil, scope[r]}
  <2>1. CASE response[r] # Nil
    <3>1. response' = [response EXCEPT ![r] = response[r]] /\ response[r] \in Responses
      BY <2>1 DEF HandleUnhandled, HttpType
    <3> QED BY <2>1, <3>1 DEF ResponsesAreOwn
  <2>2. CASE response[r] = Nil
    <3> DEFINE sent == [status |-> 500, body |-> scope[r], header |-> scope[r]]
    <3>1. ErrorResponse(r, 500) = sent /\ scope[r] \in Ids
      BY <1>1, OwnId DEF ErrorResponse
    <3>2. response' = [response EXCEPT ![r] = sent]
      BY <2>2, <3>1 DEF HandleUnhandled
    <3>3. sent \in Responses
      BY <3>1 DEF Responses
    <3> QED BY <3>2, <3>3
  <2> QED BY <2>1, <2>2
<1>5. \A q \in Requests : response'[q] = IF q = r THEN sent ELSE response[q]
  BY <1>4 DEF HttpType
<1>6. sent # Nil
  BY BoundaryAssumption
<1>7. HttpType'
  BY <1>1, <1>4 DEF HttpType
<1>8. ResponsesAreOwn' /\ RoutesAnswer'
  BY <1>1, <1>2, <1>4, <1>5, <1>6 DEF ResponsesAreOwn, RoutesAnswer
<1>9. RecordsAreWritten'
  <2>1. \A q \in Requests : (stage'[q] \in Logged <=> stage[q] \in Logged)
    BY <1>1, <1>2 DEF Logged
  <2>2. outcome[r] = "exception"
    BY <1>1 DEF RoutesAnswer
  <2>3. \A q \in Requests : StatusOf(q)' = StatusOf(q)
    BY <1>1, <1>5, <2>2 DEF StatusOf
  <2> QED BY <1>1, <2>1, <2>3 DEF RecordsAreWritten
<1> QED BY <1>3, <1>7, <1>8, <1>9

\* Every step of the boundary preserves the invariant.
LEMMA HttpNextKeeps ==
  ASSUME HttpInv, [HttpNext]_httpVars
  PROVE  HttpInv'
<1>1. CASE UNCHANGED httpVars
  <2>1. HttpType' /\ ContextsAreOwned' /\ IdsAreResolved' /\ ResponsesAreOwn' /\ RoutesAnswer'
    BY <1>1 DEF httpVars, HttpInv, HttpType, ContextsAreOwned, IdsAreResolved, ResponsesAreOwn, RoutesAnswer
  <2>2. RecordsAreWritten'
    <3>1. \A q \in Requests : StatusOf(q)' = StatusOf(q)
      BY <1>1 DEF httpVars, StatusOf
    <3> QED BY <1>1, <3>1 DEF httpVars, HttpInv, RecordsAreWritten
  <2> QED BY <2>1, <2>2 DEF HttpInv
<1>2. CASE HttpNext
  BY <1>2, ArriveKeeps, StartResponseKeeps, EndRouteKeeps, LogKeeps, LeaveScopeKeeps, UnhandledKeeps DEF HttpNext
<1> QED BY <1>1, <1>2

\* The inductive invariant of the boundary holds of every reachable state.
THEOREM HttpInvariantHolds == HttpSpec => []HttpInv
<1>1. HttpInv /\ [HttpNext]_httpVars => HttpInv'
  BY HttpNextKeeps
<1> QED BY HttpInitially, <1>1, PTL DEF HttpSpec

\* For any number of requests in any number of tasks, a response carries the id of its
\* own request in header and body, also when it is built behind the correlation scope.
THEOREM ResponsesCarryTheirId == HttpSpec => []ResponseCarriesRequestId
<1>1. HttpInv => ResponseCarriesRequestId
  <2> SUFFICES ASSUME HttpInv, NEW r \in Requests, response[r] # Nil
               PROVE  /\ response[r].header = scope[r] /\ response[r].body \in {Nil, scope[r]}
                      /\ IF header[r] \in Valid THEN scope[r] = header[r] ELSE scope[r] \notin Headers
    BY DEF ResponseCarriesRequestId
  <2>1. /\ stage[r] # "new" /\ response[r].header = scope[r] /\ response[r].body \in {Nil, scope[r]}
    BY DEF HttpInv, ResponsesAreOwn
  <2>2. IF header[r] \in Valid THEN scope[r] = header[r] ELSE scope[r] \in Uuids
    BY <2>1 DEF HttpInv, IdsAreResolved
  <2> QED BY <2>1, <2>2, BoundaryAssumption
<1> QED BY HttpInvariantHolds, <1>1, PTL

\* Every finished request has one completion record, under its own id and with the
\* status its client saw, whatever ran beside it and however its route ended.
THEOREM CompletionsAreExact == HttpSpec => []LoggedOnceAsAnswered
<1>1. HttpInv => LoggedOnceAsAnswered
  <2> SUFFICES ASSUME HttpInv, NEW r \in Requests, stage[r] = "done"
               PROVE  /\ outcome[r] # "cancelled" => response[r] # Nil
                      /\ Len(completions[r]) = 1 /\ completions[r][1].id = scope[r]
                      /\ completions[r][1].status # (IF response[r] = Nil THEN 500 ELSE response[r].status)
                           => outcome[r] = "exception" /\ completions[r][1].status = 500
    BY DEF LoggedOnceAsAnswered
  <2>1. outcome[r] # "cancelled" => response[r] # Nil
    BY DEF HttpInv, RoutesAnswer
  <2>2. completions[r] = <<[status |-> StatusOf(r), id |-> scope[r]]>>
    BY DEF HttpInv, RecordsAreWritten, Logged
  <2>3. Len(completions[r]) = 1 /\ completions[r][1].id = scope[r] /\ completions[r][1].status = StatusOf(r)
    BY <2>2
  <2> QED BY <2>1, <2>3 DEF StatusOf
<1> QED BY HttpInvariantHolds, <1>1, PTL

-----------------------------------------------------------------------------
(* The cache.  Lifetimes are any integers, a millisecond any number of     *)
(* ticks, and commands are executed as late as the server likes.           *)

Writes == [kind : {"never", "set", "delete", "lost"}, value : Values \union {Nil}, at : Nat, ttl : Int]
StoredEntries == [value : Values, until : Nat]

\* What may be told to a caller of get: a hit that is live, a miss that is not early.
Justified(a) ==
  /\ a.kind = "hit" => /\ a.basis.kind = "set" /\ a.basis.value = a.value
                       /\ a.at < a.basis.at + a.basis.ttl + 2 * MicrosPerMilli
  /\ a.kind = "miss" => (a.basis.kind = "set" => a.at >= a.basis.at + a.basis.ttl)

\* A command on the wire names its key by the normal form, whatever the spelling.
CommandsAreSound ==
  \A c \in Calls : wire[c] # Nil =>
    /\ wire[c].kind \in {"get", "set", "delete"}
    /\ wire[c].key \in Spellings /\ wire[c].key = Normal[wire[c].sent]
    /\ wire[c].kind = "set" =>
         wire[c].value \in Values /\ wire[c].ttl \in Nat /\ wire[c].px = Cache!Px(wire[c].ttl)

\* The server keeps what the last write of a key left, until its rounded lifetime ends.
StoreIsLastWrite ==
  \A k \in Spellings :
    /\ entries[k] # Nil <=> last[k].kind = "set"
    /\ entries[k] # Nil => /\ last[k].ttl \in Nat /\ last[k].value = entries[k].value
                          /\ entries[k].until = last[k].at \div MicrosPerMilli + Cache!Px(last[k].ttl)

RepliesAreJustified ==
  \A c \in Calls : /\ reply[c] # Nil => Justified(reply[c])
                   /\ call[c] = "done" => Justified(answer[c])

CacheType ==
  /\ clock \in Nat /\ entries \in [Spellings -> StoredEntries \union {Nil}] /\ last \in [Spellings -> Writes]
  /\ call \in [Calls -> {"idle", "sent", "done"}]
  /\ DOMAIN wire = Calls /\ DOMAIN reply = Calls /\ DOMAIN answer = Calls

CacheInv == CacheType /\ CommandsAreSound /\ StoreIsLastWrite /\ RepliesAreJustified

\* A number is its quotient times the divisor, and a rest.
LEMMA DivMod ==
  ASSUME NEW m \in Nat \ {0}, NEW a \in Nat
  PROVE  a \div m \in Nat /\ a % m \in 0 .. m - 1 /\ a = m * (a \div m) + (a % m)
OBVIOUS

\* Multiplying by a millisecond keeps the order.
LEMMA Scale ==
  ASSUME NEW m \in Nat \ {0}, NEW x \in Int, NEW y \in Int, x <= y
  PROVE  m * x <= m * y
OBVIOUS

\* _ttl_to_px_milliseconds rounds up, by less than one millisecond.
LEMMA PxRoundsUp ==
  ASSUME NEW l \in Nat
  PROVE  /\ Cache!Px(l) \in Nat /\ l <= MicrosPerMilli * Cache!Px(l)
         /\ MicrosPerMilli * Cache!Px(l) < l + MicrosPerMilli
<1> DEFINE m == MicrosPerMilli
<1>0. m \in Nat \ {0}
  BY CacheAssumption
<1>1. l \div m \in Nat /\ l % m \in 0 .. m - 1 /\ l = m * (l \div m) + (l % m)
  BY <1>0, DivMod
<1>2. Cache!Px(l) = l \div m + (IF l % m = 0 THEN 0 ELSE 1)
  BY DEF Cache!Px
<1> HIDE DEF m
<1>3. CASE l % m = 0
  BY <1>0, <1>1, <1>2, <1>3 DEF m
<1>4. CASE l % m # 0
  <2>1. Cache!Px(l) = (l \div m) + 1
    BY <1>1, <1>2, <1>4
  <2>2. m * ((l \div m) + 1) = m * (l \div m) + m
    BY <1>0, <1>1
  <2> QED BY <1>0, <1>1, <1>4, <2>1, <2>2 DEF m
<1> QED BY <1>3, <1>4

\* An entry written at w for l ticks is found by a get at t only if less than two
\* milliseconds have passed beyond its lifetime, and not found only if all of it has.
LEMMA LifetimeIsKept ==
  ASSUME NEW t \in Nat, NEW w \in Nat, NEW l \in Nat
  PROVE  LET found == t \div MicrosPerMilli <= w \div MicrosPerMilli + Cache!Px(l)
         IN  /\ found => t < w + l + 2 * MicrosPerMilli
             /\ ~found => t >= w + l
<1> DEFINE m == MicrosPerMilli  p == Cache!Px(l)  q == t \div m  v == w \div m
<1>0. m \in Nat \ {0}
  BY CacheAssumption
<1>1. p \in Nat /\ l <= m * p /\ m * p < l + m
  BY PxRoundsUp
<1>2. q \in Nat /\ t % m \in 0 .. m - 1 /\ t = m * q + (t % m)
  BY <1>0, DivMod
<1>3. v \in Nat /\ w % m \in 0 .. m - 1 /\ w = m * v + (w % m)
  BY <1>0, DivMod
<1> HIDE DEF m, p, q, v
<1>4. m * (v + p) = m * v + m * p /\ m * (v + p + 1) = m * v + m * p + m
  BY <1>0, <1>1, <1>3
<1>5. m * q \in Int /\ m * v \in Int /\ m * p \in Int
  BY <1>0, <1>1, <1>2, <1>3
<1>6. ASSUME q <= v + p PROVE t < w + l + 2 * m
  <2>1. m * q <= m * (v + p)
    BY <1>0, <1>1, <1>2, <1>3, <1>6, Scale
  <2> QED BY <1>0, <1>1, <1>2, <1>3, <1>4, <1>5, <2>1
<1>7. ASSUME ~(q <= v + p) PROVE t >= w + l
  <2>1. m * (v + p + 1) <= m * q
    BY <1>0, <1>1, <1>2, <1>3, <1>7, Scale
  <2> QED BY <1>0, <1>1, <1>2, <1>3, <1>4, <1>5, <2>1
<1> QED BY <1>6, <1>7 DEF m, p, q, v

\* The cache starts empty.
LEMMA CacheInitially == Cache!Init => CacheInv
<1> SUFFICES ASSUME Cache!Init PROVE CacheInv
  OBVIOUS
<1>1. CacheType
  BY DEF Cache!Init, Cache!Never, CacheType, Writes
<1>2. CommandsAreSound /\ StoreIsLastWrite /\ RepliesAreJustified
  BY DEF Cache!Init, Cache!Never, CommandsAreSound, StoreIsLastWrite, RepliesAreJustified
<1> QED BY <1>1, <1>2 DEF CacheInv

\* An error, and an acknowledged write, claim nothing about a value.
LEMMA PlainIsJustified ==
  ASSUME NEW kind \in {"ok", "refused", "InvalidRequestError", "DependencyUnavailableError"}
  PROVE  Justified(Cache!Plain(kind))
BY DEF Justified, Cache!Plain

\* A call that is refused, not encodable, or sent with its normal key.
LEMMA CallKeeps ==
  ASSUME CacheInv, NEW c \in Calls, NEW o \in Cache!Operations, Cache!Call(c, o)
  PROVE  CacheInv'
<1> USE DEF CacheInv
<1>0. call[c] = "idle" /\ UNCHANGED <<clock, losses, entries, reply, last>>
  BY DEF Cache!Call
<1>1. StoreIsLastWrite'
  BY <1>0 DEF StoreIsLastWrite
<1>2. ASSUME NEW a, Justified(a), call' = [call EXCEPT ![c] = "done"],
             answer' = [answer EXCEPT ![c] = a], wire' = wire
      PROVE  CacheInv'
  <2>1. CacheType'
    BY <1>0, <1>2 DEF CacheType
  <2>2. \A d \in Calls : /\ answer'[d] = IF d = c THEN a ELSE answer[d]
                         /\ call'[d] = IF d = c THEN "done" ELSE call[d]
    BY <1>2 DEF CacheType
  <2>3. RepliesAreJustified'
    BY <1>0, <1>2, <2>2 DEF RepliesAreJustified, Justified
  <2> QED BY <1>1, <1>2, <2>1, <2>3 DEF CommandsAreSound
<1>3. CASE Cache!Invalid(o)
  <2>1. Justified(Cache!InvalidRequest)
    BY PlainIsJustified DEF Cache!InvalidRequest
  <2> QED BY <1>2, <1>3, <2>1 DEF Cache!Call
<1>4. CASE ~Cache!Invalid(o) /\ o.kind = "set" /\ o.value \in Unencodable
  <2>1. Justified(Cache!Unavailable)
    BY PlainIsJustified DEF Cache!Unavailable
  <2> QED BY <1>2, <1>4, <2>1 DEF Cache!Call
<1>5. CASE ~Cache!Invalid(o) /\ ~(o.kind = "set" /\ o.value \in Unencodable)
  <2> DEFINE command == IF o.kind = "set"
               THEN [kind |-> "set", key |-> Cache!BackendKey(o.spelling), value |-> o.value,
                     px |-> Cache!Px(o.ttl), ttl |-> o.ttl, sent |-> o.spelling]
               ELSE [kind |-> o.kind, key |-> Cache!BackendKey(o.spelling), sent |-> o.spelling]
  <2>1. /\ call' = [call EXCEPT ![c] = "sent"] /\ answer' = answer
        /\ wire' = [wire EXCEPT ![c] = command]
    BY <1>5 DEF Cache!Call
  <2>2. /\ o.spelling \in Spellings /\ o.kind \in {"get", "set", "delete"}
        /\ o.kind = "set" => o.value \in Values /\ o.ttl \in Int
    BY CacheAssumption DEF Cache!Operations
  <2>3. /\ Normal[o.spelling] \in Spellings
        /\ o.kind = "set" => o.ttl \in Nat
    BY <1>5, <2>2, CacheAssumption DEF Cache!Invalid
  <2>4. /\ command.kind \in {"get", "set", "delete"}
        /\ command.key \in Spellings /\ command.key = Normal[command.sent]
        /\ command.kind = "set" =>
             command.value \in Values /\ command.ttl \in Nat /\ command.px = Cache!Px(command.ttl)
    <3>1. CASE o.kind = "set"
      BY <2>2, <2>3, <3>1 DEF Cache!BackendKey
    <3>2. CASE o.kind # "set"
      BY <2>2, <2>3, <3>2 DEF Cache!BackendKey
    <3> QED BY <3>1, <3>2
  <2> HIDE DEF command
  <2>5. \A d \in Calls : /\ wire'[d] = IF d = c THEN command ELSE wire[d]
                         /\ call'[d] = IF d = c THEN "sent" ELSE call[d]
    BY <2>1 DEF CacheType
  <2>6. CacheType'
    BY <1>0, <2>1 DEF CacheType
  <2>7. CommandsAreSound'
    BY <2>4, <2>5 DEF CommandsAreSound
  <2>8. RepliesAreJustified'
    BY <1>0, <2>1, <2>5 DEF RepliesAreJustified, Justified
  <2> QED BY <1>1, <2>6, <2>7, <2>8
<1> QED BY <1>3, <1>4, <1>5

\* An answer is the server's reply or an error.
LEMMA AnswerKeeps ==
  ASSUME CacheInv, NEW c \in Calls, Cache!Finish(c) \/ Cache!Fail(c)
  PROVE  CacheInv'
<1> USE DEF CacheInv
<1>0. UNCHANGED <<clock, losses, entries, last>> /\ call' = [call EXCEPT ![c] = "done"]
  BY DEF Cache!Finish, Cache!Fail
<1>1. PICK a : Justified(a) /\ answer' = [answer EXCEPT ![c] = a]
  <2>1. Justified(Cache!Unavailable)
    BY PlainIsJustified DEF Cache!Unavailable
  <2>2. CASE Cache!Finish(c)
    BY <2>1, <2>2 DEF Cache!Finish, RepliesAreJustified
  <2>3. CASE Cache!Fail(c)
    BY <2>1, <2>3 DEF Cache!Fail
  <2> QED BY <2>2, <2>3
<1>2. \A d \in Calls : /\ answer'[d] = IF d = c THEN a ELSE answer[d]
                       /\ call'[d] = IF d = c THEN "done" ELSE call[d]
  BY <1>0, <1>1 DEF CacheType
<1>3. /\ DOMAIN reply' = Calls /\ \A d \in Calls : reply'[d] \in {Nil, reply[d]}
  BY DEF Cache!Finish, Cache!Fail, CacheType
<1>4. /\ DOMAIN wire' = Calls /\ \A d \in Calls : wire'[d] \in {Nil, wire[d]}
  BY DEF Cache!Finish, Cache!Fail, CacheType
<1>5. CacheType'
  BY <1>0, <1>1, <1>3, <1>4 DEF CacheType
<1>6. CommandsAreSound'
  <2>1. \A d \in Calls : wire'[d] = Nil \/ wire'[d] = wire[d]
    BY <1>4
  <2> QED BY <2>1 DEF CommandsAreSound
<1>7. StoreIsLastWrite'
  BY <1>0 DEF StoreIsLastWrite
<1>8. RepliesAreJustified'
  <2>1. \A d \in Calls : reply'[d] # Nil => Justified(reply'[d])
    BY <1>3 DEF RepliesAreJustified
  <2>2. \A d \in Calls : call'[d] = "done" => Justified(answer'[d])
    BY <1>1, <1>2 DEF RepliesAreJustified
  <2> QED BY <2>1, <2>2 DEF RepliesAreJustified, Justified
<1> QED BY <1>5, <1>6, <1>7, <1>8

\* A get at the present clock finds the last write of its key for its lifetime.
LEMMA GetIsJustified ==
  ASSUME CacheInv, NEW k \in Spellings
  PROVE  Justified([kind |-> IF Cache!Live(k) THEN "hit" ELSE "miss",
                    value |-> IF Cache!Live(k) THEN entries[k].value ELSE Nil,
                    basis |-> last[k], at |-> clock])
<1> USE DEF CacheInv
<1>1. clock \in Nat /\ last[k] \in Writes
  BY DEF CacheType
<1>2. CASE entries[k] = Nil
  <2>1. ~Cache!Live(k) /\ last[k].kind # "set"
    BY <1>2 DEF Cache!Live, StoreIsLastWrite
  <2> QED BY <2>1 DEF Justified
<1>3. CASE entries[k] # Nil
  <2>1. /\ last[k].kind = "set" /\ last[k].ttl \in Nat /\ last[k].value = entries[k].value
        /\ entries[k].until = last[k].at \div MicrosPerMilli + Cache!Px(last[k].ttl)
    BY <1>3 DEF StoreIsLastWrite
  <2>2. last[k].at \in Nat
    BY <1>1 DEF Writes
  <2>3. Cache!Live(k) <=>
          clock \div MicrosPerMilli <= last[k].at \div MicrosPerMilli + Cache!Px(last[k].ttl)
    BY <1>3, <2>1 DEF Cache!Live, Cache!Millis
  <2>4. /\ Cache!Live(k) => clock < last[k].at + last[k].ttl + 2 * MicrosPerMilli
        /\ ~Cache!Live(k) => clock >= last[k].at + last[k].ttl
    BY <1>1, <2>1, <2>2, <2>3, LifetimeIsKept
  <2>5. CASE Cache!Live(k)
    BY <2>1, <2>4, <2>5 DEF Justified
  <2>6. CASE ~Cache!Live(k)
    BY <2>1, <2>4, <2>6 DEF Justified
  <2> QED BY <2>5, <2>6
<1> QED BY <1>2, <1>3

\* Steps of the server that take a command off the wire and answer it.
LEMMA ReplyKeeps ==
  ASSUME CacheInv, NEW c \in Calls, wire' = [wire EXCEPT ![c] = Nil],
         NEW a, Justified(a), reply' = [reply EXCEPT ![c] = a],
         UNCHANGED <<clock, losses, call, answer>>,
         entries' \in [Spellings -> StoredEntries \union {Nil}], last' \in [Spellings -> Writes], StoreIsLastWrite'
  PROVE  CacheInv'
<1> USE DEF CacheInv
<1>1. \A d \in Calls : /\ wire'[d] = IF d = c THEN Nil ELSE wire[d]
                       /\ reply'[d] = IF d = c THEN a ELSE reply[d]
  BY DEF CacheType
<1>2. CacheType'
  BY DEF CacheType
<1>3. CommandsAreSound'
  BY <1>1 DEF CommandsAreSound
<1>4. RepliesAreJustified'
  <2>1. \A d \in Calls : reply'[d] # Nil => Justified(reply'[d])
    BY <1>1 DEF RepliesAreJustified
  <2>2. \A d \in Calls : call'[d] = "done" => Justified(answer'[d])
    BY DEF RepliesAreJustified
  <2> QED BY <2>1, <2>2 DEF RepliesAreJustified, Justified
<1> QED BY <1>2, <1>3, <1>4

\* The server executes a command, perhaps long after its caller has given up.
LEMMA ExecuteKeeps ==
  ASSUME CacheInv, NEW c \in Calls, Cache!Execute(c)
  PROVE  CacheInv'
<1> USE DEF CacheInv
<1> DEFINE k == wire[c].key
<1>0. wire[c] # Nil /\ wire' = [wire EXCEPT ![c] = Nil] /\ UNCHANGED <<clock, losses, call, answer>>
  BY DEF Cache!Execute
<1>1. /\ wire[c].kind \in {"get", "set", "delete"} /\ k \in Spellings /\ k = Normal[wire[c].sent]
      /\ wire[c].kind = "set" =>
           wire[c].value \in Values /\ wire[c].ttl \in Nat /\ wire[c].px = Cache!Px(wire[c].ttl)
  BY <1>0 DEF CommandsAreSound
<1>2. CASE wire[c].kind = "get"
  <2> DEFINE a == [kind |-> IF Cache!Live(k) THEN "hit" ELSE "miss",
                   value |-> IF Cache!Live(k) THEN entries[k].value ELSE Nil,
                   basis |-> last[k], at |-> clock]
  <2>1. reply' = [reply EXCEPT ![c] = a] /\ UNCHANGED <<entries, last>>
    BY <1>1, <1>2 DEF Cache!Execute
  <2>2. Justified(a)
    BY <1>1, GetIsJustified
  <2> HIDE DEF a
  <2>3. StoreIsLastWrite' /\ entries' \in [Spellings -> StoredEntries \union {Nil}] /\ last' \in [Spellings -> Writes]
    BY <2>1 DEF StoreIsLastWrite, CacheType
  <2> QED BY <1>0, <2>1, <2>2, <2>3, ReplyKeeps
<1>3. CASE wire[c].kind = "set"
  <2> DEFINE entry == [value |-> wire[c].value, until |-> Cache!Millis + wire[c].px]
             write == [kind |-> "set", value |-> wire[c].value, at |-> clock, ttl |-> wire[c].ttl]
  <2>1. /\ entries' = [entries EXCEPT ![k] = entry] /\ last' = [last EXCEPT ![k] = write]
        /\ reply' = [reply EXCEPT ![c] = Cache!Plain("ok")]
    BY <1>1, <1>3 DEF Cache!Execute
  <2>2. clock \in Nat /\ Cache!Millis \in Nat /\ Cache!Px(wire[c].ttl) \in Nat
    BY <1>1, <1>3, CacheAssumption, DivMod, PxRoundsUp DEF CacheType, Cache!Millis
  <2>3. /\ entry \in StoredEntries /\ entry # Nil /\ write \in Writes
        /\ write.kind = "set" /\ write.ttl \in Nat /\ write.value = entry.value
        /\ entry.until = write.at \div MicrosPerMilli + Cache!Px(write.ttl)
    BY <1>1, <1>3, <2>2, CacheAssumption DEF StoredEntries, Writes, Cache!Millis
  <2> HIDE DEF entry, write, k
  <2>4. \A i \in Spellings : /\ entries'[i] = IF i = k THEN entry ELSE entries[i]
                             /\ last'[i] = IF i = k THEN write ELSE last[i]
    BY <2>1 DEF CacheType
  <2>5. StoreIsLastWrite'
    BY <2>3, <2>4 DEF StoreIsLastWrite
  <2>6. entries' \in [Spellings -> StoredEntries \union {Nil}] /\ last' \in [Spellings -> Writes]
    BY <2>1, <2>3 DEF CacheType
  <2> QED BY <1>0, <2>1, <2>5, <2>6, ReplyKeeps, PlainIsJustified
<1>4. CASE wire[c].kind = "delete"
  <2> DEFINE write == [Cache!Never EXCEPT !.kind = "delete"]
  <2>1. /\ entries' = [entries EXCEPT ![k] = Nil] /\ last' = [last EXCEPT ![k] = write]
        /\ reply' = [reply EXCEPT ![c] = Cache!Plain("ok")]
    BY <1>1, <1>4 DEF Cache!Execute
  <2>2. write \in Writes /\ write.kind = "delete"
    BY DEF Cache!Never, Writes
  <2> HIDE DEF write, k
  <2>3. \A i \in Spellings : /\ entries'[i] = IF i = k THEN Nil ELSE entries[i]
                             /\ last'[i] = IF i = k THEN write ELSE last[i]
    BY <2>1 DEF CacheType
  <2>4. StoreIsLastWrite'
    BY <2>2, <2>3 DEF StoreIsLastWrite
  <2>5. entries' \in [Spellings -> StoredEntries \union {Nil}] /\ last' \in [Spellings -> Writes]
    BY <2>1, <2>2 DEF CacheType
  <2> QED BY <1>0, <2>1, <2>4, <2>5, ReplyKeeps, PlainIsJustified
<1> QED BY <1>1, <1>2, <1>3, <1>4

\* An evicted entry leaves no write behind that a get could be held to.
LEMMA LoseKeeps ==
  ASSUME CacheInv, NEW k \in Spellings, Cache!Lose(k)
  PROVE  CacheInv'
<1> USE DEF CacheInv
<1>1. /\ entries' = [entries EXCEPT ![k] = Nil] /\ last' = [last EXCEPT ![k].kind = "lost"]
      /\ UNCHANGED <<clock, call, wire, reply, answer>>
  BY DEF Cache!Lose
<1>2. \A i \in Spellings : /\ entries'[i] = IF i = k THEN Nil ELSE entries[i]
                           /\ i # k => last'[i] = last[i]
  BY <1>1 DEF CacheType
<1>3. last'[k].kind = "lost" /\ last' \in [Spellings -> Writes]
  BY <1>1 DEF CacheType, Writes
<1>4. CacheType'
  BY <1>1, <1>3 DEF CacheType
<1>5. StoreIsLastWrite'
  BY <1>2, <1>3 DEF StoreIsLastWrite
<1>6. CommandsAreSound' /\ RepliesAreJustified'
  BY <1>1 DEF CommandsAreSound, RepliesAreJustified, Justified
<1> QED BY <1>4, <1>5, <1>6

\* Every step of callers, server and clock preserves the invariant.
LEMMA CacheNextKeeps ==
  ASSUME CacheInv, [Cache!Next]_(Cache!vars)
  PROVE  CacheInv'
<1>1. ASSUME NEW c \in Calls, Cache!Refuse(c) PROVE CacheInv'
  <2>1. StoreIsLastWrite' /\ entries' \in [Spellings -> StoredEntries \union {Nil}] /\ last' \in [Spellings -> Writes]
    BY <1>1 DEF Cache!Refuse, CacheInv, StoreIsLastWrite, CacheType
  <2> QED BY <1>1, <2>1, ReplyKeeps, PlainIsJustified DEF Cache!Refuse
<1>2. CASE Cache!Tick \/ UNCHANGED Cache!vars
  <2>1. UNCHANGED <<entries, call, wire, reply, answer, last>> /\ clock' \in Nat
    BY <1>2 DEF Cache!Tick, Cache!vars, CacheInv, CacheType
  <2> QED BY <2>1 DEF CacheInv, CacheType, CommandsAreSound, StoreIsLastWrite, RepliesAreJustified, Justified
<1> QED BY <1>1, <1>2, CallKeeps, AnswerKeeps, ExecuteKeeps, LoseKeeps DEF Cache!Next

\* The inductive invariant of the cache holds of every reachable state.
THEOREM CacheInvariantHolds == Cache!Spec => []CacheInv
<1>1. CacheInv /\ [Cache!Next]_(Cache!vars) => CacheInv'
  BY CacheNextKeeps
<1> QED BY CacheInitially, <1>1, PTL DEF Cache!Spec

\* For any number of callers, spellings, lifetimes and late commands, get returns only
\* the last value written under the key, at most two milliseconds past its lifetime.
THEOREM HitsAreLive == Cache!Spec => []HitIsLive
<1>1. CacheInv => HitIsLive
  BY DEF CacheInv, RepliesAreJustified, Justified, HitIsLive, Cache!HitIsLive
<1> QED BY CacheInvariantHolds, <1>1, PTL

\* For any lifetime and any length of a millisecond, get never misses a value that is
\* neither deleted nor lost before its lifetime has passed.
THEOREM MissesAreNotEarly == Cache!Spec => []NoEarlyMiss
<1>1. CacheInv => NoEarlyMiss
  BY DEF CacheInv, RepliesAreJustified, Justified, NoEarlyMiss, Cache!NoEarlyMiss
<1> QED BY CacheInvariantHolds, <1>1, PTL

\* The composition runs each of the two as it is: what is proved of each holds of both.
THEOREM EdgesRunBoth == EdgesSpec => HttpSpec /\ Cache!Spec
<1>1. EdgesInit => HttpInit /\ Cache!Init
  BY DEF EdgesInit
<1>2. [EdgesNext]_<<edge, httpVars, cacheVars>> => [HttpNext]_httpVars /\ [Cache!Next]_(Cache!vars)
  BY DEF EdgesNext, cacheVars, Cache!vars, httpVars
<1> QED BY <1>1, <1>2, PTL DEF EdgesSpec, HttpSpec, Cache!Spec
==============================================================================
