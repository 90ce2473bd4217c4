---------------------------- MODULE WriteOnceStore ----------------------------
(***************************************************************************)
(* What the platform's persistence ports promise, whichever adapter sits   *)
(* behind them: DeadLetterQueuePort.enqueue, ConsumptionRepositoryPort     *)
(* .save_many and DocumentVectorIndexPort.index.                           *)
(*                                                                         *)
(* A key is written once.  A call asks for a set of entries; it may write  *)
(* them in any number of steps, and answers                                *)
(*   ok           only when every entry is stored with its value;          *)
(*   conflict     only when an entry can never be stored, because its key  *)
(*                holds another value or the request contradicts itself;   *)
(*   invalid      when it wrote nothing of a malformed request;            *)
(*   unavailable  at any time, and then the caller may retry.              *)
(***************************************************************************)
CONSTANTS Keys, Values, Calls, None

Entries == [key : Keys, value : Values]

VARIABLES stored,    \* stored[k]: the value of key k, or None
          request,   \* request[c]: the entries call c asks for
          answer     \* answer[c]: none, ok, conflict, invalid, unavailable

vars == <<stored, request, answer>>

Init ==
  /\ stored = [k \in Keys |-> None]
  /\ request = [c \in Calls |-> {}]
  /\ answer = [c \in Calls |-> "none"]

Ask(c) ==
  /\ answer[c] = "none"
  /\ request[c] = {}
  /\ \E S \in SUBSET Entries : request' = [request EXCEPT ![c] = S]
  /\ UNCHANGED <<stored, answer>>

(* Some entries of a request reach the store, perhaps after its call gave   *)
(* up; a key that has a value keeps it.                                     *)
Write(c) ==
  /\ answer[c] # "invalid"
  /\ \E W \in SUBSET request[c] :
       /\ \A d, e \in W : d.key = e.key => d = e
       /\ \A e \in W : stored[e.key] = None
       /\ stored' = [k \in Keys |-> IF \E e \in W : e.key = k
                                      THEN (CHOOSE e \in W : e.key = k).value
                                      ELSE stored[k]]
  /\ UNCHANGED <<request, answer>>

Stored(e) == stored[e.key] = e.value

Refused(S) ==
  \/ \E e \in S : stored[e.key] \notin {None, e.value}
  \/ \E d, e \in S : d.key = e.key /\ d.value # e.value

Answer(c, a) ==
  /\ answer[c] = "none"
  /\ request[c] # {}
  /\ a = "ok" => \A e \in request[c] : Stored(e)
  /\ a = "conflict" => Refused(request[c])
  /\ answer' = [answer EXCEPT ![c] = a]
  /\ UNCHANGED <<stored, request>>

(* A backend or the process fails: some open calls end without a result.    *)
Fail(C) ==
  /\ \A c \in C : answer[c] = "none" /\ request[c] # {}
  /\ answer' = [c \in Calls |-> IF c \in C THEN "unavailable" ELSE answer[c]]
  /\ UNCHANGED <<stored, request>>

Retry(c) ==
  /\ answer[c] = "unavailable"
  /\ answer' = [answer EXCEPT ![c] = "none"]
  /\ UNCHANGED <<stored, request>>

Next ==
  \/ \E c \in Calls :
       \/ Ask(c)
       \/ Write(c)
       \/ \E a \in {"ok", "conflict", "invalid"} : Answer(c, a)
       \/ Retry(c)
  \/ \E C \in SUBSET Calls : Fail(C)

Spec == Init /\ [][Next]_vars
=============================================================================
