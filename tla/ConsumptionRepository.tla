------------------------- MODULE ConsumptionRepository ------------------------
(***************************************************************************)
(* PostgresConsumptionRepository.save_many: each call is one transaction   *)
(* (READ COMMITTED) on a pooled connection: a multi-row INSERT ... ON      *)
(* CONFLICT DO NOTHING, a SELECT of the same identities, a comparison, and *)
(* the commit when session.begin() is left.                                *)
(*                                                                         *)
(* PostgreSQL inserts the rows of a statement one after the other, in the  *)
(* order of the caller's tuple.  A row that another open transaction has   *)
(* inserted makes the statement wait for that transaction's end, so calls  *)
(* that overlap in different orders can deadlock; the server then aborts   *)
(* one of them.  No code of the repository updates or deletes a row.       *)
(***************************************************************************)
EXTENDS Naturals, FiniteSets

CONSTANTS Identities,   \* (consumer_id, timestamp)
          Observations, \* values of value_mw
          Batches,      \* the sets of records a call may pass
          Calls,        \* save_many calls
          PoolSize,     \* pool_size + max_overflow
          MaxFailures,  \* bound on backend errors
          MaxRetries,   \* bound on the callers' retries
          None

ASSUME RepositoryAssumption ==
  /\ PoolSize \in Nat \ {0} /\ MaxFailures \in Nat /\ MaxRetries \in Nat
  /\ None \notin Observations /\ None \notin Calls
  /\ None \notin [key : Identities, value : Observations]
  /\ {} \notin Batches /\ Batches \subseteq SUBSET [key : Identities, value : Observations]

Records == [key : Identities, value : Observations]

VARIABLES table,     \* table[k]: the committed observation of k, or None
          holder,    \* holder[k]: the call whose open transaction inserted k, or None
          conns,     \* the calls that have a pooled connection
          stage,     \* stage[c]: where the call is, or how it ended
          batch,     \* batch[c]: the records passed to save_many
          cursor,    \* cursor[c]: the record its INSERT is at
          todo,      \* todo[c]: the records its INSERT has yet to reach
          failures, retries

repositoryVars == <<table, holder, conns, stage, batch, cursor, todo, failures, retries>>

InTransaction == {"insert", "select", "commit", "committed"}
CallEnds == {"ok", "conflict", "unavailable"}

RepositoryTypeOK ==
  /\ table \in [Identities -> Observations \cup {None}]
  /\ holder \in [Identities -> Calls \cup {None}]
  /\ conns \subseteq Calls /\ Cardinality(conns) <= PoolSize
  /\ stage \in [Calls -> {"idle", "normalize", "connect"} \cup InTransaction \cup CallEnds]
  /\ batch \in [Calls -> SUBSET Records]
  /\ cursor \in [Calls -> Records \cup {None}]
  /\ todo \in [Calls -> SUBSET Records]
  /\ failures \in 0 .. MaxFailures /\ retries \in 0 .. MaxRetries

RepositoryInit ==
  /\ table = [k \in Identities |-> None]
  /\ holder = [k \in Identities |-> None]
  /\ conns = {}
  /\ stage = [c \in Calls |-> "idle"]
  /\ batch = [c \in Calls |-> {}]
  /\ cursor = [c \in Calls |-> None]
  /\ todo = [c \in Calls |-> {}]
  /\ failures = 0 /\ retries = 0

Goto(c, where) == stage' = [stage EXCEPT ![c] = where]

(* A caller passes its records; an empty tuple returns at once.             *)
Submit(c) ==
  /\ stage[c] = "idle"
  /\ \E S \in Batches : batch' = [batch EXCEPT ![c] = S]
  /\ Goto(c, "normalize")
  /\ UNCHANGED <<table, holder, conns, cursor, todo, failures, retries>>

SelfConflict(S) == \E d, e \in S : d.key = e.key /\ d # e

(* _normalize: repeats of a record collapse, two observations of one        *)
(* identity conflict before a connection is asked for.                      *)
Normalize(c) ==
  /\ stage[c] = "normalize"
  /\ Goto(c, IF SelfConflict(batch[c]) THEN "conflict" ELSE "connect")
  /\ UNCHANGED <<table, holder, conns, batch, cursor, todo, failures, retries>>

(* The INSERT moves to one of the records in S, or is over.  The order is   *)
(* that of the caller's tuple, which may be any.                            *)
Reach(c, S) ==
  IF S = {}
    THEN Goto(c, "select") /\ cursor' = [cursor EXCEPT ![c] = None] /\ UNCHANGED todo
    ELSE /\ Goto(c, "insert")
         /\ \E e \in S : cursor' = [cursor EXCEPT ![c] = e] /\ todo' = [todo EXCEPT ![c] = S \ {e}]

(* session.begin() and the first statement take a connection of the pool.   *)
Connect(c) ==
  /\ stage[c] = "connect"
  /\ Cardinality(conns) < PoolSize
  /\ conns' = conns \cup {c}
  /\ Reach(c, batch[c])
  /\ UNCHANGED <<table, holder, batch, failures, retries>>

LeaveWithoutRollback(c, end) ==  \* mutant: the connection returns with its transaction open
  /\ conns' = conns \ {c}
  /\ cursor' = [cursor EXCEPT ![c] = None]
  /\ todo' = [todo EXCEPT ![c] = {}]
  /\ Goto(c, end)
  /\ UNCHANGED <<table, holder>>

(* Leaving the session undoes what is not committed and gives the rows and  *)
(* the connection back.                                                     *)
LeaveSession(c, end) ==
  /\ holder' = [k \in Identities |-> IF holder[k] = c THEN None ELSE holder[k]]
  /\ conns' = conns \ {c}
  /\ cursor' = [cursor EXCEPT ![c] = None]
  /\ todo' = [todo EXCEPT ![c] = {}]
  /\ Goto(c, end)
  /\ UNCHANGED table

(* SQLAlchemyTimeoutError: pool_timeout passed and no connection came back. *)
PoolTimeout(c) ==
  /\ stage[c] = "connect"
  /\ Cardinality(conns) = PoolSize
  /\ Goto(c, "unavailable")
  /\ UNCHANGED <<table, holder, conns, batch, cursor, todo, failures, retries>>

InsertAutocommit(c) ==        \* mutant: no session.begin(), each row commits at once
  /\ stage[c] = "insert"
  /\ table' = [table EXCEPT ![cursor[c].key] = IF @ = None THEN cursor[c].value ELSE @]
  /\ Reach(c, todo[c])
  /\ UNCHANGED <<holder, conns, batch, failures, retries>>

InsertUpdating(c) ==          \* mutant: ON CONFLICT DO UPDATE
  /\ stage[c] = "insert"
  /\ holder[cursor[c].key] = None
  /\ holder' = [holder EXCEPT ![cursor[c].key] = c]
  /\ Reach(c, todo[c])
  /\ UNCHANGED <<table, conns, batch, failures, retries>>

(* One row of the INSERT: it waits while another open transaction has       *)
(* inserted the identity, and does nothing when the row is committed.       *)
InsertRow(c) ==
  /\ stage[c] = "insert"
  /\ holder[cursor[c].key] = None
  /\ holder' = IF table[cursor[c].key] # None THEN holder ELSE [holder EXCEPT ![cursor[c].key] = c]
  /\ Reach(c, todo[c])
  /\ UNCHANGED <<table, conns, batch, failures, retries>>

WaitsFor(c) == IF stage[c] = "insert" THEN holder[cursor[c].key] ELSE None

(* The calls of some set all wait for one another.                          *)
Deadlocked(c) ==
  \E S \in SUBSET Calls : /\ c \in S
                          /\ \A d \in S : WaitsFor(d) \in S
                          /\ \A d \in S : \E e \in S : WaitsFor(e) = d

(* PostgreSQL aborts a transaction of a deadlock: a DBAPIError.             *)
DeadlockAbort(c) ==
  /\ Deadlocked(c)
  /\ LeaveSession(c, "unavailable")
  /\ UNCHANGED <<batch, failures, retries>>

(* What the SELECT of transaction c returns for k: its own row or a         *)
(* committed one.                                                           *)
Visible(c, k) ==
  IF holder[k] = c THEN (CHOOSE e \in batch[c] : e.key = k).value ELSE table[k]

(* The SELECT and the comparison; the first record at fault, in the         *)
(* caller's order, decides which error leaves session.begin() and so rolls  *)
(* the transaction back.                                                    *)
Select(c) ==
  /\ stage[c] = "select"
  /\ LET atFault == {e \in batch[c] : Visible(c, e.key) # e.value}
         ends == {IF Visible(c, e.key) = None THEN "unavailable" ELSE "conflict" : e \in atFault}
     IN  IF atFault = {}
           THEN Goto(c, "commit") /\ UNCHANGED <<table, holder, conns, cursor, todo>>
           ELSE \E end \in ends : LeaveSession(c, end)
  /\ UNCHANGED <<batch, failures, retries>>

(* Leaving session.begin() sends COMMIT: the server makes the rows visible  *)
(* and unlocks them.                                                        *)
Commit(c) ==
  /\ stage[c] = "commit"
  /\ table' = [k \in Identities |-> Visible(c, k)]
  /\ holder' = [k \in Identities |-> IF holder[k] = c THEN None ELSE holder[k]]
  /\ Goto(c, "committed")
  /\ UNCHANGED <<conns, batch, cursor, todo, failures, retries>>

(* The answer to COMMIT arrives and save_many returns.                      *)
Return(c) ==
  /\ stage[c] = "committed"
  /\ LeaveSession(c, "ok")
  /\ UNCHANGED <<batch, failures, retries>>

(* DBAPIError or a cancelled caller anywhere.  What is not committed is     *)
(* rolled back; after the server committed, the caller does not learn it.   *)
BackendError(c) ==
  /\ stage[c] \in {"connect"} \cup InTransaction
  /\ failures < MaxFailures
  /\ failures' = failures + 1
  /\ LeaveSession(c, "unavailable")
  /\ UNCHANGED <<batch, retries>>

(* The caller saves the same records again.                                 *)
Retry(c) ==
  /\ stage[c] = "unavailable"
  /\ retries < MaxRetries
  /\ retries' = retries + 1
  /\ Goto(c, "normalize")
  /\ UNCHANGED <<table, holder, conns, batch, cursor, todo, failures>>

RepositoryNext ==
  \E c \in Calls :
    \/ Submit(c) \/ Normalize(c) \/ Connect(c) \/ PoolTimeout(c) \/ InsertRow(c)
    \/ DeadlockAbort(c) \/ Select(c) \/ Commit(c) \/ Return(c) \/ BackendError(c) \/ Retry(c)

RepositorySpec == RepositoryInit /\ [][RepositoryNext]_repositoryVars

(* The server and the pool answer; nobody is obliged to call, fail or retry.*)
Progress(c) ==
  \/ Normalize(c) \/ Connect(c) \/ PoolTimeout(c) \/ InsertRow(c)
  \/ DeadlockAbort(c) \/ Select(c) \/ Commit(c) \/ Return(c)
FairSpec == RepositorySpec /\ \A c \in Calls : WF_repositoryVars(Progress(c))

-----------------------------------------------------------------------------
(* "One call is one atomic unit of work": an observation is in the table    *)
(* only together with all the others of a call that passed it.              *)
StoredInWholeBatches ==
  \A k \in Identities : table[k] # None =>
    \E c \in Calls : /\ [key |-> k, value |-> table[k]] \in batch[c]
                     /\ \A e \in batch[c] : table[e.key] = e.value

absAnswer == [c \in Calls |-> IF stage[c] \in CallEnds THEN stage[c] ELSE "none"]

Port == INSTANCE WriteOnceStore WITH Keys <- Identities, Values <- Observations,
                                     stored <- table, request <- batch, answer <- absAnswer

(* ConsumptionRepositoryPort: to its callers the repository is a write-once *)
(* store; no committed observation is ever replaced.                        *)
ImplementsPort == Port!Spec

(* A call that asks for a connection gets an answer: deadlocks are broken,  *)
(* and rows and connections come back whichever way a transaction ends.     *)
CallsEnd == \A c \in Calls : stage[c] = "connect" ~> stage[c] \in CallEnds
=============================================================================
