----------------------------- MODULE FilesystemDLQ ----------------------------
(***************************************************************************)
(* FilesystemDeadLetterQueue.enqueue: one JSON file per record_id, created *)
(* with open("x").  Every call runs in a worker thread of its own, so the  *)
(* filesystem calls of different enqueues interleave; a caller that is     *)
(* cancelled leaves its thread running, which is a call whose answer       *)
(* nobody reads.  Nothing locks a file, and the only repair is a           *)
(* best-effort unlink.  The process can crash between any two steps.       *)
(***************************************************************************)
EXTENDS Naturals

CONSTANTS Ids,          \* record_ids
          Contents,     \* canonical metadata a record can have
          Calls,        \* enqueue calls
          MaxFailures,  \* bound on OSErrors
          MaxCrashes,   \* bound on process crashes
          CloseMayFail, \* may close() report an error after the bytes are visible?
          None, Torn

ASSUME DLQAssumption ==
  /\ MaxFailures \in Nat /\ MaxCrashes \in Nat /\ CloseMayFail \in BOOLEAN
  /\ None # Torn /\ {None, Torn} \cap Contents = {}

Records == [key : Ids, value : Contents]

VARIABLES file,      \* file[i]: None, Torn (exists, not a whole record), or its content
          pc,        \* pc[c]: the step of _enqueue_sync, or how the call ended
          request,   \* request[c]: the record passed to enqueue, as a set of at most one
          failures, crashes

vars == <<file, pc, request, failures, crashes>>

InFlight == {"mkdir", "open", "write", "close", "unlink", "reconcile"}
Owning   == {"write", "close", "unlink"}   \* its open("x") created the file
Ends     == {"ok", "conflict", "unavailable"}

record(c) == CHOOSE r \in request[c] : TRUE

TypeOK ==
  /\ file \in [Ids -> Contents \cup {None, Torn}]
  /\ pc \in [Calls -> {"idle"} \cup InFlight \cup Ends]
  /\ request \in [Calls -> {{}} \cup {{r} : r \in Records}]
  /\ \A c \in Calls : pc[c] = "idle" <=> request[c] = {}
  /\ \A c \in Calls : pc[c] \in Owning => file[record(c).key] # None
  /\ failures \in 0 .. MaxFailures /\ crashes \in 0 .. MaxCrashes

Init ==
  /\ file = [i \in Ids |-> None]
  /\ pc = [c \in Calls |-> "idle"]
  /\ request = [c \in Calls |-> {}]
  /\ failures = 0 /\ crashes = 0

Goto(c, where) == pc' = [pc EXCEPT ![c] = where]
Set(c, content) == file' = [file EXCEPT ![record(c).key] = content]

Enqueue(c) ==
  /\ pc[c] = "idle"
  /\ \E r \in Records : request' = [request EXCEPT ![c] = {r}]
  /\ Goto(c, "mkdir")
  /\ UNCHANGED <<file, failures, crashes>>

Mkdir(c) ==
  /\ pc[c] = "mkdir"
  /\ Goto(c, "open")
  /\ UNCHANGED <<file, request, failures, crashes>>

OpenTruncating(c) ==          \* mutant: mode "w" takes over a file that exists
  /\ pc[c] = "open"
  /\ Set(c, Torn) /\ Goto(c, "write")
  /\ UNCHANGED <<request, failures, crashes>>

(* open("x") creates an empty file, or finds that one exists.               *)
Open(c) ==
  /\ pc[c] = "open"
  /\ IF file[record(c).key] = None
       THEN Set(c, Torn) /\ Goto(c, "write")
       ELSE Goto(c, "reconcile") /\ UNCHANGED file
  /\ UNCHANGED <<request, failures, crashes>>

(* handle.write and the flush of close(): the whole record is visible.      *)
Write(c) ==
  /\ pc[c] = "write"
  /\ Set(c, record(c).value)
  /\ Goto(c, "close")
  /\ UNCHANGED <<request, failures, crashes>>

Close(c) ==
  /\ pc[c] = "close"
  /\ Goto(c, "ok")
  /\ UNCHANGED <<file, request, failures, crashes>>

UnlinkSkipped(c) ==           \* mutant: a failed write leaves its file behind
  /\ pc[c] = "unlink"
  /\ Goto(c, "unavailable")
  /\ UNCHANGED <<file, request, failures, crashes>>

(* _best_effort_unlink, then DependencyUnavailableError.                    *)
Unlink(c) ==
  /\ pc[c] = "unlink"
  /\ Set(c, None)
  /\ Goto(c, "unavailable")
  /\ UNCHANGED <<request, failures, crashes>>

ReconcileNoRepeat(c) ==       \* mutant: an equal record that exists is not accepted
  /\ pc[c] = "reconcile"
  /\ Goto(c, IF file[record(c).key] \in {None, Torn, record(c).value} THEN "unavailable"
             ELSE "conflict")
  /\ UNCHANGED <<file, request, failures, crashes>>

(* _reconcile_existing: a file that has gone or does not parse is           *)
(* unavailable, an equal record a no-op, any other a conflict.              *)
Reconcile(c) ==
  /\ pc[c] = "reconcile"
  /\ Goto(c, IF file[record(c).key] \in {None, Torn} THEN "unavailable"
             ELSE IF file[record(c).key] = record(c).value THEN "ok"
             ELSE "conflict")
  /\ UNCHANGED <<file, request, failures, crashes>>

(* An OSError.  Once the file is created, write and close errors lead to    *)
(* the unlink, whose own error is swallowed; all others end the call.       *)
Fail(c) ==
  /\ pc[c] \in InFlight
  /\ pc[c] = "close" => CloseMayFail
  /\ failures < MaxFailures
  /\ failures' = failures + 1
  /\ Goto(c, IF pc[c] \in {"write", "close"} THEN "unlink" ELSE "unavailable")
  /\ UNCHANGED <<file, request, crashes>>

(* The process dies with all its threads; the files stay as they are.       *)
Crash ==
  /\ crashes < MaxCrashes
  /\ \E c \in Calls : pc[c] \in InFlight
  /\ crashes' = crashes + 1
  /\ pc' = [c \in Calls |-> IF pc[c] \in InFlight THEN "unavailable" ELSE pc[c]]
  /\ UNCHANGED <<file, request, failures>>

(* The caller, or its restarted process, enqueues the same record again.    *)
Retry(c) ==
  /\ pc[c] = "unavailable"
  /\ Goto(c, "mkdir")
  /\ UNCHANGED <<file, request, failures, crashes>>

Step(c) ==
  Mkdir(c) \/ Open(c) \/ Write(c) \/ Close(c) \/ Unlink(c) \/ Reconcile(c)

Next ==
  \/ \E c \in Calls : Enqueue(c) \/ Step(c) \/ Fail(c) \/ Retry(c)
  \/ Crash

Spec == Init /\ [][Next]_vars

(* Threads run, and a caller whose record was not accepted retries it.      *)
FairSpec == Spec /\ \A c \in Calls : WF_vars(Step(c)) /\ WF_vars(Retry(c))

-----------------------------------------------------------------------------
(* An enqueue that returned has its record on disk, and no later call of    *)
(* any thread, failing or not, removes or replaces it.                      *)
AcknowledgedIsStored ==
  \A c \in Calls : pc[c] = "ok" => file[record(c).key] = record(c).value

(* ConflictError means that a different whole record has the id for good.   *)
ConflictIsReal ==
  \A c \in Calls : pc[c] = "conflict" =>
    file[record(c).key] \in Contents \ {record(c).value}

(* open("x") is the only lock there is: of the calls for one record_id at   *)
(* most one may write, close or unlink the file, whatever failed before.    *)
ExclusiveWriter ==
  \A c, d \in Calls : /\ pc[c] \in Owning /\ pc[d] \in Owning
                      /\ record(c).key = record(d).key
                      => c = d

absStored == [i \in Ids |-> IF file[i] \in Contents THEN file[i] ELSE None]
absAnswer == [c \in Calls |-> IF pc[c] \in Ends THEN pc[c] ELSE "none"]

Port == INSTANCE WriteOnceStore WITH Keys <- Ids, Values <- Contents,
                                     stored <- absStored, answer <- absAnswer

(* DeadLetterQueuePort: a write-once store keyed by record_id, through      *)
(* crashes and failed writes.                                               *)
ImplementsPort == Port!Spec

(* A file that holds no whole record and that no running call will finish.  *)
Orphaned(i) ==
  file[i] = Torn /\ \A c \in Calls : pc[c] \in Owning => record(c).key # i

(* What stands in the way of a retry is an orphaned file and nothing else:  *)
(* however calls, errors and crashes interleave, a record that is retried   *)
(* is stored or refused by a conflict, unless its file has been orphaned.   *)
OnlyOrphansBlockRetries ==
  \A c \in Calls :
    pc[c] = "mkdir" ~> pc[c] \in {"ok", "conflict"} \/ \E r \in request[c] : Orphaned(r.key)

(* _best_effort_unlink: it takes a crash, or a failed write and then a      *)
(* failed unlink, to orphan a file; one error never does.                   *)
OneErrorLeavesNoOrphan ==
  (\E i \in Ids : Orphaned(i)) => crashes > 0 \/ failures > 1

(* "Retrying the exact same canonical record is idempotent": a caller that  *)
(* retries a record after an error gets it stored, or a conflict.           *)
RetriesConverge ==
  \A c \in Calls : pc[c] = "mkdir" ~> pc[c] \in {"ok", "conflict"}
=============================================================================
