-------------------------- MODULE DocumentVectorIndex -------------------------
(***************************************************************************)
(* QdrantDocumentVectorIndex.index: several callers index batches of       *)
(* entries into one collection, and nothing locks it.  A point's key is    *)
(* the UUID of (document_id, chunk_id), its value the SHA-256 fingerprint  *)
(* of the entry that its payload carries.                                  *)
(*                                                                         *)
(* The server applies the points of an upsert one at a time, other callers *)
(* in between; a request whose caller got a backend error may have been    *)
(* lost, or may still be applied.  A retrieve may miss points it should    *)
(* have seen when StaleReads holds (another replica answers).              *)
(***************************************************************************)
EXTENDS Naturals

CONSTANTS Ids,          \* point ids
          Fingerprints, \* contents an entry can have
          WrongSize,    \* those whose vector lacks the configured dimension
          Calls,        \* index calls
          MaxFailures,  \* bound on backend errors
          StaleReads,   \* may a retrieve miss a stored point?
          NoPoint

ASSUME IndexAssumption ==
  /\ MaxFailures \in Nat /\ StaleReads \in BOOLEAN
  /\ NoPoint \notin Fingerprints /\ WrongSize \subseteq Fingerprints

Entries == [key : Ids, value : Fingerprints]

VARIABLES points,    \* points[i]: the fingerprint stored under id i, or None
          pc,        \* pc[c]: idle, coalesce, retrieve, upsert, verify, or the call's end
          batch,     \* batch[c]: the entries passed to index
          toInsert,  \* toInsert[c]: the entries the first retrieve did not find
          wire,      \* wire[c]: points of its upsert the server has not applied
          failures   \* backend errors so far

indexVars == <<points, pc, batch, toInsert, wire, failures>>

IndexTypeOK ==
  /\ points \in [Ids -> Fingerprints \cup {NoPoint}]
  /\ pc \in [Calls -> {"idle", "coalesce", "retrieve", "upsert", "verify",
                       "ok", "conflict", "invalid", "unavailable"}]
  /\ batch \in [Calls -> SUBSET Entries]
  /\ toInsert \in [Calls -> SUBSET Entries]
  /\ wire \in [Calls -> SUBSET Entries]
  /\ \A c \in Calls : wire[c] \subseteq batch[c] /\ toInsert[c] \subseteq batch[c]
  /\ failures \in 0 .. MaxFailures

IndexInit ==
  /\ points = [i \in Ids |-> NoPoint]
  /\ pc = [c \in Calls |-> "idle"]
  /\ batch = [c \in Calls |-> {}]
  /\ toInsert = [c \in Calls |-> {}]
  /\ wire = [c \in Calls |-> {}]
  /\ failures = 0

Goto(c, where) == pc' = [pc EXCEPT ![c] = where]

(* _coalesce_entries: repeats collapse, two contents for one id conflict.   *)
SelfConflict(S) == \E d, e \in S : d.key = e.key /\ d # e

(* A caller passes its entries to index.                                    *)
Submit(c) ==
  /\ pc[c] = "idle"
  /\ \E S \in (SUBSET Entries) \ {{}} : batch' = [batch EXCEPT ![c] = S]
  /\ Goto(c, "coalesce")
  /\ UNCHANGED <<points, toInsert, wire, failures>>

(* index, before anything is sent: coalesce, then check the dimensions.     *)
Coalesce(c) ==
  /\ pc[c] = "coalesce"
  /\ Goto(c, IF SelfConflict(batch[c]) THEN "conflict"
             ELSE IF \E e \in batch[c] : e.value \in WrongSize THEN "invalid"
             ELSE "retrieve")
  /\ UNCHANGED <<points, batch, toInsert, wire, failures>>

(* What a retrieve for the ids of S can find.                               *)
Views(S) ==
  LET present == {e.key : e \in {d \in S : points[d.key] # NoPoint}}
  IN  IF StaleReads THEN SUBSET present ELSE {present}

(* The first retrieve and the comparison of fingerprints: a different one   *)
(* raises before anything is sent; the missing ones go into one upsert.     *)
Retrieve(c) ==
  /\ pc[c] = "retrieve"
  /\ \E view \in Views(batch[c]) :
       LET missing == {e \in batch[c] : e.key \notin view}
       IN  IF \E e \in batch[c] : e.key \in view /\ points[e.key] # e.value
             THEN Goto(c, "conflict") /\ UNCHANGED <<toInsert, wire>>
             ELSE /\ toInsert' = [toInsert EXCEPT ![c] = missing]
                  /\ wire' = [wire EXCEPT ![c] = @ \cup missing]
                  /\ Goto(c, IF missing = {} THEN "ok" ELSE "upsert")
  /\ UNCHANGED <<points, batch, failures>>

ApplyOverwriting(c) ==        \* mutant: the default update mode replaces a stored point
  \E e \in wire[c] :
    /\ wire' = [wire EXCEPT ![c] = @ \ {e}]
    /\ points' = [points EXCEPT ![e.key] = e.value]
    /\ UNCHANGED <<pc, batch, toInsert, failures>>

(* The server applies one point of an INSERT_ONLY upsert.                   *)
ApplyPoint(c) ==
  \E e \in wire[c] :
    /\ wire' = [wire EXCEPT ![c] = @ \ {e}]
    /\ points' = [points EXCEPT ![e.key] = IF @ = NoPoint THEN e.value ELSE @]
    /\ UNCHANGED <<pc, batch, toInsert, failures>>

(* upsert(wait=True) answers once each of its points was applied or ignored.*)
UpsertAnswers(c) ==
  /\ pc[c] = "upsert"
  /\ wire[c] \cap toInsert[c] = {}
  /\ Goto(c, "verify")
  /\ UNCHANGED <<points, batch, toInsert, wire, failures>>

(* The second retrieve: each point sent must be there, with the fingerprint *)
(* of this caller's entry.  The first entry at fault, in the caller's       *)
(* order, decides which error is raised.                                    *)
Verify(c) ==
  /\ pc[c] = "verify"
  /\ \E view \in Views(toInsert[c]) :
       LET atFault == {e \in toInsert[c] : e.key \notin view \/ points[e.key] # e.value}
           ends == {IF e.key \in view THEN "conflict" ELSE "unavailable" : e \in atFault}
       IN  \E end \in IF atFault = {} THEN {"ok"} ELSE ends : Goto(c, end)
  /\ UNCHANGED <<points, batch, toInsert, wire, failures>>

(* A backend error in any of the three calls; what an unanswered upsert     *)
(* still has on the wire may be lost or applied later.                      *)
BackendError(c) ==
  /\ pc[c] \in {"retrieve", "upsert", "verify"}
  /\ failures < MaxFailures
  /\ failures' = failures + 1
  /\ \E late \in SUBSET wire[c] : wire' = [wire EXCEPT ![c] = late]
  /\ Goto(c, "unavailable")
  /\ UNCHANGED <<points, batch, toInsert>>

RetryVerifyOnly(c) ==         \* mutant: a retry trusts that its upsert went through
  /\ pc[c] = "unavailable"
  /\ Goto(c, "verify")
  /\ UNCHANGED <<points, batch, toInsert, wire, failures>>

(* The caller retries the very same entries; points of an earlier attempt   *)
(* may still be on the wire.                                                *)
Retry(c) ==
  /\ pc[c] = "unavailable"
  /\ Goto(c, "coalesce")
  /\ toInsert' = [toInsert EXCEPT ![c] = {}]
  /\ UNCHANGED <<points, batch, wire, failures>>

IndexNext ==
  \E c \in Calls :
    \/ Submit(c) \/ Coalesce(c) \/ Retrieve(c) \/ ApplyPoint(c) \/ UpsertAnswers(c)
    \/ Verify(c) \/ BackendError(c) \/ Retry(c)

IndexSpec == IndexInit /\ [][IndexNext]_indexVars

(* A second retrieve that sees what was applied.                            *)
VerifyCurrent(c) == Verify(c) /\ pc'[c] # "unavailable"

(* The server answers what reaches it, callers retry, errors are bounded,   *)
(* and a replica does not lag behind forever.                               *)
FairSpec ==
  /\ IndexSpec
  /\ \A c \in Calls :
       /\ WF_indexVars(Coalesce(c)) /\ WF_indexVars(Retrieve(c)) /\ WF_indexVars(ApplyPoint(c))
       /\ WF_indexVars(UpsertAnswers(c)) /\ WF_indexVars(Verify(c)) /\ WF_indexVars(Retry(c))
       /\ SF_indexVars(VerifyCurrent(c))

-----------------------------------------------------------------------------
(* A call that returned has every entry of its batch stored as it was sent, *)
(* whoever else indexed the same chunks meanwhile.                          *)
AcknowledgedIsStored ==
  \A c \in Calls : pc[c] = "ok" => \A e \in batch[c] : points[e.key] = e.value

(* ConflictError is raised only for a batch that contradicts itself or the  *)
(* collection.                                                              *)
ConflictIsReal ==
  \A c \in Calls : pc[c] = "conflict" =>
    SelfConflict(batch[c]) \/ \E e \in batch[c] : points[e.key] \notin {NoPoint, e.value}

absAnswer == [c \in Calls |-> IF pc[c] \in {"ok", "conflict", "invalid", "unavailable"}
                                THEN pc[c] ELSE "none"]

Port == INSTANCE WriteOnceStore WITH Keys <- Ids, Values <- Fingerprints, None <- NoPoint,
                                     stored <- points, request <- batch, answer <- absAnswer

(* DocumentVectorIndexPort: without a lock, a transaction or a single       *)
(* atomic step, index is still a write-once store to its callers; a point,  *)
(* once written, is never replaced.                                         *)
ImplementsPort == Port!Spec

(* Retrying the same entries converges: once backend errors stop and reads  *)
(* catch up, a batch that passed the checks is stored or refused for good,  *)
(* whatever part of it earlier attempts left behind.                        *)
RetriesConverge ==
  \A c \in Calls : pc[c] = "retrieve" ~> pc[c] \in {"ok", "conflict"}
=============================================================================
