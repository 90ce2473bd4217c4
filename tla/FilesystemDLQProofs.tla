-------------------------- MODULE FilesystemDLQProofs -------------------------
(***************************************************************************)
(* For any number of threads, ids, contents, OSErrors and crashes, a file  *)
(* of the filesystem queue has one owner at most, and it takes a crash or  *)
(* two errors to leave a torn one behind; this whether or not close() may  *)
(* fail.  The queue is a write-once store provided that close() does not   *)
(* fail after the record is visible: without that proviso it is not, since *)
(* the unlink then removes a record that another call was told is stored.  *)
(***************************************************************************)
EXTENDS FilesystemDLQ, TLAPS

(* What a call that created the file knows about it until it lets go.       *)
OwnersKnowFile ==
  \A c \in Calls :
    /\ pc[c] \in {"write", "unlink"} => file[record(c).key] = Torn
    /\ pc[c] = "close" => file[record(c).key] = record(c).value

IInv == /\ TypeOK /\ OwnersKnowFile /\ ExclusiveWriter
        /\ AcknowledgedIsStored /\ ConflictIsReal

(* A call past its start has one record.                                    *)
LEMMA RecordOf ==
  ASSUME TypeOK, NEW c \in Calls, pc[c] # "idle"
  PROVE  record(c) \in Records /\ request[c] = {record(c)}
<1>1. request[c] # {} /\ request[c] \in {{}} \cup {{r} : r \in Records}
  BY DEF TypeOK
<1>2. PICK r \in Records : request[c] = {r}
  BY <1>1
<1>3. record(c) \in request[c]
  BY <1>2 DEF record
<1> QED BY <1>2, <1>3

(* A step that leaves the requests alone leaves every call its record.      *)
LEMMA RecordStays ==
  ASSUME request' = request, NEW c
  PROVE  record(c)' = record(c)
BY DEF record

(* An empty queue and idle callers satisfy the invariant.                   *)
LEMMA Initially == Init => IInv
<1> SUFFICES ASSUME Init PROVE IInv
  OBVIOUS
<1>1. TypeOK
  BY DLQAssumption DEF Init, TypeOK, Owning, InFlight, Ends
<1> QED BY <1>1 DEF Init, IInv, OwnersKnowFile, ExclusiveWriter, AcknowledgedIsStored, ConflictIsReal, Owning

(* Steps that do not touch a file, and leave their call where it owns no    *)
(* more than before and claims nothing that is not so.                      *)
LEMMA QuietStep ==
  ASSUME IInv, request' = request, file' = file,
         failures' \in 0 .. MaxFailures, crashes' \in 0 .. MaxCrashes,
         pc' \in [Calls -> InFlight \cup Ends \cup {"idle"}],
         \A c \in Calls : pc[c] = "idle" <=> pc'[c] = "idle",
         \A c \in Calls : pc'[c] \in Owning \cup {"ok", "conflict"} =>
           \/ pc'[c] = pc[c]
           \/ pc[c] = "write" /\ pc'[c] = "unlink"
           \/ pc'[c] = "ok" /\ file[record(c).key] = record(c).value
           \/ pc'[c] = "conflict" /\ file[record(c).key] \in Contents \ {record(c).value}
  PROVE  IInv'
<1>0. \A c : record(c)' = record(c)
  BY RecordStays
<1>1. TypeOK'
  BY <1>0 DEF IInv, TypeOK, Owning
<1>2. OwnersKnowFile' /\ ExclusiveWriter'
  BY <1>0 DEF IInv, OwnersKnowFile, ExclusiveWriter, Owning
<1>3. AcknowledgedIsStored' /\ ConflictIsReal'
  BY <1>0 DEF IInv, AcknowledgedIsStored, ConflictIsReal
<1> QED BY <1>1, <1>2, <1>3 DEF IInv

(* A new call owns nothing and has reported nothing.                        *)
LEMMA EnqueueKeeps ==
  ASSUME IInv, NEW c \in Calls, Enqueue(c)
  PROVE  IInv'
<1>1. PICK r \in Records : request' = [request EXCEPT ![c] = {r}]
  BY DEF Enqueue
<1>2. /\ pc[c] = "idle" /\ pc' = [pc EXCEPT ![c] = "mkdir"] /\ UNCHANGED <<file, failures, crashes>>
  BY DEF Enqueue, Goto
<1>3. \A d \in Calls \ {c} : request'[d] = request[d] /\ pc'[d] = pc[d] /\ record(d)' = record(d)
  BY <1>1, <1>2 DEF IInv, TypeOK, record
<1>4. pc'[c] = "mkdir" /\ request'[c] = {r}
  BY <1>1, <1>2 DEF IInv, TypeOK
<1>5. TypeOK'
  BY <1>1, <1>2, <1>3, <1>4 DEF IInv, TypeOK, Owning, InFlight
<1>6. OwnersKnowFile' /\ ExclusiveWriter' /\ AcknowledgedIsStored' /\ ConflictIsReal'
  BY <1>2, <1>3, <1>4
  DEF IInv, OwnersKnowFile, ExclusiveWriter, AcknowledgedIsStored, ConflictIsReal, Owning
<1> QED BY <1>5, <1>6 DEF IInv

(* Open("x") takes a name nobody has; Write completes, and Unlink removes,  *)
(* a torn file of the call's own: no acknowledgement rests on any of them.  *)
LEMMA FileStepKeeps ==
  ASSUME IInv, NEW c \in Calls, NEW content \in Contents \cup {None, Torn}, NEW where,
         pc[c] \in InFlight, Set(c, content), Goto(c, where),
         UNCHANGED <<request, failures, crashes>>,
         \/ pc[c] = "open" /\ where = "write" /\ content = Torn /\ file[record(c).key] = None
         \/ pc[c] = "write" /\ where = "close" /\ content = record(c).value
         \/ pc[c] = "unlink" /\ where = "unavailable" /\ content = None
  PROVE  IInv'
<1>0. (\A d : record(d)' = record(d)) /\ record(c) \in Records
  BY RecordStays, RecordOf DEF IInv, InFlight
<1>1. /\ pc' = [pc EXCEPT ![c] = where] /\ file' = [file EXCEPT ![record(c).key] = content]
      /\ where \in {"write", "close", "unavailable"}
  BY DEF Set, Goto
<1>2. /\ pc'[c] = where /\ file'[record(c).key] = content
      /\ \A d \in Calls \ {c} : pc'[d] = pc[d]
      /\ \A i \in Ids \ {record(c).key} : file'[i] = file[i]
  BY <1>0, <1>1 DEF IInv, TypeOK, Records
<1>3. file[record(c).key] \in {None, Torn}
  BY DEF IInv, OwnersKnowFile
<1>4. \A d \in Calls \ {c} : pc[d] \in Owning => record(d).key # record(c).key
  BY <1>0 DEF IInv, TypeOK, ExclusiveWriter, Owning
<1>5. \A d \in Calls \ {c} : pc[d] \in {"ok", "conflict"} => record(d).key # record(c).key
  BY <1>3, RecordOf, DLQAssumption DEF IInv, AcknowledgedIsStored, ConflictIsReal, Records
<1>6. \A d \in Calls : pc[d] # "idle" => record(d).key \in Ids
  BY RecordOf DEF IInv, Records
<1>7. TypeOK'
  <2>1. file' \in [Ids -> Contents \cup {None, Torn}] /\ pc' \in [Calls -> {"idle"} \cup InFlight \cup Ends]
    BY <1>1 DEF IInv, TypeOK, InFlight, Ends
  <2>2. \A d \in Calls : pc'[d] \in Owning => file'[record(d).key] # None
    <3>1. pc'[c] \in Owning => file'[record(c).key] # None
      BY <1>0, <1>2, DLQAssumption DEF Owning, Records
    <3>2. \A d \in Calls \ {c} : pc'[d] \in Owning => file'[record(d).key] # None
      BY <1>2, <1>4, <1>6 DEF IInv, TypeOK, Owning
    <3> QED BY <3>1, <3>2
  <2>3. \A d \in Calls : pc'[d] = "idle" <=> request'[d] = {}
    BY <1>1, <1>2 DEF IInv, TypeOK, InFlight
  <2> QED BY <1>0, <2>1, <2>2, <2>3 DEF IInv, TypeOK
<1>8. OwnersKnowFile'
  BY <1>0, <1>1, <1>2, <1>4, <1>6 DEF IInv, OwnersKnowFile, Owning
<1>9. ExclusiveWriter'
  BY <1>0, <1>2, <1>4 DEF IInv, ExclusiveWriter, Owning
<1>10. AcknowledgedIsStored' /\ ConflictIsReal'
  BY <1>0, <1>1, <1>2, <1>5, <1>6 DEF IInv, AcknowledgedIsStored, ConflictIsReal
<1> QED BY <1>7, <1>8, <1>9, <1>10 DEF IInv

(* Every step preserves the invariant.                                      *)
LEMMA NextKeeps ==
  ASSUME ~CloseMayFail, IInv, [Next]_vars
  PROVE  IInv'
<1> USE DEF IInv
<1>1. ASSUME NEW c \in Calls, Enqueue(c) PROVE IInv'
  BY <1>1, EnqueueKeeps
<1>2. ASSUME NEW c \in Calls, Mkdir(c) PROVE IInv'
  BY <1>2, QuietStep DEF Mkdir, Goto, TypeOK, InFlight, Ends, Owning
<1>3. ASSUME NEW c \in Calls, Open(c) PROVE IInv'
  <2>1. CASE file[record(c).key] = None
    BY <1>3, <2>1, FileStepKeeps DEF Open, InFlight
  <2>2. CASE file[record(c).key] # None
    BY <1>3, <2>2, QuietStep DEF Open, Goto, TypeOK, InFlight, Ends, Owning
  <2> QED BY <2>1, <2>2
<1>4. ASSUME NEW c \in Calls, Write(c) PROVE IInv'
  <2>1. record(c).value \in Contents
    BY <1>4, RecordOf DEF Write, Records
  <2> QED BY <1>4, <2>1, FileStepKeeps DEF Write, InFlight
<1>5. ASSUME NEW c \in Calls, Close(c) PROVE IInv'
  BY <1>5, QuietStep DEF Close, Goto, TypeOK, InFlight, Ends, Owning, OwnersKnowFile
<1>6. ASSUME NEW c \in Calls, Unlink(c) PROVE IInv'
  BY <1>6, FileStepKeeps DEF Unlink, InFlight
<1>7. ASSUME NEW c \in Calls, Reconcile(c) PROVE IInv'
  <2>1. file[record(c).key] \in Contents \cup {None, Torn}
    BY <1>7, RecordOf DEF Reconcile, Records, TypeOK
  <2> QED BY <1>7, <2>1, QuietStep DEF Reconcile, Goto, TypeOK, InFlight, Ends, Owning
<1>8. ASSUME NEW c \in Calls, Fail(c) PROVE IInv'
  <2>1. failures' \in 0 .. MaxFailures
    BY <1>8, DLQAssumption DEF Fail, TypeOK
  <2> QED BY <1>8, <2>1, QuietStep DEF Fail, Goto, TypeOK, InFlight, Ends, Owning
<1>9. ASSUME NEW c \in Calls, Retry(c) PROVE IInv'
  BY <1>9, QuietStep DEF Retry, Goto, TypeOK, InFlight, Ends, Owning
<1>10. CASE Crash
  <2>1. crashes' \in 0 .. MaxCrashes
    BY <1>10, DLQAssumption DEF Crash, TypeOK
  <2> QED BY <1>10, <2>1, QuietStep DEF Crash, TypeOK, InFlight, Ends, Owning
<1>11. CASE UNCHANGED vars
  BY <1>11, QuietStep DEF vars, TypeOK, InFlight, Ends, Owning
<1> QED BY <1>1, <1>2, <1>3, <1>4, <1>5, <1>6, <1>7, <1>8, <1>9, <1>10, <1>11 DEF Next, Step

(* The inductive invariant holds of every reachable state.                  *)
THEOREM InvariantHolds ==
  ASSUME ~CloseMayFail
  PROVE  Spec => []IInv
<1>1. IInv /\ [Next]_vars => IInv'
  BY NextKeeps
<1> QED BY Initially, <1>1, PTL DEF Spec

(* An acknowledged record is on disk, and stays there.                      *)
THEOREM AcknowledgementsHold ==
  ASSUME ~CloseMayFail
  PROVE  Spec => []AcknowledgedIsStored
<1>1. IInv => AcknowledgedIsStored
  BY DEF IInv
<1> QED BY InvariantHolds, <1>1, PTL

(* ConflictError is only raised against a different record that is stored.  *)
THEOREM ConflictsAreReal ==
  ASSUME ~CloseMayFail
  PROVE  Spec => []ConflictIsReal
<1>1. IInv => ConflictIsReal
  BY DEF IInv
<1> QED BY InvariantHolds, <1>1, PTL

-----------------------------------------------------------------------------
(* Who owns a file, whatever close() does.  A torn file is about to be      *)
(* written, or to be unlinked after an error, or it took more to leave it.  *)
TornHasCause ==
  \A i \in Ids : file[i] = Torn =>
    \/ crashes > 0 \/ failures > 1
    \/ \E c \in Calls : record(c).key = i /\ (pc[c] = "write" \/ (pc[c] = "unlink" /\ failures > 0))

Ownership == TypeOK /\ ExclusiveWriter /\ TornHasCause

(* Steps that touch no file and create no owner.                            *)
LEMMA OwnershipQuiet ==
  ASSUME Ownership, request' = request, file' = file, TypeOK',
         failures' \in Nat, crashes' \in Nat, failures <= failures', crashes <= crashes',
         \A c \in Calls : pc'[c] \in Owning => pc[c] \in Owning,
         \A c \in Calls :
           \/ pc'[c] = pc[c]
           \/ pc[c] \notin {"write", "unlink"}
           \/ pc[c] = "write" /\ pc'[c] = "unlink" /\ failures' > 0
           \/ crashes' > 0
           \/ pc[c] = "unlink" /\ failures' = failures + 1
  PROVE  Ownership'
<1>0. \A c : record(c)' = record(c)
  BY RecordStays
<1>1. ExclusiveWriter'
  BY <1>0 DEF Ownership, ExclusiveWriter
<1>2. TornHasCause'
  <2> SUFFICES ASSUME NEW i \in Ids, file'[i] = Torn, ~(crashes' > 0), ~(failures' > 1)
               PROVE  \E c \in Calls : record(c)'.key = i /\ (pc'[c] = "write" \/ (pc'[c] = "unlink" /\ failures' > 0))
    BY DEF TornHasCause
  <2>1. failures \in Nat /\ crashes \in Nat
    BY DLQAssumption DEF Ownership, TypeOK
  <2>2. PICK c \in Calls : record(c).key = i /\ (pc[c] = "write" \/ (pc[c] = "unlink" /\ failures > 0))
    BY <2>1 DEF Ownership, TornHasCause
  <2>3. pc'[c] = "write" \/ (pc'[c] = "unlink" /\ failures' > 0)
    BY <2>1, <2>2
  <2> QED BY <1>0, <2>2, <2>3
<1> QED BY <1>1, <1>2 DEF Ownership

(* Open("x"), Write and Unlink change the file of their own call only.      *)
LEMMA OwnershipOfFileStep ==
  ASSUME Ownership, NEW c \in Calls, NEW content \in Contents \cup {None, Torn}, NEW where,
         pc[c] \in InFlight, Set(c, content), Goto(c, where), UNCHANGED <<request, failures, crashes>>,
         \/ pc[c] = "open" /\ where = "write" /\ content = Torn /\ file[record(c).key] = None
         \/ pc[c] = "write" /\ where = "close" /\ content \in Contents
         \/ pc[c] = "unlink" /\ where = "unavailable" /\ content = None
  PROVE  Ownership'
<1> USE DEF Ownership
<1>0. (\A d : record(d)' = record(d)) /\ record(c) \in Records
  BY RecordStays, RecordOf DEF InFlight
<1>1. /\ \A d \in Calls : pc'[d] = IF d = c THEN where ELSE pc[d]
      /\ \A i \in Ids : file'[i] = IF i = record(c).key THEN content ELSE file[i]
      /\ record(c).key \in Ids
  BY <1>0 DEF Set, Goto, TypeOK, Records
<1>2. \A d \in Calls \ {c} : pc[d] \in Owning => record(d).key # record(c).key
  BY DEF TypeOK, ExclusiveWriter, Owning
<1>3. \A d \in Calls : pc[d] # "idle" => record(d).key \in Ids
  BY RecordOf DEF Records
<1>4. TypeOK'
  <2>1. /\ file' \in [Ids -> Contents \cup {None, Torn}]
        /\ pc' \in [Calls -> {"idle"} \cup InFlight \cup Ends]
    BY DEF Set, Goto, TypeOK, InFlight, Ends
  <2>2. \A d \in Calls : pc'[d] \in Owning => file'[record(d).key] # None
    <3>1. pc'[c] \in Owning => file'[record(c).key] # None
      BY <1>1, DLQAssumption DEF Owning
    <3>2. \A d \in Calls \ {c} : pc'[d] \in Owning => file'[record(d).key] # None
      BY <1>1, <1>2, <1>3 DEF TypeOK, Owning
    <3> QED BY <3>1, <3>2
  <2>3. \A d \in Calls : pc'[d] = "idle" <=> request'[d] = {}
    BY <1>1 DEF TypeOK, InFlight
  <2> QED BY <1>0, <2>1, <2>2, <2>3 DEF TypeOK
<1>5. ExclusiveWriter'
  BY <1>0, <1>1, <1>2 DEF ExclusiveWriter, Owning
<1>6. TornHasCause'
  <2> SUFFICES ASSUME NEW i \in Ids, file'[i] = Torn, ~(crashes > 0), ~(failures > 1)
               PROVE  \E d \in Calls : record(d).key = i /\ (pc'[d] = "write" \/ (pc'[d] = "unlink" /\ failures > 0))
    BY <1>0 DEF TornHasCause
  <2>1. CASE i = record(c).key
    <3>1. pc'[c] = "write"
      BY <1>1, <2>1, DLQAssumption
    <3> QED BY <2>1, <3>1
  <2>2. CASE i # record(c).key
    <3>1. PICK d \in Calls : record(d).key = i /\ (pc[d] = "write" \/ (pc[d] = "unlink" /\ failures > 0))
      BY <1>1, <2>2 DEF TornHasCause
    <3> QED BY <1>1, <2>2, <3>1
  <2> QED BY <2>1, <2>2
<1> QED BY <1>4, <1>5, <1>6

(* A new call owns no file and its record is nobody else's business.        *)
LEMMA OwnershipOfEnqueue ==
  ASSUME Ownership, NEW c \in Calls, Enqueue(c)
  PROVE  Ownership'
<1> USE DEF Ownership
<1>1. PICK r \in Records : request' = [request EXCEPT ![c] = {r}]
  BY DEF Enqueue
<1>2. pc[c] = "idle" /\ pc' = [pc EXCEPT ![c] = "mkdir"] /\ UNCHANGED <<file, failures, crashes>>
  BY DEF Enqueue, Goto
<1>3. \A d \in Calls \ {c} : request'[d] = request[d] /\ pc'[d] = pc[d] /\ record(d)' = record(d)
  BY <1>1, <1>2 DEF TypeOK, record
<1>4. pc'[c] = "mkdir" /\ request'[c] = {r}
  BY <1>1, <1>2 DEF TypeOK
<1>5. TypeOK'
  BY <1>1, <1>2, <1>3, <1>4 DEF TypeOK, Owning, InFlight
<1>6. ExclusiveWriter' /\ TornHasCause'
  BY <1>2, <1>3, <1>4 DEF ExclusiveWriter, TornHasCause, Owning
<1> QED BY <1>5, <1>6

(* Every step preserves ownership, a close() that fails included.           *)
LEMMA NextKeepsOwnership ==
  ASSUME Ownership, [Next]_vars
  PROVE  Ownership'
<1> USE DEF Ownership
<1>0. failures \in Nat /\ crashes \in Nat
  BY DLQAssumption DEF TypeOK
<1>1. ASSUME NEW c \in Calls, Enqueue(c) PROVE Ownership'
  BY <1>1, OwnershipOfEnqueue
<1>2. ASSUME NEW c \in Calls, NEW where \in InFlight \cup Ends, Goto(c, where),
             file' = file, request' = request, crashes' = crashes,
             failures' \in 0 .. MaxFailures, failures <= failures',
             pc[c] \in InFlight \cup Ends,
             pc[c] \notin {"write", "unlink"} \/ failures' = failures + 1,
             where \in Owning => pc[c] \in {"write", "close"} /\ where = "unlink",
             pc[c] = "write" => where = "unlink"
      PROVE  Ownership'
  <2>0. \A d : record(d)' = record(d)
    BY <1>2, RecordStays
  <2>1. \A d \in Calls : pc'[d] = IF d = c THEN where ELSE pc[d]
    BY <1>2 DEF Goto, TypeOK
  <2>2. pc[c] # "idle"
    BY <1>2 DEF InFlight, Ends
  <2>3. pc' \in [Calls -> {"idle"} \cup InFlight \cup Ends]
    BY <1>2 DEF Goto, TypeOK
  <2>4. TypeOK'
    BY <1>2, <2>0, <2>1, <2>2, <2>3 DEF TypeOK, Owning, InFlight, Ends
  <2>5. failures' \in Nat /\ crashes' \in Nat /\ crashes <= crashes'
    BY <1>0, <1>2
  <2> QED BY <1>0, <1>2, <2>1, <2>4, <2>5, OwnershipQuiet DEF Owning
<1>3. ASSUME NEW c \in Calls, Mkdir(c) PROVE Ownership'
  BY <1>0, <1>2, <1>3 DEF Mkdir, InFlight, Ends, Owning, TypeOK
<1>4. ASSUME NEW c \in Calls, Open(c) PROVE Ownership'
  <2>1. CASE file[record(c).key] = None
    BY <1>4, <2>1, OwnershipOfFileStep DEF Open, InFlight
  <2>2. CASE file[record(c).key] # None
    BY <1>0, <1>2, <1>4, <2>2 DEF Open, InFlight, Ends, Owning, TypeOK
  <2> QED BY <2>1, <2>2
<1>5. ASSUME NEW c \in Calls, Write(c) PROVE Ownership'
  <2>1. record(c).value \in Contents
    BY <1>5, RecordOf DEF Write, Records
  <2> QED BY <1>5, <2>1, OwnershipOfFileStep DEF Write, InFlight
<1>6. ASSUME NEW c \in Calls, Close(c) PROVE Ownership'
  BY <1>0, <1>2, <1>6 DEF Close, InFlight, Ends, Owning, TypeOK
<1>7. ASSUME NEW c \in Calls, Unlink(c) PROVE Ownership'
  BY <1>7, OwnershipOfFileStep DEF Unlink, InFlight
<1>8. ASSUME NEW c \in Calls, Reconcile(c) PROVE Ownership'
  <2>1. PICK where \in Ends : Goto(c, where)
    BY <1>8 DEF Reconcile, Ends
  <2> QED BY <1>0, <1>2, <1>8, <2>1 DEF Reconcile, InFlight, Ends, Owning, TypeOK
<1>9. ASSUME NEW c \in Calls, Fail(c) PROVE Ownership'
  <2>1. failures' \in 0 .. MaxFailures /\ failures <= failures' /\ failures' = failures + 1
    BY <1>0, <1>9, DLQAssumption DEF Fail, TypeOK
  <2>2. PICK where \in {"unlink", "unavailable"} :
          Goto(c, where) /\ (where = "unlink" <=> pc[c] \in {"write", "close"})
    BY <1>9 DEF Fail
  <2> QED BY <1>2, <1>9, <2>1, <2>2 DEF Fail, InFlight, Ends, Owning
<1>10. ASSUME NEW c \in Calls, Retry(c) PROVE Ownership'
  BY <1>0, <1>2, <1>10 DEF Retry, InFlight, Ends, Owning, TypeOK
<1>11. CASE Crash
  <2>0. \A d : record(d)' = record(d)
    BY <1>11, RecordStays DEF Crash
  <2>1. crashes' \in 0 .. MaxCrashes /\ crashes' > 0 /\ crashes <= crashes' /\ crashes' \in Nat
    BY <1>0, <1>11, DLQAssumption DEF Crash, TypeOK
  <2>2. TypeOK'
    BY <1>11, <2>0, <2>1 DEF Crash, TypeOK, InFlight, Ends, Owning
  <2> QED BY <1>0, <1>11, <2>1, <2>2, OwnershipQuiet DEF Crash, Owning, InFlight
<1>12. CASE UNCHANGED vars
  <2>1. TypeOK'
    BY <1>12, RecordStays DEF vars, TypeOK
  <2> QED BY <1>0, <1>12, <2>1, OwnershipQuiet DEF vars
<1> QED BY <1>1, <1>3, <1>4, <1>5, <1>6, <1>7, <1>8, <1>9, <1>10, <1>11, <1>12 DEF Next, Step

(* The ownership of files holds of every reachable state.                   *)
THEOREM OwnershipHolds == Spec => []Ownership
<1>1. Init => Ownership
  BY Initially, DLQAssumption DEF IInv, Ownership, TornHasCause, Init
<1>2. Ownership /\ [Next]_vars => Ownership'
  BY NextKeepsOwnership
<1> QED BY <1>1, <1>2, PTL DEF Spec

(* Whatever the threads do, the queue stays well-typed, and a call that     *)
(* created a file and has not let go of it finds it there.                  *)
THEOREM TypeCorrect == Spec => []TypeOK
<1>1. Ownership => TypeOK
  BY DEF Ownership
<1> QED BY OwnershipHolds, <1>1, PTL

(* Of the calls for one record_id at most one may write or unlink its file, *)
(* also when close() fails.                                                 *)
THEOREM OneWriter == Spec => []ExclusiveWriter
<1>1. Ownership => ExclusiveWriter
  BY DEF Ownership
<1> QED BY OwnershipHolds, <1>1, PTL

(* Among any number of calls one OSError, wherever it strikes, never leaves *)
(* a file that nobody will finish: _best_effort_unlink takes it away.       *)
THEOREM OneErrorIsCleanedUp == Spec => []OneErrorLeavesNoOrphan
<1>1. Ownership => OneErrorLeavesNoOrphan
  <2> SUFFICES ASSUME Ownership, NEW i \in Ids, Orphaned(i)
               PROVE  crashes > 0 \/ failures > 1
    BY DEF OneErrorLeavesNoOrphan
  <2>1. \A c \in Calls : record(c).key = i => pc[c] \notin {"write", "unlink"}
    BY DEF Orphaned, Owning
  <2> QED BY <2>1 DEF Ownership, TornHasCause, Orphaned
<1> QED BY OwnershipHolds, <1>1, PTL

-----------------------------------------------------------------------------
(* What the step of one call does to the state of the port.                 *)
LEMMA AbstractStep ==
  ASSUME IInv, NEW c \in Calls, NEW where, Goto(c, where)
  PROVE  absAnswer' = [absAnswer EXCEPT ![c] = IF where \in Ends THEN where ELSE "none"]
BY DEF absAnswer, Goto, IInv, TypeOK

(* An open call has asked for one record and has no answer yet.             *)
LEMMA OpenCallsAsked ==
  ASSUME IInv, NEW c \in Calls, pc[c] \in InFlight
  PROVE  /\ absAnswer[c] = "none" /\ request[c] = {record(c)} /\ record(c) \in Records
BY RecordOf DEF absAnswer, IInv, InFlight, Ends

(* A call that ends unavailable is the port's Fail for that call alone.     *)
LEMMA UnavailableMaps ==
  ASSUME IInv, NEW c \in Calls, pc[c] \in InFlight, Goto(c, "unavailable"),
         absStored' = absStored, request' = request
  PROVE  Port!Fail({c})
<1>1. absAnswer' = [absAnswer EXCEPT ![c] = "unavailable"]
  BY AbstractStep DEF Ends
<1>2. absAnswer[c] = "none" /\ request[c] # {}
  BY OpenCallsAsked
<1>3. absAnswer' = [d \in Calls |-> IF d \in {c} THEN "unavailable" ELSE absAnswer[d]]
  BY <1>1 DEF absAnswer
<1> QED BY <1>2, <1>3 DEF Port!Fail

(* A call that moves on without touching a whole record is a stutter.       *)
LEMMA StutterMaps ==
  ASSUME IInv, NEW c \in Calls, pc[c] \in InFlight, NEW where \in InFlight, Goto(c, where),
         absStored' = absStored, request' = request
  PROVE  UNCHANGED Port!vars
<1>1. absAnswer' = [absAnswer EXCEPT ![c] = "none"]
  BY AbstractStep DEF Ends, InFlight
<1>2. absAnswer' = absAnswer
  BY <1>1, OpenCallsAsked DEF absAnswer
<1> QED BY <1>2 DEF Port!vars

(* Every step of the queue is a step of the port, or none.                  *)
LEMMA NextMaps ==
  ASSUME ~CloseMayFail, IInv, [Next]_vars
  PROVE  [Port!Next]_(Port!vars)
<1> USE DEF InFlight
<1>0. file' = file => absStored' = absStored
  BY DEF absStored
<1>1. ASSUME NEW c \in Calls, Enqueue(c) PROVE Port!Next
  <2>1. PICK r \in Records : request' = [request EXCEPT ![c] = {r}]
    BY <1>1 DEF Enqueue
  <2>2. absAnswer' = [absAnswer EXCEPT ![c] = "none"] /\ absAnswer[c] = "none"
    BY <1>1, AbstractStep DEF Enqueue, Ends, absAnswer
  <2>3. absAnswer' = absAnswer
    BY <2>2 DEF absAnswer
  <2>4. request[c] = {} /\ {r} \in SUBSET Port!Entries
    BY <1>1 DEF Enqueue, IInv, TypeOK, Records, Port!Entries
  <2>5. Port!Ask(c)
    BY <1>0, <1>1, <2>1, <2>2, <2>3, <2>4 DEF Port!Ask, Enqueue
  <2> QED BY <2>5 DEF Port!Next
<1>2. ASSUME NEW c \in Calls, Mkdir(c) PROVE UNCHANGED Port!vars
  BY <1>0, <1>2, StutterMaps DEF Mkdir
<1>3. ASSUME NEW c \in Calls, Open(c) PROVE UNCHANGED Port!vars
  <2>1. absStored' = absStored
    <3>1. CASE file[record(c).key] = None
      BY <1>3, <3>1, DLQAssumption DEF Open, Set, absStored, IInv, TypeOK
    <3>2. CASE file[record(c).key] # None
      BY <1>0, <1>3, <3>2 DEF Open
    <3> QED BY <3>1, <3>2
  <2> QED BY <1>3, <2>1, StutterMaps DEF Open
<1>4. ASSUME NEW c \in Calls, Write(c) PROVE Port!Next
  <2>1. request[c] = {record(c)} /\ record(c) \in Records /\ absAnswer[c] = "none"
    BY <1>4, OpenCallsAsked DEF Write
  <2>2. absAnswer' = absAnswer
    <3>1. absAnswer' = [absAnswer EXCEPT ![c] = "none"]
      BY <1>4, AbstractStep DEF Write, Ends
    <3> QED BY <2>1, <3>1 DEF absAnswer
  <2>3. file[record(c).key] = Torn
    BY <1>4 DEF Write, IInv, OwnersKnowFile
  <2>4. absStored[record(c).key] = None
    BY <2>1, <2>3, DLQAssumption DEF absStored, Records
  <2> DEFINE W == {record(c)}
  <2>5. absStored' = [k \in Ids |-> IF \E e \in W : e.key = k
                                      THEN (CHOOSE e \in W : e.key = k).value
                                      ELSE absStored[k]]
    <3>1. \A k \in Ids : (\E e \in W : e.key = k) <=> k = record(c).key
      OBVIOUS
    <3>2. \A k \in Ids : k = record(c).key => (CHOOSE e \in W : e.key = k) = record(c)
      OBVIOUS
    <3>3. /\ absStored'[record(c).key] = record(c).value
          /\ \A k \in Ids \ {record(c).key} : absStored'[k] = absStored[k]
      BY <1>4, <2>1 DEF Write, Set, absStored, IInv, TypeOK, Records
    <3>4. absStored' = [k \in Ids |-> absStored'[k]]
      BY DEF absStored
    <3>5. \A k \in Ids : absStored'[k] = IF \E e \in W : e.key = k
                                           THEN (CHOOSE e \in W : e.key = k).value
                                           ELSE absStored[k]
      BY <3>1, <3>2, <3>3
    <3> HIDE DEF W
    <3> QED BY <3>4, <3>5
  <2>6. W \in SUBSET request[c] /\ (\A d, e \in W : d.key = e.key => d = e)
        /\ \A e \in W : absStored[e.key] = None
    BY <2>1, <2>4
  <2>7. Port!Write(c)
    <3> HIDE DEF W
    <3> QED BY <1>4, <2>1, <2>2, <2>5, <2>6 DEF Port!Write, Write
  <2> QED BY <2>7 DEF Port!Next
<1>5. ASSUME NEW c \in Calls, NEW a \in {"ok", "conflict"}, pc[c] \in InFlight, Goto(c, a),
             UNCHANGED <<file, request>>,
             a = "ok" => file[record(c).key] = record(c).value,
             a = "conflict" => file[record(c).key] \in Contents \ {record(c).value}
      PROVE  Port!Next
  <2>1. request[c] = {record(c)} /\ record(c) \in Records /\ absAnswer[c] = "none"
    BY <1>5, OpenCallsAsked
  <2>2. absAnswer' = [absAnswer EXCEPT ![c] = a]
    BY <1>5, AbstractStep DEF Ends
  <2>3. a = "ok" => \A e \in request[c] : Port!Stored(e)
    BY <1>5, <2>1 DEF Port!Stored, absStored, Records
  <2>4. a = "conflict" => Port!Refused(request[c])
    BY <1>5, <2>1, DLQAssumption DEF Port!Refused, absStored, Records
  <2>5. Port!Answer(c, a)
    BY <1>0, <1>5, <2>1, <2>2, <2>3, <2>4 DEF Port!Answer
  <2> QED BY <2>5 DEF Port!Next
<1>6. ASSUME NEW c \in Calls, Close(c) PROVE Port!Next
  BY <1>5, <1>6 DEF Close, IInv, OwnersKnowFile
<1>7. ASSUME NEW c \in Calls, pc[c] \in InFlight, Goto(c, "unavailable"),
             absStored' = absStored, request' = request
      PROVE  Port!Next
  BY <1>7, UnavailableMaps DEF Port!Next
<1>8. ASSUME NEW c \in Calls, Unlink(c) PROVE Port!Next
  <2>1. file[record(c).key] = Torn
    BY <1>8 DEF Unlink, IInv, OwnersKnowFile
  <2>2. absStored' = absStored
    BY <1>8, <2>1, DLQAssumption DEF Unlink, Set, absStored, IInv, TypeOK
  <2> QED BY <1>7, <1>8, <2>2 DEF Unlink
<1>9. ASSUME NEW c \in Calls, Reconcile(c) PROVE Port!Next
  <2>1. file[record(c).key] \in Contents \cup {None, Torn}
    BY <1>9, RecordOf DEF Reconcile, Records, IInv, TypeOK
  <2>2. CASE file[record(c).key] \in {None, Torn}
    BY <1>0, <1>7, <1>9, <2>2 DEF Reconcile
  <2>3. CASE file[record(c).key] \notin {None, Torn}
    BY <1>5, <1>9, <2>1, <2>3 DEF Reconcile
  <2> QED BY <2>2, <2>3
<1>10. ASSUME NEW c \in Calls, Fail(c) PROVE [Port!Next]_(Port!vars)
  <2>1. CASE pc[c] = "write"
    BY <1>0, <1>10, <2>1, StutterMaps DEF Fail
  <2>2. CASE pc[c] # "write"
    BY <1>0, <1>7, <1>10, <2>2 DEF Fail
  <2> QED BY <2>1, <2>2
<1>11. ASSUME NEW c \in Calls, Retry(c) PROVE Port!Next
  <2>1. absAnswer[c] = "unavailable" /\ absAnswer' = [absAnswer EXCEPT ![c] = "none"]
    BY <1>11, AbstractStep DEF Retry, absAnswer, Ends
  <2>2. Port!Retry(c)
    BY <1>0, <1>11, <2>1 DEF Port!Retry, Retry
  <2> QED BY <2>2 DEF Port!Next
<1>12. CASE Crash
  <2> DEFINE C == {c \in Calls : pc[c] \in InFlight}
  <2>1. \A c \in C : absAnswer[c] = "none" /\ request[c] # {}
    BY OpenCallsAsked
  <2>2. absAnswer' = [c \in Calls |-> IF c \in C THEN "unavailable" ELSE absAnswer[c]]
    BY <1>12 DEF Crash, absAnswer, Ends
  <2>3. Port!Fail(C)
    BY <1>0, <1>12, <2>1, <2>2 DEF Port!Fail, Crash
  <2> QED BY <2>3 DEF Port!Next
<1>13. CASE UNCHANGED vars
  BY <1>13 DEF vars, absStored, absAnswer, Port!vars
<1> QED BY <1>1, <1>2, <1>3, <1>4, <1>6, <1>8, <1>9, <1>10, <1>11, <1>12, <1>13 DEF Next, Step

(* The filesystem queue implements DeadLetterQueuePort: what it reports as  *)
(* stored is stored for good, a conflict is one, and nothing is replaced,   *)
(* through any number of failed writes, races and crashes.                  *)
THEOREM QueueImplementsPort ==
  ASSUME ~CloseMayFail
  PROVE  Spec => ImplementsPort
<1>1. Init => Port!Init
  BY DLQAssumption DEF Init, Port!Init, absStored, absAnswer, Ends
<1>2. IInv /\ [Next]_vars => [Port!Next]_(Port!vars)
  BY NextMaps
<1> QED BY <1>1, <1>2, InvariantHolds, PTL DEF Spec, ImplementsPort, Port!Spec
=============================================================================
