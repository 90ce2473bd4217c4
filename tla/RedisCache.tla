------------------------------ MODULE RedisCache ------------------------------
(***************************************************************************)
(* RedisCache: concurrent get, set and delete over one Redis server.  Keys  *)
(* come in several spellings, lifetimes in fine ticks of which the server's *)
(* millisecond holds MicrosPerMilli.  The server (external) executes a      *)
(* command at any moment after it was sent, also when its caller has been   *)
(* given an error for it, may refuse it, and may lose entries.              *)
(***************************************************************************)
EXTENDS Integers

CONSTANTS Calls,
          Spellings,       \* keys as callers write them
          Normal,          \* spelling -> the key without surrounding white space
          Blank,           \* the normal form of a blank key
          Values,
          Unencodable,     \* values that the codec refuses
          Ttls,            \* requested lifetimes in ticks, integers
          MicrosPerMilli,  \* 1000 in reality, not 0
          MaxTime,         \* bound of the clock
          MaxLosses,       \* bound on lost entries
          None

VARIABLES clock, losses,
          store,    \* server: key -> None or [value, until]
          pc,       \* call -> its state
          wire,     \* call -> command not yet executed
          reply,    \* call -> the server's reply
          answer,   \* call -> what the caller got
          last      \* key -> its last executed write

vars == <<clock, losses, store, pc, wire, reply, answer, last>>

Never == [kind |-> "never", value |-> None, at |-> 0, ttl |-> 0]
Plain(kind) == [kind |-> kind, value |-> None, basis |-> Never, at |-> 0]
InvalidRequest == Plain("InvalidRequestError")
Unavailable == Plain("DependencyUnavailableError")

Init ==
  /\ clock = 0 /\ losses = 0
  /\ store = [k \in Spellings |-> None] /\ last = [k \in Spellings |-> Never]
  /\ pc = [c \in Calls |-> "idle"]
  /\ wire = [c \in Calls |-> None] /\ reply = [c \in Calls |-> None]
  /\ answer = [c \in Calls |-> None]

-----------------------------------------------------------------------------
(* The adapter                                                             *)

\* mutant: the key is used as the caller wrote it
BackendKeyVerbatim(spelling) == spelling

\* Distinct normal keys have distinct digests.
BackendKey(spelling) == Normal[spelling]

\* mutant: a part of a millisecond is cut off
PxCut(ttl) == IF ttl \div MicrosPerMilli = 0 THEN 1 ELSE ttl \div MicrosPerMilli

\* Whole milliseconds, rounded up.
Px(ttl) ==
  ttl \div MicrosPerMilli + (IF ttl % MicrosPerMilli = 0 THEN 0 ELSE 1)

\* _normalize_key and the check of the TTL.
Invalid(o) == Normal[o.spelling] = Blank \/ (o.kind = "set" /\ o.ttl <= 0)

Operations ==
  [kind : {"get", "delete"}, spelling : Spellings]
  \union [kind : {"set"}, spelling : Spellings, value : Values, ttl : Ttls]

\* A call is made: refused, not encodable, or sent to the server.
Call(c, o) ==
  /\ pc[c] = "idle"
  /\ IF Invalid(o)
     THEN /\ pc' = [pc EXCEPT ![c] = "done"]
          /\ answer' = [answer EXCEPT ![c] = InvalidRequest] /\ UNCHANGED wire
     ELSE IF o.kind = "set" /\ o.value \in Unencodable
     THEN /\ pc' = [pc EXCEPT ![c] = "done"]
          /\ answer' = [answer EXCEPT ![c] = Unavailable] /\ UNCHANGED wire
     ELSE /\ pc' = [pc EXCEPT ![c] = "sent"] /\ UNCHANGED answer
          /\ wire' = [wire EXCEPT ![c] =
               IF o.kind = "set"
               THEN [kind |-> "set", key |-> BackendKey(o.spelling), value |-> o.value,
                     px |-> Px(o.ttl), ttl |-> o.ttl, sent |-> o.spelling]
               ELSE [kind |-> o.kind, key |-> BackendKey(o.spelling), sent |-> o.spelling]]
  /\ UNCHANGED <<clock, losses, store, reply, last>>

\* The reply arrives.  A miss is no error; a refused command, and for get a
\* payload that is no bytes or does not decode, is.
Finish(c) ==
  /\ pc[c] = "sent" /\ reply[c] # None /\ pc' = [pc EXCEPT ![c] = "done"]
  /\ answer' = [answer EXCEPT ![c] =
       IF reply[c].kind = "refused" THEN Unavailable ELSE reply[c]]
  /\ reply' = [reply EXCEPT ![c] = None]
  /\ UNCHANGED <<clock, losses, store, wire, last>>

\* The connection fails or the socket times out; the command may stay on its way.
Fail(c) ==
  /\ pc[c] = "sent" /\ pc' = [pc EXCEPT ![c] = "done"]
  /\ answer' = [answer EXCEPT ![c] = Unavailable]
  /\ \/ UNCHANGED wire
     \/ wire[c] # None /\ wire' = [wire EXCEPT ![c] = None]
  /\ UNCHANGED <<clock, losses, store, reply, last>>

-----------------------------------------------------------------------------
(* The server and the clock                                                *)

Millis == clock \div MicrosPerMilli
Live(k) == IF store[k] = None THEN FALSE ELSE Millis <= store[k].until

\* The server executes a command that has arrived.
Execute(c) ==
  /\ wire[c] # None /\ wire' = [wire EXCEPT ![c] = None]
  /\ LET k == wire[c].key
         n == Normal[wire[c].sent]
     IN  CASE wire[c].kind = "get" ->
                /\ reply' = [reply EXCEPT ![c] =
                     [kind |-> IF Live(k) THEN "hit" ELSE "miss",
                      value |-> IF Live(k) THEN store[k].value ELSE None,
                      basis |-> last[n], at |-> clock]]
                /\ UNCHANGED <<store, last>>
           [] wire[c].kind = "set" ->
                /\ store' = [store EXCEPT ![k] =
                     [value |-> wire[c].value, until |-> Millis + wire[c].px]]
                /\ last' = [last EXCEPT ![n] =
                     [kind |-> "set", value |-> wire[c].value, at |-> clock, ttl |-> wire[c].ttl]]
                /\ reply' = [reply EXCEPT ![c] = Plain("ok")]
           [] wire[c].kind = "delete" ->
                /\ store' = [store EXCEPT ![k] = None]
                /\ last' = [last EXCEPT ![n] = [Never EXCEPT !.kind = "delete"]]
                /\ reply' = [reply EXCEPT ![c] = Plain("ok")]
  /\ UNCHANGED <<clock, losses, pc, answer>>

\* The server answers without executing, or with something that is no payload.
Refuse(c) ==
  /\ wire[c] # None /\ wire' = [wire EXCEPT ![c] = None]
  /\ reply' = [reply EXCEPT ![c] = Plain("refused")]
  /\ UNCHANGED <<clock, losses, store, pc, answer, last>>

\* Entries may be evicted, or go with a restart.
Lose(k) ==
  /\ store[k] # None /\ losses < MaxLosses /\ losses' = losses + 1
  /\ store' = [store EXCEPT ![k] = None] /\ last' = [last EXCEPT ![k].kind = "lost"]
  /\ UNCHANGED <<clock, pc, wire, reply, answer>>

Tick ==
  /\ clock < MaxTime /\ clock' = clock + 1
  /\ UNCHANGED <<losses, store, pc, wire, reply, answer, last>>

Next ==
  \/ \E c \in Calls :
       \/ \E o \in Operations : Call(c, o)
       \/ Finish(c) \/ Fail(c) \/ Execute(c) \/ Refuse(c)
  \/ \E k \in Spellings : Lose(k)
  \/ Tick

Spec == Init /\ [][Next]_vars

-----------------------------------------------------------------------------
(* Properties                                                              *)

\* The variables have their types, and no command without a positive whole
\* number of milliseconds and a real key ever leaves for the server.
TypeOK ==
  /\ clock \in 0 .. MaxTime /\ losses \in 0 .. MaxLosses
  /\ pc \in [Calls -> {"idle", "sent", "done"}]
  /\ \A c \in Calls : wire[c] # None =>
       /\ wire[c].kind \in {"get", "set", "delete"} /\ Normal[wire[c].sent] # Blank
       /\ wire[c].kind = "set" => wire[c].px \in Nat \ {0} /\ wire[c].value \in Values \ Unencodable

\* A hit is the last value written under the key, in whichever spelling the
\* key was written and asked for, not deleted since, and at most two server
\* milliseconds older than the lifetime it was given (get, set, delete).
HitIsLive ==
  \A c \in Calls : pc[c] = "done" /\ answer[c].kind = "hit" =>
    LET written == answer[c].basis
    IN  /\ written.kind = "set" /\ written.value = answer[c].value
        /\ answer[c].at < written.at + written.ttl + 2 * MicrosPerMilli

\* A get does not miss a value that was written under the key and neither
\* deleted nor lost since before its whole lifetime has passed, whatever part
\* of a millisecond the write and the lifetime fall on
\* (_ttl_to_px_milliseconds rounds up).
NoEarlyMiss ==
  \A c \in Calls : pc[c] = "done" /\ answer[c].kind = "miss" =>
    LET written == answer[c].basis
    IN  written.kind = "set" => answer[c].at >= written.at + written.ttl
=============================================================================
