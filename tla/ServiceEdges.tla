----------------------------- MODULE ServiceEdges -----------------------------
(***************************************************************************)
(* The two edges of the service that keep state between calls: the HTTP    *)
(* boundary in front of it and the Redis cache behind it.  They share no   *)
(* state, so their interleavings add nothing: a behaviour of EdgesSpec is  *)
(* one of the one or of the other.                                         *)
(***************************************************************************)
EXTENDS HttpBoundary

CONSTANTS Calls, Spellings, Normal, BlankKey, Values, Unencodable, Ttls, MicrosPerMilli,
          MaxTime, MaxLosses

VARIABLES edge,   \* fixed: "http" or "cache"
          clock, losses, entries, call, wire, reply, answer, last

cacheVars == <<clock, losses, entries, call, wire, reply, answer, last>>

Cache == INSTANCE RedisCache WITH pc <- call, store <- entries, Blank <- BlankKey, None <- Nil

\* A key's normal form is a key of its own or blank; a stored entry is not nil.
ASSUME CacheAssumption ==
  /\ Normal \in [Spellings -> Spellings \union {BlankKey}]
  /\ Ttls \subseteq Int /\ MicrosPerMilli \in Nat \ {0}
  /\ MaxTime \in Nat /\ MaxLosses \in Nat
  /\ Nil \notin [value : Values, until : Nat]

EdgesInit == edge \in {"http", "cache"} /\ HttpInit /\ Cache!Init

EdgesNext ==
  \/ edge = "http" /\ HttpNext /\ UNCHANGED <<edge, cacheVars>>
  \/ edge = "cache" /\ Cache!Next /\ UNCHANGED <<edge, httpVars>>

EdgesSpec == EdgesInit /\ [][EdgesNext]_<<edge, httpVars, cacheVars>>

\* A hit is the last value written under the key, in whichever spelling the key was
\* written and asked for, not deleted since, and at most two server milliseconds older
\* than the lifetime it was given (get, set, delete).
HitIsLive == Cache!HitIsLive

\* A get does not miss a value that was written under the key and neither deleted nor
\* lost since before its whole lifetime has passed, whatever part of a millisecond the
\* write and the lifetime fall on (_ttl_to_px_milliseconds rounds up).
NoEarlyMiss == Cache!NoEarlyMiss
===============================================================================
