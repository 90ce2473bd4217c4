----------------------------- MODULE HttpBoundary -----------------------------
(***************************************************************************)
(* The HTTP boundary: correlation middleware around request logging around *)
(* the exception handlers around a route.  Requests of one task run one    *)
(* after the other in one context (as an in-process transport runs them),  *)
(* requests of different tasks interleave.  What a route ends with is      *)
(* chosen freely; the handler of unhandled exceptions runs outside both    *)
(* middlewares, when the correlation scope has been left.                  *)
(***************************************************************************)
EXTENDS Integers, Sequences

CONSTANTS Requests,
          Task,       \* request -> the task it runs in
          Headers,    \* incoming X-Correlation-ID values
          Valid,      \* those that is_valid_correlation_id accepts
          Nil         \* no header, no value

\* Generated ids: uuid4, taken to be distinct from each other and from what clients send.
Uuids == {"uuid"} \X Nat
Ids == Headers \union Uuids \union {Nil}
Responses == [status : Nat, body : Ids, header : Ids]

\* No header is not a valid id, and nil is neither an id nor a response.
ASSUME BoundaryAssumption ==
  /\ Valid \subseteq Headers /\ Nil \notin Valid
  /\ \A h \in Headers \union {Nil} : h \notin Uuids
  /\ Nil \notin Responses
  /\ DOMAIN Task = Requests

VARIABLES stage,
          header,       \* request -> its incoming header
          scope,        \* request -> the id bound to the ASGI scope
          context,      \* task -> value of the ContextVar
          saved,        \* request -> what its token restores
          response,     \* request -> what the client got
          outcome,      \* request -> what the route ended with
          completions,  \* request -> its completion records
          generated     \* how many ids were generated

httpVars == <<stage, header, scope, context, saved, response, outcome, completions, generated>>

Tasks == {Task[r] : r \in Requests}
Uuid(n) == <<"uuid", n>>
Idle(t) == \A r \in Requests : Task[r] = t => stage[r] \in {"new", "done"}

ApplicationErrors == {"invalid", "not found", "conflict", "unavailable", "unmapped"}
Outcomes == ApplicationErrors \union {"ok", "validation", "http", "exception", "cancelled"}

HttpInit ==
  /\ stage = [r \in Requests |-> "new"]
  /\ header = [r \in Requests |-> Nil] /\ scope = [r \in Requests |-> Nil]
  /\ context = [t \in Tasks |-> Nil] /\ saved = [r \in Requests |-> Nil]
  /\ response = [r \in Requests |-> Nil] /\ outcome = [r \in Requests |-> "none"]
  /\ completions = [r \in Requests |-> <<>>] /\ generated = 0

-----------------------------------------------------------------------------
(* The way in                                                              *)

\* A valid incoming id is reused, anything else replaced.
ResolveCorrelationId(h) == IF h \in Valid THEN h ELSE Uuid(generated)

\* The id is bound to the ASGI scope and to the ContextVar.
Arrive(r) ==
  \E h \in Headers :
    /\ stage[r] = "new" /\ Idle(Task[r])
    /\ stage' = [stage EXCEPT ![r] = "route"]
    /\ header' = [header EXCEPT ![r] = h]
    /\ scope' = [scope EXCEPT ![r] = ResolveCorrelationId(h)]
    /\ saved' = [saved EXCEPT ![r] = context[Task[r]]]
    /\ context' = [context EXCEPT ![Task[r]] = ResolveCorrelationId(h)]
    /\ generated' = generated + (IF h \in Valid THEN 0 ELSE 1)
    /\ UNCHANGED <<response, outcome, completions>>

-----------------------------------------------------------------------------
(* Errors and responses                                                    *)

MappedHttpStatus(error) ==
  CASE error = "invalid" -> 400 [] error = "not found" -> 404
    [] error = "conflict" -> 409 [] error = "unavailable" -> 503
    [] OTHER -> Nil

\* Unmapped errors fail closed.
ApplicationErrorStatus(error) ==
  IF MappedHttpStatus(error) = Nil THEN 500 ELSE MappedHttpStatus(error)

\* An HTTPException keeps its own status, here that of an unknown path.
HandledStatus(end) ==
  CASE end \in ApplicationErrors -> ApplicationErrorStatus(end)
    [] end = "validation" -> 422
    [] end = "http" -> 404

\* mutant: the id stored on the scope is not looked at
ResolveRequestCorrelationIdContextOnly(r) ==
  IF context[Task[r]] # Nil THEN context[Task[r]] ELSE Uuid(generated)

\* The context's id, else the one on the scope, else a new one.
ResolveRequestCorrelationId(r) ==
  IF context[Task[r]] # Nil THEN context[Task[r]]
  ELSE IF scope[r] # Nil THEN scope[r] ELSE Uuid(generated)

ErrorResponse(r, status) ==
  [status |-> status, body |-> ResolveRequestCorrelationId(r),
   header |-> ResolveRequestCorrelationId(r)]

\* Whatever passes the correlation middleware gets the header of its request.
SendWithCorrelation(r, message) == [message EXCEPT !.header = scope[r]]

\* The route sends the start of its response.
StartResponse(r) ==
  /\ stage[r] = "route" /\ response[r] = Nil
  /\ response' = [response EXCEPT ![r] =
       SendWithCorrelation(r, [status |-> 200, body |-> Nil, header |-> Nil])]
  /\ UNCHANGED <<stage, header, scope, context, saved, outcome, completions, generated>>

\* The route ends.  A handled error is answered, but when a response was
\* started the framework raises instead.
EndRoute(r, end) ==
  /\ stage[r] = "route" /\ (end = "ok" => response[r] # Nil)
  /\ stage' = [stage EXCEPT ![r] = "logging"]
  /\ IF end \in {"ok", "cancelled", "exception"} \/ response[r] # Nil
     THEN /\ outcome' = [outcome EXCEPT ![r] =
               IF end \in {"ok", "cancelled"} THEN end ELSE "exception"]
          /\ UNCHANGED response
     ELSE /\ outcome' = [outcome EXCEPT ![r] = end]
          /\ response' = [response EXCEPT ![r] =
               SendWithCorrelation(r, ErrorResponse(r, HandledStatus(end)))]
  /\ UNCHANGED <<header, scope, context, saved, completions, generated>>

-----------------------------------------------------------------------------
(* The way out                                                             *)

\* mutant: the record is written after the call and not in finally
LogCompletionOnReturn(r) ==
  /\ stage[r] = "logging" /\ stage' = [stage EXCEPT ![r] = "leaving"]
  /\ completions' = IF outcome[r] \in {"exception", "cancelled"} THEN completions
       ELSE [completions EXCEPT ![r] =
              Append(@, [status |-> response[r].status, id |-> context[Task[r]]])]
  /\ UNCHANGED <<header, scope, context, saved, response, outcome, generated>>

\* One record in any case: 500 for an exception, and when nothing was sent.
\* The log formatter takes the id from the ContextVar.
LogCompletion(r) ==
  /\ stage[r] = "logging" /\ stage' = [stage EXCEPT ![r] = "leaving"]
  /\ LET status == IF outcome[r] = "exception" \/ response[r] = Nil
                   THEN 500 ELSE response[r].status
     IN  completions' = [completions EXCEPT ![r] =
           Append(@, [status |-> status, id |-> context[Task[r]]])]
  /\ UNCHANGED <<header, scope, context, saved, response, outcome, generated>>

\* The ContextVar gets its former value back; an exception goes on outwards.
LeaveScope(r) ==
  /\ stage[r] = "leaving"
  /\ context' = [context EXCEPT ![Task[r]] = saved[r]]
  /\ stage' = [stage EXCEPT ![r] = IF outcome[r] = "exception" THEN "escaped" ELSE "done"]
  /\ UNCHANGED <<header, scope, saved, response, outcome, completions, generated>>

\* The outermost handler answers 500; the framework drops the answer when a
\* response was already started.
HandleUnhandled(r) ==
  /\ stage[r] = "escaped" /\ stage' = [stage EXCEPT ![r] = "done"]
  /\ response' = IF response[r] # Nil THEN response
                 ELSE [response EXCEPT ![r] = ErrorResponse(r, 500)]
  /\ UNCHANGED <<header, scope, context, saved, outcome, completions, generated>>

HttpNext ==
  \E r \in Requests :
    \/ Arrive(r) \/ StartResponse(r) \/ LogCompletion(r) \/ LeaveScope(r) \/ HandleUnhandled(r)
    \/ \E end \in Outcomes : EndRoute(r, end)

HttpSpec == HttpInit /\ [][HttpNext]_httpVars

-----------------------------------------------------------------------------
(* Properties                                                              *)

\* A request that escaped the middlewares has run its route to an exception,
\* a context holds one of its own requests' ids, and the rest has its type.
HttpTypeOK ==
  /\ stage \in [Requests -> {"new", "route", "logging", "leaving", "escaped", "done"}]
  /\ outcome \in [Requests -> Outcomes \union {"none"}]
  /\ \A r \in Requests : stage[r] = "escaped" => outcome[r] = "exception"
  /\ \A t \in Tasks : context[t] \in {Nil} \union {scope[r] : r \in {q \in Requests : Task[q] = t}}

\* Whatever the client got, an error raised behind the correlation scope
\* included, carries one id: in header and body that of its own request, and
\* the one the client sent if it was acceptable; unacceptable ones never come
\* back (resolve_request_correlation_id, send_with_correlation).
ResponseCarriesRequestId ==
  \A r \in Requests : response[r] # Nil =>
    /\ response[r].header = scope[r] /\ response[r].body \in {Nil, scope[r]}
    /\ IF header[r] \in Valid THEN scope[r] = header[r] ELSE scope[r] \notin Headers

\* A finished request was answered unless it was cancelled, and has left exactly
\* one completion record, under its own id although other requests were running,
\* with the status its client saw; 500 if an exception cut the response short or
\* nothing was sent (RequestLoggingMiddleware, the exception handlers).
LoggedOnceAsAnswered ==
  \A r \in Requests : stage[r] = "done" =>
    /\ outcome[r] # "cancelled" => response[r] # Nil
    /\ Len(completions[r]) = 1 /\ completions[r][1].id = scope[r]
    /\ completions[r][1].status # (IF response[r] = Nil THEN 500 ELSE response[r].status)
         => outcome[r] = "exception" /\ completions[r][1].status = 500

=============================================================================
