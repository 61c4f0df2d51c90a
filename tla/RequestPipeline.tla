---------------------------- MODULE RequestPipeline ----------------------------
(***************************************************************************)
(* What surrounds every endpoint of a worker: RequestIdMiddleware and      *)
(* AccessLogMiddleware (src/core/middleware.py), the exception handlers    *)
(* (src/core/handlers.py) and the log records (src/core/logging.py), with  *)
(* many requests on one event loop; and the readiness probe behind them    *)
(* (src/api/v1/health.py).                                                 *)
(*                                                                         *)
(* From the outside in, a request passes the server's error middleware,    *)
(* which owns the handler of Exception; RequestIdMiddleware;               *)
(* AccessLogMiddleware; the other handlers; the endpoint.  The endpoint    *)
(* and the access log run in tasks of their own, each with a copy of the   *)
(* context of the task that started it.  configure_logging() routes the    *)
(* records of the server itself to the service's one handler: what uvicorn *)
(* writes of a request (external) is part of the log.                      *)
(***************************************************************************)
EXTENDS Naturals, Sequences

CONSTANTS
    Requests,   \* requests to any endpoint but /readyz
    Probes,     \* requests to /readyz
    ClientIds,  \* values of an inbound X-Request-ID
    NoId        \* "-", and the lack of a header in a response

Tasks   == Requests \cup Probes
Stores  == {"postgres", "redis"}
\* A generated id is named by its request.
Ids(t)  == ClientIds \cup {t}

ASSUME IdsAssumption ==
    /\ NoId \notin ClientIds \cup Tasks /\ ClientIds \cap Tasks = {}
    /\ Requests \cap Probes = {}

VARIABLES
    up,         \* stores that answer
    pc,         \* task -> where it is
    id,         \* task -> the request id it was given, or chose
    outer,      \* task -> request_id_var in the server's task
    inner,      \* task -> request_id_var in the tasks within RequestIdMiddleware
    status,     \* task -> the status of its response so far
    lines,      \* task -> the log records about it, in order, the server's included
    answer,     \* task -> the status and the header the client got
    wasUp,      \* history: probe -> stores that answered at some time since it began
    wasDown     \* history: probe -> stores that did not

context == <<outer, inner>>
history == <<wasUp, wasDown>>
vars == <<up, pc, id, context, status, lines, answer, history>>

None == [status |-> 0, id |-> NoId]

Init ==
    /\ up \in SUBSET Stores
    /\ pc = [t \in Tasks |-> "idle"]
    /\ id = [t \in Tasks |-> NoId]
    /\ outer = [t \in Tasks |-> NoId]
    /\ inner = [t \in Tasks |-> NoId]
    /\ status = [t \in Tasks |-> 0]
    /\ lines = [t \in Tasks |-> <<>>]
    /\ answer = [t \in Tasks |-> None]
    /\ wasUp = [t \in Probes |-> {}]
    /\ wasDown = [t \in Probes |-> {}]

Goto(t, from, to) == pc[t] = from /\ pc' = [pc EXCEPT ![t] = to]

\* A log record about t, with the request id that its writer's context holds.
Log(t, event, ctx) ==
    lines' = [lines EXCEPT ![t] = Append(@, [event |-> event, id |-> ctx, status |-> status'[t]])]

-----------------------------------------------------------------------------
(* Inwards *)

\* Mutant of Receive: the id is kept in a global of the module.
ReceiveShares(t) ==
    /\ Goto(t, "idle", "endpoint")
    /\ \E i \in Ids(t) :
        /\ id' = [id EXCEPT ![t] = i]
        /\ outer' = [u \in Tasks |-> i]
        /\ inner' = [u \in Tasks |-> i]
    /\ wasUp' = IF t \in Probes THEN [wasUp EXCEPT ![t] = up] ELSE wasUp
    /\ wasDown' = IF t \in Probes THEN [wasDown EXCEPT ![t] = Stores \ up] ELSE wasDown
    /\ UNCHANGED <<up, status, lines, answer>>

\* RequestIdMiddleware sets the variable; the tasks it starts copy it.
Receive(t) ==
    /\ Goto(t, "idle", "endpoint")
    /\ \E i \in Ids(t) :
        /\ id' = [id EXCEPT ![t] = i]
        /\ outer' = [outer EXCEPT ![t] = i]
        /\ inner' = [inner EXCEPT ![t] = i]
    /\ wasUp' = IF t \in Probes THEN [wasUp EXCEPT ![t] = up] ELSE wasUp
    /\ wasDown' = IF t \in Probes THEN [wasDown EXCEPT ![t] = Stores \ up] ELSE wasDown
    /\ UNCHANGED <<up, status, lines, answer>>

-----------------------------------------------------------------------------
(* Endpoints; the handlers of known errors run within the access log *)

\* The innermost response of t has status code.
Reply(t, from, code) == Goto(t, from, "replied") /\ status' = [status EXCEPT ![t] = code]

Succeed(t) ==
    /\ Reply(t, "endpoint", 200)
    /\ UNCHANGED <<up, id, context, lines, answer, history>>

\* NotFoundError, the one AppError that is raised: handle_app_error().
Refuse(t) ==
    /\ Reply(t, "endpoint", 404)
    /\ Log(t, "app_error", inner[t])
    /\ UNCHANGED <<up, id, context, answer, history>>

\* The payload does not validate: handle_validation_error().
Invalid(t) ==
    /\ Reply(t, "endpoint", 422)
    /\ UNCHANGED <<up, id, context, lines, answer, history>>

\* No route, or not this method: handle_http_exception().
Unrouted(t) ==
    /\ \E code \in {404, 405} : Reply(t, "endpoint", code)
    /\ UNCHANGED <<up, id, context, lines, answer, history>>

\* Mutant of Break: the handler of Exception runs where the others do.
BreakInside(t) ==
    /\ Reply(t, "endpoint", 500)
    /\ Log(t, "unhandled_error", inner[t])
    /\ UNCHANGED <<up, id, context, answer, history>>

\* Anything else, a failing query or a full pool for example: no handler but
\* the outermost one is for it, and no middleware on the way catches it.
Break(t) ==
    /\ Goto(t, "endpoint", "raised")
    /\ UNCHANGED <<up, id, context, status, lines, answer, history>>

-----------------------------------------------------------------------------
(* Readiness *)

\* Postgres answers SELECT 1, or the probe of it fails.
ProbePostgres(t) ==
    /\ Goto(t, "endpoint", IF "postgres" \in up THEN "postgresUp" ELSE "postgresDown")
    /\ UNCHANGED <<up, id, context, status, lines, answer, history>>

\* Mutant of ProbeRedis: any() instead of all().
ProbeRedisAny(t) ==
    /\ \/ Reply(t, "postgresUp", 200)
       \/ Reply(t, "postgresDown", IF "redis" \in up THEN 200 ELSE 503)
    /\ UNCHANGED <<up, id, context, lines, answer, history>>

\* Then Redis answers PING, or that fails; ready means that both answered.
ProbeRedis(t) ==
    /\ \/ Reply(t, "postgresUp", IF "redis" \in up THEN 200 ELSE 503)
       \/ Reply(t, "postgresDown", 503)
    /\ UNCHANGED <<up, id, context, lines, answer, history>>

\* A store fails, or comes back.
Toggle(s) ==
    /\ up' = IF s \in up THEN up \ {s} ELSE up \cup {s}
    /\ wasUp' = [t \in Probes |-> IF pc[t] \in {"idle", "done"} THEN wasUp[t] ELSE wasUp[t] \cup up']
    /\ wasDown' = [t \in Probes |->
                    IF pc[t] \in {"idle", "done"} THEN wasDown[t] ELSE wasDown[t] \cup (Stores \ up')]
    /\ UNCHANGED <<pc, id, context, status, lines, answer>>

-----------------------------------------------------------------------------
(* Outwards *)

\* AccessLogMiddleware logs the response.
LogAccess(t) ==
    /\ Goto(t, "replied", "logged")
    /\ UNCHANGED status
    /\ Log(t, "request", inner[t])
    /\ UNCHANGED <<up, id, context, answer, history>>

\* RequestIdMiddleware resets the variable to what it was and echoes the id.
\* The response is sent from the server's task, whose access log is routed to
\* the same handler as the service's own records.
Leave(t) ==
    /\ Goto(t, "logged", "done")
    /\ outer' = [outer EXCEPT ![t] = NoId]
    /\ UNCHANGED status
    /\ Log(t, "served", outer'[t])
    /\ answer' = [answer EXCEPT ![t] = [status |-> status[t], id |-> id[t]]]
    /\ UNCHANGED <<up, id, inner, history>>

\* The exception passes both middlewares, the second of which resets the
\* variable, and reaches handle_unexpected_error() in the server's task.
Escape(t) ==
    /\ Goto(t, "raised", "handled")
    /\ outer' = [outer EXCEPT ![t] = NoId]
    /\ status' = [status EXCEPT ![t] = 500]
    /\ Log(t, "unhandled_error", outer'[t])
    /\ UNCHANGED <<up, id, inner, answer, history>>

\* Its response is sent, and nothing adds the header.
AnswerError(t) ==
    /\ Goto(t, "handled", "answered")
    /\ UNCHANGED status
    /\ Log(t, "served", outer[t])
    /\ answer' = [answer EXCEPT ![t] = [status |-> status[t], id |-> NoId]]
    /\ UNCHANGED <<up, id, context, history>>

\* The error middleware raises the exception again, and the server logs it too,
\* "Exception in ASGI application", through the handler of the root logger.
Reraise(t) ==
    /\ Goto(t, "answered", "done")
    /\ UNCHANGED status
    /\ Log(t, "failed", outer[t])
    /\ UNCHANGED <<up, id, context, answer, history>>

-----------------------------------------------------------------------------
Serve(t) == Succeed(t) \/ Refuse(t) \/ Invalid(t) \/ Unrouted(t) \/ Break(t)
Probe(t) == ProbePostgres(t) \/ ProbeRedis(t)

Next ==
    \/ \E t \in Tasks : Receive(t) \/ LogAccess(t) \/ Leave(t)
    \/ \E t \in Tasks : Escape(t) \/ AnswerError(t) \/ Reraise(t)
    \/ \E t \in Requests : Serve(t)
    \/ \E t \in Probes : Probe(t)
    \/ \E s \in Stores : Toggle(s)

Spec == Init /\ [][Next]_vars

-----------------------------------------------------------------------------
\* The records written within the middleware carry the id of their own request
\* however requests interleave (logging.py:3-5), and so does every response but
\* that to an unexpected error (middleware.py:20).  The records written outside
\* carry nobody's id: the service's record of an unexpected error, and the
\* server's two, that a response was sent and that an exception came through.
Within == {"app_error", "request"}

CorrelatedWithin ==
    \A t \in Tasks :
        /\ \A n \in DOMAIN lines[t] :
            lines[t][n].id = IF lines[t][n].event \in Within THEN id[t] ELSE NoId
        /\ answer[t] # None => answer[t].id = IF answer[t].status = 500 THEN NoId ELSE id[t]

\* What the log holds of a request once the server is done with it: exactly one
\* record of the service's says how the request ended, and it is about the
\* response the client got.  The access record is followed by the server's own;
\* the record of an unexpected error by that and by a second report of the same
\* error.  A refusal was logged before it all.
Account(code) ==
    IF code = 500 THEN {<<"unhandled_error", "served", "failed">>}
    ELSE {<<"request", "served">>}
         \cup {<<"app_error", "request", "served">> : c \in {code} \cap {404}}

OneOutcomeRecord ==
    \A t \in Tasks : pc[t] = "done" =>
        /\ [n \in DOMAIN lines[t] |-> lines[t][n].event] \in Account(answer[t].status)
        /\ \A n \in DOMAIN lines[t] : lines[t][n].status = answer[t].status

\* A readiness answer is about the time the probe took, not about a moment: if
\* it is ready each store answered at some time meanwhile, if it is not one
\* failed to, whatever changed between the two probes.  It is never an error.
HonestReadiness ==
    \A t \in Probes : pc[t] = "done" =>
        \/ answer[t].status = 200 /\ wasUp[t] = Stores
        \/ answer[t].status = 503 /\ wasDown[t] # {}
=============================================================================
