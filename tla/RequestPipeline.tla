--------------------------- MODULE RequestPipeline ---------------------------
(***************************************************************************)
(* What is around trigger_reconciliation: RequestContextMiddleware, the    *)
(* dependencies that check the token, the context variables that log lines *)
(* and error bodies take their request id from, and the exception handlers *)
(* of app.py.  The handler itself is ReconcileEndpoint.                    *)
(*                                                                         *)
(* A request is served by two tasks.  The middleware's task binds the      *)
(* request id and starts the handler's task, which gets a copy of the      *)
(* context; what one of them binds later, the other does not see.          *)
(* PlatformError and ReplayResponse are handled in the handler's task, any *)
(* other exception outside the middleware, after its finally clause.       *)
(***************************************************************************)
EXTENDS ReconcileEndpoint

CONSTANT Nobody \* the None of a context variable

ASSUME PipelineAssumption ==
    /\ Nobody \notin Requests \cup Tenants
    /\ Requests \cap Tenants = {}

VARIABLES
    stage,   \* where each call is
    context, \* the context variables of each task
    reply,   \* what the caller can quote: the body's request_id, the header
    log      \* what was logged: of which call, with which context

pipelineVars == <<stage, context, reply, log>>
allVars == <<vars, pipelineVars>>

(* A call's own id, from its X-Request-Id or fresh, is the call itself.    *)
Ids == Requests \cup Tenants \cup {Nobody}
Tasks == Requests \X {"middleware", "handler"}
Served == {"dependencies", "handler", "returning", "unwinding"}
EarlyRefusals == {"unauthorized", "forbidden", "invalid"}

NoReply == [code |-> "none", request_id |-> Nobody, header |-> Nobody]
Unbound == [request_id |-> Nobody, tenant_id |-> Nobody]

PipelineTypeOK ==
    /\ stage \in [Requests -> Served \cup {"client", "done"}]
    /\ context \in [Tasks -> [request_id : Ids, tenant_id : Ids]]
    /\ reply \in [Requests -> [code : Codes \cup EarlyRefusals,
                               request_id : Ids, header : Ids]]
    /\ log \in SUBSET [call : Requests, request_id : Ids, tenant_id : Ids]

PipelineInit ==
    /\ Init
    /\ stage = [r \in Requests |-> "client"]
    /\ context = [t \in Tasks |-> Unbound]
    /\ reply = [r \in Requests |-> NoReply]
    /\ log = {}

-----------------------------------------------------------------------------
(* The context variables.                                                  *)

(* Each task has its own values of a context variable.                     *)
Context_OfProcess(r, task) == CHOOSE t \in Tasks : t[2] = "middleware"
Context(r, task) == <<r, task>>

(* bind_request_context: a tenant that is not given leaves the old one.    *)
Bound(old, id, tenant) ==
    [request_id |-> id,
     tenant_id |-> IF tenant = Nobody THEN old.tenant_id ELSE tenant]

Line(r, task) ==
    LET bound == context[Context(r, task)]
    IN  [call |-> r, request_id |-> bound.request_id, tenant_id |-> bound.tenant_id]

MovesTo(r, next) == stage' = [stage EXCEPT ![r] = next]
Body(r, code, id) ==
    reply' = [reply EXCEPT ![r] = [code |-> code, request_id |-> id, header |-> Nobody]]

-----------------------------------------------------------------------------
(* RequestContextMiddleware.dispatch up to call_next: the new task starts  *)
(* with the values the middleware has just bound.                          *)
Arrive(r) ==
    /\ stage[r] = "client"
    /\ MovesTo(r, "dependencies")
    /\ LET bound == Bound(context[Context(r, "middleware")], r, Nobody)
       IN  context' = [context EXCEPT ![Context(r, "middleware")] = bound,
                                      ![Context(r, "handler")] = bound]
    /\ UNCHANGED <<vars, reply, log>>

(* platform_error_handler, in the handler's task.                          *)
PlatformErrorHandled(r, code) ==
    /\ MovesTo(r, "returning")
    /\ Body(r, code, context[Context(r, "handler")].request_id)
    /\ log' = log \cup {Line(r, "handler")}
    /\ UNCHANGED context

(* get_current_token raises.                                               *)
TokenRefused(r) ==
    /\ stage[r] = "dependencies"
    /\ PlatformErrorHandled(r, "unauthorized")
    /\ UNCHANGED vars

(* get_current_tenant_id raises.                                           *)
TenantRefused(r) ==
    /\ stage[r] = "dependencies"
    /\ PlatformErrorHandled(r, "forbidden")
    /\ UNCHANGED vars

(* The framework finds the request malformed and answers 422 by itself.    *)
RequestInvalid(r) ==
    /\ stage[r] = "dependencies"
    /\ MovesTo(r, "returning")
    /\ Body(r, "invalid", Nobody)
    /\ UNCHANGED <<vars, context, log>>

(* The dependencies are met; trigger_reconciliation binds the tenant's id  *)
(* as the request id and no tenant id.                                     *)
Handle(r) ==
    /\ stage[r] = "dependencies"
    /\ Receive(r)
    /\ MovesTo(r, "handler")
    /\ context' = [context EXCEPT
           ![Context(r, "handler")] = Bound(@, request[r].tenant, Nobody)]
    /\ UNCHANGED <<reply, log>>

(* The steps of reconcile that log.                                        *)
Logs(r) == pc[r] \in {"insert", "servicetitan", "quickbooks", "commit_run"}

(* What a step of the handler means to the pipeline: the handler goes on,  *)
(* ends with a PlatformError, with any other exception, or returns.        *)
Reaction(r) ==
    LET code == response'[r].code IN
    \/ /\ code = "none"
       /\ log' = IF Logs(r) THEN log \cup {Line(r, "handler")} ELSE log
       /\ UNCHANGED <<stage, context, reply>>
    \/ /\ code \in Refusals
       /\ PlatformErrorHandled(r, code)
    \/ /\ code = "internal_server_error"
       /\ MovesTo(r, "unwinding")
       /\ UNCHANGED <<context, reply, log>>
    \/ /\ code = "accepted"
       /\ MovesTo(r, "returning")
       /\ Body(r, code, Nobody)
       /\ UNCHANGED <<context, log>>

HandlerWorks(r) == stage[r] = "handler" /\ HandlerStep(r) /\ Reaction(r)
StatementFails(r) == stage[r] = "handler" /\ DatabaseFails(r) /\ Reaction(r)

(* dispatch after call_next: the header is set from its local variable,    *)
(* and the finally clause clears the middleware's context.                 *)
ClearContext(r) ==
    context' = [context EXCEPT ![Context(r, "middleware")] = Unbound]

Respond(r) ==
    /\ stage[r] = "returning"
    /\ MovesTo(r, "done")
    /\ reply' = [reply EXCEPT ![r].header = r]
    /\ ClearContext(r)
    /\ UNCHANGED <<vars, log>>

(* The exception passes dispatch, whose finally clause runs, and reaches   *)
(* generic_exception_handler: its answer has no X-Request-Id.              *)
Unwind(r) ==
    /\ stage[r] = "unwinding"
    /\ MovesTo(r, "done")
    /\ ClearContext(r)
    /\ LET bound == context'[Context(r, "middleware")] IN
       /\ Body(r, "internal_server_error", bound.request_id)
       /\ log' = log \cup {[call |-> r, request_id |-> bound.request_id,
                            tenant_id |-> bound.tenant_id]}
    /\ UNCHANGED vars

Serve(r) ==
    \/ TokenRefused(r) \/ TenantRefused(r) \/ RequestInvalid(r) \/ Handle(r)
    \/ HandlerWorks(r)
    \/ Respond(r) \/ Unwind(r)

(* The process stops, with every call it serves, in the handler or not.    *)
ProcessStops ==
    /\ \E r \in Requests : stage[r] \in Served
    /\ IF InFlight # {} THEN Crash ELSE UNCHANGED vars
    /\ stage' = [r \in Requests |-> IF stage[r] \in Served THEN "done" ELSE stage[r]]
    /\ context' = [t \in Tasks |-> Unbound]
    /\ reply' = [r \in Requests |-> IF stage[r] \in Served THEN NoReply ELSE reply[r]]
    /\ UNCHANGED log

AllServed == (\A r \in Requests : stage[r] = "done") /\ UNCHANGED allVars

PipelineNext ==
    \/ \E r \in Requests : Arrive(r) \/ Serve(r) \/ StatementFails(r)
    \/ \E rec \in records : Expire(rec) /\ UNCHANGED pipelineVars
    \/ ProcessStops
    \/ AllServed

PipelineSpec == PipelineInit /\ [][PipelineNext]_allVars

(* A call that can be served on is: the event loop schedules its tasks,    *)
(* each attempt of a client is bounded by a timeout and their number by    *)
(* http_max_retries, and Postgres wakes a waiting insert when the lock's   *)
(* holder ends.                                                            *)
PipelineFairness == \A r \in Requests : WF_allVars(Serve(r))
PipelineFairSpec == PipelineSpec /\ PipelineFairness

-----------------------------------------------------------------------------
(* However the tasks of several calls interleave, no log line, body or     *)
(* header of a call carries the id of another one or of its tenant: what   *)
(* is there is the call's own id, its own tenant's or none.                *)
CorrelationNeverCrosses ==
    /\ \A line \in log :
          /\ line.request_id \in {line.call, request[line.call].tenant, Nobody}
          /\ line.tenant_id \in {request[line.call].tenant, Nobody}
    /\ \A r \in Requests :
          /\ reply[r].request_id \in {r, request[r].tenant, Nobody}
          /\ reply[r].header \in {r, Nobody}

(* "Echoes request_id on the response" (request_context.py): every answer  *)
(* has the call's id in its header.                                        *)
RequestIdIsEchoed ==
    \A r \in Requests :
        stage[r] = "done" /\ reply[r].code # "none" => reply[r].header = r

(* "Request context (tenant_id, request_id) is bound to each log entry"    *)
(* (logging.py): the lines of a call that reached its handler, where the   *)
(* tenant is known, name the tenant.                                       *)
TenantIsOnEveryLine ==
    \A line \in log : pc[line.call] # "idle" => line.tenant_id = request[line.call].tenant

(* The request_id of an error body "correlates with server logs"           *)
(* (openapi.yaml): the lines that have it are those of the call.           *)
BodyIdFindsItsLines ==
    \A r \in Requests, line \in log :
        line.request_id = reply[r].request_id /\ line.request_id # Nobody
            => line.call = r

(* The least that the three texts promise: one of them is kept.  It does   *)
(* not hold, and a state in which it fails refutes each of the three.      *)
CallsCanBeTraced == RequestIdIsEchoed \/ TenantIsOnEveryLine \/ BodyIdFindsItsLines

(* Every call that reached the service is answered, or lost when the       *)
(* process stops: no step waits for good, in the handler or around it.     *)
EveryCallIsAnswered ==
    \A r \in Requests : stage[r] # "client" ~> stage[r] = "done"
=============================================================================
