------------------------ MODULE RequestPipelineProofs ------------------------
(***************************************************************************)
(* Theorems about RequestPipeline, for any number of calls and tenants.    *)
(***************************************************************************)
EXTENDS RequestPipeline, ReconcileRefinementProofs

(* What is around the handler changes nothing of what it does: every       *)
(* behaviour of the pipeline is one of the endpoint, so that each theorem  *)
(* about the endpoint is one about the pipeline.                           *)
THEOREM PipelineImplementsEndpoint == PipelineSpec => Spec
<1>1. PipelineInit => Init
  BY DEF PipelineInit
<1>2. ASSUME [PipelineNext]_allVars PROVE [Next]_vars
  <2>1. ASSUME NEW r \in Requests, Arrive(r) PROVE UNCHANGED vars
    BY <2>1 DEF Arrive
  <2>2. ASSUME NEW r \in Requests, Serve(r) PROVE [Next]_vars
    BY <2>2 DEF Serve, TokenRefused, TenantRefused, RequestInvalid, Handle,
                HandlerWorks, Respond, Unwind, Next
  <2>3. ASSUME NEW r \in Requests, StatementFails(r) PROVE Next
    BY <2>3 DEF StatementFails, Next
  <2>4. ASSUME NEW rec \in records, Expire(rec) PROVE Next
    BY <2>4 DEF Next
  <2>5. CASE ProcessStops
    BY <2>5 DEF ProcessStops, Next
  <2>6. CASE UNCHANGED allVars
    BY <2>6 DEF allVars
  <2>7. QED BY <1>2, <2>1, <2>2, <2>3, <2>4, <2>5, <2>6 DEF PipelineNext, AllServed
<1>3. QED BY <1>1, <1>2, PTL DEF PipelineSpec, Spec

(* Served by the tasks of the middleware, the endpoint still keeps its     *)
(* ledger: keys are bound once, answers name durable runs.                 *)
THEOREM PipelineImplementsLedger == PipelineSpec => ImplementsLedger
BY PipelineImplementsEndpoint, EndpointImplementsLedger, PTL

-----------------------------------------------------------------------------
(* What the contexts of a call hold and what its caller was told, by the   *)
(* stage it is at.                                                         *)

Answerable == EarlyRefusals \cup Refusals \cup {"accepted"}

(* A refusal by the dependencies comes before the tenant's id is bound.    *)
OwnId(r) == reply[r].code \in {"unauthorized", "forbidden"}

ContextsOf(r) ==
    /\ context[<<r, "middleware">>].tenant_id = Nobody
    /\ context[<<r, "handler">>].tenant_id = Nobody
    /\ stage[r] = "dependencies" => context[<<r, "handler">>].request_id = r
    /\ stage[r] = "handler" =>
          context[<<r, "handler">>].request_id = request[r].tenant

BodyOf(r) ==
    /\ OwnId(r) => reply[r].request_id = r
    /\ reply[r].code \in Refusals => reply[r].request_id = request[r].tenant
    /\ ~OwnId(r) /\ reply[r].code \notin Refusals => reply[r].request_id = Nobody

ReplyOf(r) ==
    /\ stage[r] \in {"client", "dependencies", "handler", "unwinding"} =>
          reply[r] = NoReply
    /\ stage[r] = "returning" =>
          reply[r].code \in Answerable /\ reply[r].header = Nobody
    /\ stage[r] = "done" =>
          \/ reply[r].code \in Breakdowns \cup {"none"} /\ reply[r].header = Nobody
          \/ reply[r].code \in Answerable /\ reply[r].header = r
    /\ BodyOf(r)

LineOf(line) ==
    /\ line.request_id \in {line.call, request[line.call].tenant, Nobody}
    /\ line.tenant_id = Nobody

Correlated ==
    /\ \A r \in Requests : ContextsOf(r) /\ ReplyOf(r)
    /\ \A line \in log : LineOf(line)

(* No call, tenant or stage is mistaken for another.                       *)
LEMMA Names ==
    /\ \A r \in Requests : r # Nobody
    /\ "none" \notin Answerable /\ "none" \notin Refusals
    /\ Breakdowns \cap Answerable = {} /\ Breakdowns \cap Refusals = {}
    /\ Refusals \subseteq Answerable /\ "accepted" \in Answerable
    /\ "accepted" \notin Refusals /\ EarlyRefusals \cap Refusals = {}
    /\ "internal_server_error" \in Breakdowns
BY PipelineAssumption DEF Answerable, EarlyRefusals, Refusals, Breakdowns

(* The generic handler runs after the context was cleared.                 *)
LEMMA UnwindSaysNothing ==
    ASSUME PipelineTypeOK, NEW r \in Requests, Unwind(r)
    PROVE  /\ context' = [context EXCEPT ![<<r, "middleware">>] = Unbound]
           /\ reply' = [reply EXCEPT ![r] = [code |-> "internal_server_error",
                                            request_id |-> Nobody, header |-> Nobody]]
           /\ log' = log \cup {[call |-> r, request_id |-> Nobody, tenant_id |-> Nobody]}
<1>1. context' = [context EXCEPT ![<<r, "middleware">>] = Unbound]
  BY DEF Unwind, ClearContext, Context
<1>2. <<r, "middleware">> \in DOMAIN context
  BY DEF PipelineTypeOK, Tasks
<1>3. context'[<<r, "middleware">>] = Unbound
  BY <1>1, <1>2
<1>4. Unbound.request_id = Nobody /\ Unbound.tenant_id = Nobody
  BY DEF Unbound
<1>5. QED BY <1>1, <1>3, <1>4 DEF Unwind, Body, Context

(* The types of the pipeline's variables hold in every reachable state.    *)
THEOREM PipelineTypeCorrect == PipelineSpec => []PipelineTypeOK
<1>1. PipelineInit => PipelineTypeOK
  BY DEF PipelineInit, PipelineTypeOK, Unbound, NoReply, Ids, Codes
<1>2. ASSUME TypeOK, TypeOK', PipelineTypeOK, [PipelineNext]_allVars
      PROVE  PipelineTypeOK'
  <2> USE DEF PipelineTypeOK
  <2>1. \A r \in Requests : /\ <<r, "handler">> \in Tasks /\ <<r, "middleware">> \in Tasks
                            /\ r \in Ids /\ request[r].tenant \in Ids
    BY <1>2 DEF Tasks, Ids, TypeOK, Calls
  <2>2. /\ Nobody \in Ids /\ {"accepted", "internal_server_error"} \subseteq Codes
        /\ Refusals \subseteq Codes /\ "none" \in Codes
        /\ Unbound \in [request_id : Ids, tenant_id : Ids]
        /\ NoReply \in [code : Codes \cup EarlyRefusals, request_id : Ids, header : Ids]
    BY DEF Ids, Codes, Breakdowns, Unbound, NoReply
  <2>3. ASSUME NEW r \in Requests, NEW id \in Ids, NEW old \in [request_id : Ids, tenant_id : Ids]
        PROVE  Bound(old, id, Nobody) \in [request_id : Ids, tenant_id : Ids]
    BY <2>2 DEF Bound
  <2>4. ASSUME NEW r \in Requests
        PROVE  Line(r, "handler") \in [call : Requests, request_id : Ids, tenant_id : Ids]
    BY <1>2, <2>1 DEF Line, Context
  <2>5. ASSUME NEW r \in Requests, NEW code \in Codes \cup EarlyRefusals,
               PlatformErrorHandled(r, code)
        PROVE  PipelineTypeOK'
    BY <1>2, <2>1, <2>2, <2>4, <2>5
       DEF PlatformErrorHandled, MovesTo, Body, Context, Served
  <2>6. ASSUME NEW r \in Requests, Arrive(r) PROVE PipelineTypeOK'
    BY <1>2, <2>1, <2>2, <2>3, <2>6 DEF Arrive, MovesTo, Context, Served
  <2>7. ASSUME NEW r \in Requests, TokenRefused(r) \/ TenantRefused(r)
        PROVE  PipelineTypeOK'
    BY <2>5, <2>7 DEF TokenRefused, TenantRefused, EarlyRefusals
  <2>8. ASSUME NEW r \in Requests, RequestInvalid(r) PROVE PipelineTypeOK'
    BY <1>2, <2>2, <2>8 DEF RequestInvalid, MovesTo, Body, Served, EarlyRefusals
  <2>9. ASSUME NEW r \in Requests, Handle(r) PROVE PipelineTypeOK'
    BY <1>2, <2>1, <2>2, <2>3, <2>9 DEF Handle, MovesTo, Context, Served
  <2>10. ASSUME NEW r \in Requests, Reaction(r) PROVE PipelineTypeOK'
    <3>1. CASE UNCHANGED <<stage, context, reply>> /\
               (log' = log \/ log' = log \cup {Line(r, "handler")})
      BY <1>2, <2>4, <3>1
    <3>2. CASE \E code \in Refusals : PlatformErrorHandled(r, code)
      BY <2>2, <2>5, <3>2
    <3>3. CASE MovesTo(r, "unwinding") /\ UNCHANGED <<context, reply, log>>
      BY <1>2, <3>3 DEF MovesTo, Served
    <3>4. CASE MovesTo(r, "returning") /\ Body(r, "accepted", Nobody)
               /\ UNCHANGED <<context, log>>
      BY <1>2, <2>2, <3>4 DEF MovesTo, Body, Served
    <3>5. QED BY <2>10, <3>1, <3>2, <3>3, <3>4 DEF Reaction
  <2>11. ASSUME NEW r \in Requests, Respond(r) PROVE PipelineTypeOK'
    BY <1>2, <2>1, <2>2, <2>11 DEF Respond, MovesTo, ClearContext, Context, Served
  <2>12. ASSUME NEW r \in Requests, Unwind(r) PROVE PipelineTypeOK'
    <3>1. stage' \in [Requests -> Served \cup {"client", "done"}]
      BY <1>2, <2>12 DEF Unwind, MovesTo
    <3>2. context' \in [Tasks -> [request_id : Ids, tenant_id : Ids]]
      BY <1>2, <2>1, <2>2, <2>12 DEF Unwind, ClearContext, Context
    <3> DEFINE body == [code |-> "internal_server_error", request_id |-> Nobody,
                        header |-> Nobody]
               line == [call |-> r, request_id |-> Nobody, tenant_id |-> Nobody]
    <3>3. reply' = [reply EXCEPT ![r] = body] /\ log' = log \cup {line}
      BY <1>2, <2>12, UnwindSaysNothing
    <3>4. body \in [code : Codes \cup EarlyRefusals, request_id : Ids, header : Ids]
      BY <2>2
    <3>5. line \in [call : Requests, request_id : Ids, tenant_id : Ids]
      BY <2>2
    <3> HIDE DEF body, line
    <3>6. QED BY <1>2, <3>1, <3>2, <3>3, <3>4, <3>5
  <2>13. CASE ProcessStops
    BY <1>2, <2>2, <2>13 DEF ProcessStops
  <2>14. CASE UNCHANGED pipelineVars
    BY <1>2, <2>14 DEF pipelineVars
  <2>15. QED
    BY <1>2, <2>6, <2>7, <2>8, <2>9, <2>10, <2>11, <2>12, <2>13, <2>14
       DEF PipelineNext, Serve, HandlerWorks, StatementFails, AllServed, allVars
<1>3. QED BY <1>1, <1>2, PipelineImplementsEndpoint, TypeCorrect, PTL DEF PipelineSpec

-----------------------------------------------------------------------------
(* How a step of one call leaves the others alone.                         *)

(* What a call holds changes only when its own tasks run.                  *)
Untouched(q) ==
    /\ stage'[q] = stage[q] /\ reply'[q] = reply[q]
    /\ context'[<<q, "middleware">>] = context[<<q, "middleware">>]
    /\ context'[<<q, "handler">>] = context[<<q, "handler">>]

(* A call that is left alone stays correlated.                             *)
LEMMA UntouchedStays ==
    ASSUME NEW q \in Requests, Untouched(q), request' = request,
           ContextsOf(q), ReplyOf(q)
    PROVE  ContextsOf(q)' /\ ReplyOf(q)'
BY DEF Untouched, ContextsOf, ReplyOf, BodyOf, OwnId

(* So it suffices to look at the call that moves and the line it writes.   *)
LEMMA OneCallMoves ==
    ASSUME Correlated, NEW r \in Requests, request' = request,
           \A q \in Requests \ {r} : Untouched(q),
           ContextsOf(r)' /\ ReplyOf(r)',
           NEW line, log' \subseteq log \cup {line}, line \in log' => LineOf(line)
    PROVE  Correlated'
<1>1. \A q \in Requests : ContextsOf(q)' /\ ReplyOf(q)'
  BY UntouchedStays DEF Correlated
<1>2. ASSUME NEW other \in log' PROVE LineOf(other)'
  <2>1. LineOf(other)
    BY <1>2 DEF Correlated
  <2>2. QED BY <2>1 DEF LineOf
<1>3. QED BY <1>1, <1>2 DEF Correlated

-----------------------------------------------------------------------------
(* Every step keeps the calls correlated.                                  *)

(* The tasks of two calls are different tasks.                             *)
LEMMA OtherCallsUntouched ==
    ASSUME PipelineTypeOK, NEW r \in Requests, NEW tasks,
           tasks \subseteq {<<r, "middleware">>, <<r, "handler">>},
           \A q \in Requests \ {r} : stage'[q] = stage[q] /\ reply'[q] = reply[q],
           \A t \in Tasks \ tasks : context'[t] = context[t]
    PROVE  \A q \in Requests \ {r} : Untouched(q)
<1> SUFFICES ASSUME NEW q \in Requests \ {r}
             PROVE  Untouched(q)
  OBVIOUS
<1>1. /\ <<q, "middleware">> \in Tasks \ tasks
      /\ <<q, "handler">> \in Tasks \ tasks
  BY DEF Tasks
<1>2. QED BY <1>1 DEF Untouched

(* A refusal in the handler's task says what that task's context holds.    *)
LEMMA RefusalCorrelated ==
    ASSUME PipelineTypeOK, Correlated, NEW r \in Requests,
           NEW code \in {"unauthorized", "forbidden"} \cup Refusals,
           PlatformErrorHandled(r, code), request' = request,
           IF code \in Refusals THEN stage[r] = "handler" ELSE stage[r] = "dependencies"
    PROVE  Correlated'
<1> USE DEF PlatformErrorHandled, MovesTo, Body, Context, PipelineTypeOK
<1> DEFINE id == context[<<r, "handler">>].request_id
<1>1. ContextsOf(r)
  BY DEF Correlated
<1>2. id = IF code \in Refusals THEN request[r].tenant ELSE r
  BY <1>1 DEF ContextsOf
<1>3. LineOf(Line(r, "handler"))
  BY <1>1, <1>2 DEF Line, LineOf, ContextsOf
<1>4. /\ stage'[r] = "returning" /\ UNCHANGED context
      /\ reply'[r] = [code |-> code, request_id |-> id, header |-> Nobody]
  OBVIOUS
<1> HIDE DEF id
<1>5. ContextsOf(r)'
  BY <1>1, <1>4 DEF ContextsOf
<1>6. code \in Answerable /\ (code \in Refusals => ~(code \in {"unauthorized", "forbidden"}))
  BY Names DEF Answerable, EarlyRefusals, Refusals
<1>7. ReplyOf(r)'
  BY <1>2, <1>4, <1>6 DEF ReplyOf, BodyOf, OwnId
<1>8. \A q \in Requests \ {r} : Untouched(q)
  BY DEF Untouched
<1>9. QED BY <1>3, <1>5, <1>7, <1>8, OneCallMoves

LEMMA ReactionCorrelated ==
    ASSUME PipelineTypeOK, Correlated, NEW r \in Requests, stage[r] = "handler",
           Reaction(r), request' = request
    PROVE  Correlated'
<1> USE DEF MovesTo, Body, PipelineTypeOK
<1>1. ContextsOf(r) /\ ReplyOf(r)
  BY DEF Correlated
<1>2. CASE \E code \in Refusals : PlatformErrorHandled(r, code)
  BY <1>2, RefusalCorrelated
<1>3. CASE UNCHANGED <<stage, context, reply>> /\ log' \subseteq log \cup {Line(r, "handler")}
  <2>1. \A q \in Requests : Untouched(q)
    BY <1>3 DEF Untouched
  <2>2. LineOf(Line(r, "handler"))
    BY <1>1 DEF Line, Context, LineOf, ContextsOf
  <2>3. QED BY <1>1, <1>3, <2>1, <2>2, UntouchedStays, OneCallMoves
<1>4. ASSUME MovesTo(r, "unwinding"), UNCHANGED <<context, reply, log>>
      PROVE  Correlated'
  <2>1. stage'[r] = "unwinding"
    BY <1>4
  <2>2. ContextsOf(r)' /\ ReplyOf(r)'
    BY <1>1, <1>4, <2>1 DEF ContextsOf, ReplyOf, BodyOf, OwnId
  <2>3. \A q \in Requests \ {r} : Untouched(q)
    BY <1>4 DEF Untouched
  <2>4. log' \subseteq log \cup {Line(r, "handler")} /\ LineOf(Line(r, "handler"))
    BY <1>1, <1>4 DEF Line, Context, LineOf, ContextsOf
  <2>5. QED BY <2>2, <2>3, <2>4, OneCallMoves
<1>5. ASSUME MovesTo(r, "returning"), Body(r, "accepted", Nobody), UNCHANGED <<context, log>>
      PROVE  Correlated'
  <2>1. /\ stage'[r] = "returning"
        /\ reply'[r] = [code |-> "accepted", request_id |-> Nobody, header |-> Nobody]
    BY <1>5
  <2>2. ContextsOf(r)' /\ ReplyOf(r)'
    BY <1>1, <1>5, <2>1, Names DEF ContextsOf, ReplyOf, BodyOf, OwnId
  <2>3. \A q \in Requests \ {r} : Untouched(q)
    BY <1>5 DEF Untouched
  <2>4. log' \subseteq log \cup {Line(r, "handler")} /\ LineOf(Line(r, "handler"))
    BY <1>1, <1>5 DEF Line, Context, LineOf, ContextsOf
  <2>5. QED BY <2>2, <2>3, <2>4, OneCallMoves
<1>6. QED BY <1>2, <1>3, <1>4, <1>5 DEF Reaction

LEMMA CorrelatedStep ==
    ASSUME PipelineTypeOK, Correlated, [PipelineNext]_allVars, request' = request
    PROVE  Correlated'
<1> USE DEF MovesTo, PipelineTypeOK
<1>0. \A r \in Requests : /\ ContextsOf(r) /\ ReplyOf(r)
                          /\ <<r, "handler">> \in Tasks /\ <<r, "middleware">> \in Tasks
  BY DEF Correlated, Tasks
<1>1. ASSUME NEW r \in Requests, Arrive(r) PROVE Correlated'
  <2>1. context' = [context EXCEPT
            ![<<r, "middleware">>] = [request_id |-> r, tenant_id |-> Nobody],
            ![<<r, "handler">>] = [request_id |-> r, tenant_id |-> Nobody]]
    BY <1>0, <1>1 DEF Arrive, Context, Bound, ContextsOf
  <2>2. /\ context'[<<r, "middleware">>] = [request_id |-> r, tenant_id |-> Nobody]
        /\ context'[<<r, "handler">>] = [request_id |-> r, tenant_id |-> Nobody]
    BY <1>0, <2>1
  <2>3. ContextsOf(r)' /\ ReplyOf(r)'
    BY <1>0, <1>1, <2>2 DEF Arrive, ContextsOf, ReplyOf, BodyOf, OwnId
  <2>4. \A q \in Requests \ {r} : Untouched(q)
    <3>1. \A t \in Tasks \ {<<r, "middleware">>, <<r, "handler">>} : context'[t] = context[t]
      BY <2>1
    <3>2. \A q \in Requests \ {r} : stage'[q] = stage[q] /\ reply'[q] = reply[q]
      BY <1>1 DEF Arrive
    <3>3. QED BY <3>1, <3>2, OtherCallsUntouched
  <2>5. QED
    BY <1>1, <2>3, <2>4, OneCallMoves DEF Arrive, Correlated
<1>2. ASSUME NEW r \in Requests, TokenRefused(r) \/ TenantRefused(r) PROVE Correlated'
  <2>1. PICK code \in {"unauthorized", "forbidden"} : PlatformErrorHandled(r, code)
    BY <1>2 DEF TokenRefused, TenantRefused
  <2>2. stage[r] = "dependencies" /\ code \notin Refusals
    BY <1>2, Names DEF TokenRefused, TenantRefused, EarlyRefusals, Refusals
  <2>3. QED BY <2>1, <2>2, RefusalCorrelated
<1>3. ASSUME NEW r \in Requests, RequestInvalid(r) PROVE Correlated'
  <2>1. /\ stage'[r] = "returning" /\ UNCHANGED <<context, log>>
        /\ reply'[r] = [code |-> "invalid", request_id |-> Nobody, header |-> Nobody]
    BY <1>3 DEF RequestInvalid, Body
  <2>2. ContextsOf(r)' /\ ReplyOf(r)'
    BY <1>0, <2>1, Names DEF ContextsOf, ReplyOf, BodyOf, OwnId, Answerable, EarlyRefusals
  <2>3. \A q \in Requests \ {r} : Untouched(q)
    BY <1>3 DEF RequestInvalid, Body, Untouched
  <2>4. QED BY <2>1, <2>2, <2>3, OneCallMoves DEF Correlated
<1>4. ASSUME NEW r \in Requests, Handle(r) PROVE Correlated'
  <2> DEFINE bound == [request_id |-> request[r].tenant, tenant_id |-> Nobody]
  <2>1. context' = [context EXCEPT ![<<r, "handler">>] = bound]
    BY <1>0, <1>4 DEF Handle, Context, Bound, ContextsOf
  <2>2. /\ context'[<<r, "handler">>] = bound
        /\ context'[<<r, "middleware">>] = context[<<r, "middleware">>]
    BY <1>0, <2>1
  <2>3. stage'[r] = "handler" /\ UNCHANGED <<reply, log>>
    BY <1>4 DEF Handle
  <2>4. ContextsOf(r)' /\ ReplyOf(r)'
    BY <1>0, <1>4, <2>2, <2>3 DEF Handle, ContextsOf, ReplyOf, BodyOf, OwnId
  <2>5. \A q \in Requests \ {r} : Untouched(q)
    <3>1. \A t \in Tasks \ {<<r, "handler">>} : context'[t] = context[t]
      BY <2>1
    <3>2. \A q \in Requests \ {r} : stage'[q] = stage[q] /\ reply'[q] = reply[q]
      BY <1>4 DEF Handle
    <3>3. QED BY <3>1, <3>2, OtherCallsUntouched
  <2>6. QED BY <2>3, <2>4, <2>5, OneCallMoves DEF Correlated
<1>5. ASSUME NEW r \in Requests, HandlerWorks(r) \/ StatementFails(r) PROVE Correlated'
  BY <1>5, ReactionCorrelated DEF HandlerWorks, StatementFails
<1>6. ASSUME NEW r \in Requests, Respond(r) PROVE Correlated'
  <2>1. /\ stage'[r] = "done" /\ UNCHANGED log
        /\ reply'[r] = [reply[r] EXCEPT !.header = r]
        /\ context' = [context EXCEPT ![<<r, "middleware">>] = Unbound]
    BY <1>6 DEF Respond, ClearContext, Context
  <2>2. /\ context'[<<r, "middleware">>].tenant_id = Nobody
        /\ context'[<<r, "handler">>] = context[<<r, "handler">>]
    BY <1>0, <2>1 DEF Unbound
  <2>3. /\ reply'[r].code = reply[r].code /\ reply'[r].request_id = reply[r].request_id
        /\ reply'[r].header = r
    BY <2>1
  <2>4. ContextsOf(r)' /\ ReplyOf(r)'
    BY <1>0, <1>6, <2>1, <2>2, <2>3 DEF Respond, ContextsOf, ReplyOf, BodyOf, OwnId
  <2>5. \A q \in Requests \ {r} : Untouched(q)
    BY <1>6, <2>1, OtherCallsUntouched DEF Respond
  <2>6. QED BY <2>1, <2>4, <2>5, OneCallMoves DEF Correlated
<1>7. ASSUME NEW r \in Requests, Unwind(r) PROVE Correlated'
  <2> DEFINE line == [call |-> r, request_id |-> Nobody, tenant_id |-> Nobody]
  <2>1. /\ stage'[r] = "done" /\ log' = log \cup {line}
        /\ reply' = [reply EXCEPT ![r] = [code |-> "internal_server_error",
                                         request_id |-> Nobody, header |-> Nobody]]
        /\ context' = [context EXCEPT ![<<r, "middleware">>] = Unbound]
    BY <1>7, UnwindSaysNothing DEF Unwind
  <2>2. /\ context'[<<r, "middleware">>].tenant_id = Nobody
        /\ context'[<<r, "handler">>] = context[<<r, "handler">>]
    BY <1>0, <2>1 DEF Unbound
  <2>3. reply'[r] = [code |-> "internal_server_error", request_id |-> Nobody,
                     header |-> Nobody]
    BY <2>1
  <2>4. ContextsOf(r)' /\ ReplyOf(r)'
    BY <1>0, <2>1, <2>2, <2>3, Names DEF ContextsOf, ReplyOf, BodyOf, OwnId
  <2>5. \A q \in Requests \ {r} : Untouched(q)
    BY <1>7, <2>1, OtherCallsUntouched DEF Unwind
  <2>6. LineOf(line)
    BY DEF LineOf
  <2>7. QED BY <2>1, <2>4, <2>5, <2>6, OneCallMoves
<1>8. CASE ProcessStops
  <2>1. ASSUME NEW r \in Requests PROVE ContextsOf(r)' /\ ReplyOf(r)'
    <3>1. context'[<<r, "middleware">>] = Unbound /\ context'[<<r, "handler">>] = Unbound
      BY <1>0, <1>8 DEF ProcessStops
    <3>2. ContextsOf(r)'
      <4>1. stage'[r] \in {"client", "done"}
        BY <1>8 DEF ProcessStops, Served
      <4>2. QED BY <3>1, <4>1 DEF ContextsOf, Unbound
    <3>3. CASE stage[r] \in Served
      <4>1. stage'[r] = "done" /\ reply'[r] = NoReply
        BY <1>8, <3>3 DEF ProcessStops
      <4>2. QED BY <3>2, <4>1, Names DEF ReplyOf, BodyOf, OwnId, NoReply
    <3>4. CASE stage[r] \notin Served
      <4>1. stage'[r] = stage[r] /\ reply'[r] = reply[r]
        BY <1>8, <3>4 DEF ProcessStops
      <4>2. QED BY <1>0, <3>2, <4>1 DEF ReplyOf, BodyOf, OwnId
    <3>5. QED BY <3>3, <3>4
  <2>2. \A line \in log' : LineOf(line)'
    BY <1>8 DEF ProcessStops, Correlated, LineOf
  <2>3. QED BY <2>1, <2>2 DEF Correlated
<1>9. CASE UNCHANGED pipelineVars
  BY <1>9 DEF pipelineVars, Correlated, ContextsOf, ReplyOf, BodyOf, OwnId, LineOf
<1>10. QED
  BY <1>1, <1>2, <1>3, <1>4, <1>5, <1>6, <1>7, <1>8, <1>9
     DEF PipelineNext, Serve, AllServed, allVars

(* Whatever interleaves, no line, body or header carries the id of another *)
(* call or of another call's tenant.                                       *)
THEOREM NeverCrosses == PipelineSpec => []CorrelationNeverCrosses
<1>1. PipelineInit => Correlated
  <2> SUFFICES ASSUME PipelineInit PROVE Correlated
    OBVIOUS
  <2>1. log = {}
    BY DEF PipelineInit
  <2>2. ASSUME NEW r \in Requests PROVE ContextsOf(r) /\ ReplyOf(r)
    <3>1. /\ context[<<r, "middleware">>] = Unbound
          /\ context[<<r, "handler">>] = Unbound
          /\ stage[r] = "client" /\ reply[r] = NoReply
      BY DEF PipelineInit, Tasks
    <3>2. ContextsOf(r)
      BY <3>1 DEF ContextsOf, Unbound
    <3>3. ReplyOf(r)
      BY <3>1, Names DEF ReplyOf, BodyOf, OwnId, NoReply
    <3>4. QED BY <3>2, <3>3
  <2>3. QED BY <2>1, <2>2 DEF Correlated
<1>2. PipelineTypeOK /\ Correlated => CorrelationNeverCrosses
  <2> SUFFICES ASSUME PipelineTypeOK, Correlated PROVE CorrelationNeverCrosses
    OBVIOUS
  <2>1. ASSUME NEW r \in Requests
        PROVE  /\ reply[r].request_id \in {r, request[r].tenant, Nobody}
               /\ reply[r].header \in {r, Nobody}
    <3>1. stage[r] \in {"client", "dependencies", "handler", "unwinding", "returning", "done"}
      BY DEF PipelineTypeOK, Served
    <3>2. ReplyOf(r)
      BY DEF Correlated
    <3>3. QED BY <3>1, <3>2 DEF ReplyOf, BodyOf, NoReply
  <2>2. QED BY <2>1 DEF Correlated, LineOf, CorrelationNeverCrosses
<1>3. TypeOK /\ [Next]_vars => request' = request
  BY RecordsOnlyGrow
<1>4. QED
  BY <1>1, <1>2, <1>3, CorrelatedStep, PipelineTypeCorrect, PipelineImplementsEndpoint,
     TypeCorrect, PTL DEF PipelineSpec, Spec

-----------------------------------------------------------------------------
(* How far a call still has to go.                                         *)

(* The steps a handler may still take.                                     *)
HandlerStepsLeft(step) ==
    CASE step = "idle" -> 11
      [] step = "lookup" -> 10
      [] step = "active" -> 9
      [] step = "insert" -> 8
      [] step = "servicetitan" -> 7
      [] step = "quickbooks" -> 6
      [] step = "match" -> 5
      [] step = "commit_run" -> 4
      [] step = "save_record" -> 3
      [] step = "commit_record" -> 2
      [] step = "answer" -> 1
      [] OTHER -> 0

(* The steps a call may still take: around the handler it has at most one  *)
(* before and one after it.                                                *)
StepsLeft(r) ==
    CASE stage[r] = "client" -> 13
      [] stage[r] = "dependencies" -> 12
      [] stage[r] = "handler" -> 1 + HandlerStepsLeft(pc[r])
      [] stage[r] \in {"returning", "unwinding"} -> 1
      [] OTHER -> 0

(* The code goes forward only: no step of a handler repeats another.       *)
LEMMA HandlerGoesOn ==
    ASSUME TypeOK, NEW r \in Requests, HandlerStep(r)
    PROVE  /\ HandlerStepsLeft(pc'[r]) < HandlerStepsLeft(pc[r])
           /\ \A q \in Requests \ {r} : pc'[q] = pc[q]
<1> USE DEF TypeOK, Goto, Answered, HandlerStepsLeft
<1>1. ASSUME HashFails(r) \/ LookupMisses(r) \/ KeyReused(r) \/ Replay(r)
      PROVE  /\ pc[r] = "lookup"
             /\ \E step \in {"active", "done"} : pc' = [pc EXCEPT ![r] = step]
  BY <1>1 DEF HashFails, LookupMisses, KeyReused, Replay, Raise
<1>2. ASSUME CheckActiveRun(r) \/ InsertRun(r)
      PROVE  \/ pc[r] = "active" /\ \E step \in {"insert", "done"} :
                                        pc' = [pc EXCEPT ![r] = step]
             \/ pc[r] = "insert" /\ pc' = [pc EXCEPT ![r] = "servicetitan"]
  BY <1>2 DEF CheckActiveRun, InsertRun, Raise
<1>3. ASSUME FetchServiceTitan(r) \/ FetchQuickBooks(r)
      PROVE  \/ pc[r] = "servicetitan" /\ \E step \in {"quickbooks", "done"} :
                                              pc' = [pc EXCEPT ![r] = step]
             \/ pc[r] = "quickbooks" /\ \E step \in {"match", "done"} :
                                            pc' = [pc EXCEPT ![r] = step]
  BY <1>3 DEF FetchServiceTitan, FetchQuickBooks, Fetch, Raise
<1>4. ASSUME PersistAndMatch(r) \/ PersistFails(r) \/ CommitRun(r)
      PROVE  \/ pc[r] = "match" /\ \E step \in {"commit_run", "done"} :
                                       pc' = [pc EXCEPT ![r] = step]
             \/ pc[r] = "commit_run" /\ \E step \in {"save_record", "answer"} :
                                            pc' = [pc EXCEPT ![r] = step]
  BY <1>4 DEF PersistAndMatch, PersistFails, CommitRun, Raise
<1>5. ASSUME SaveRecord(r) \/ SaveConflicts(r) \/ CommitRecord(r) \/ Answer(r)
      PROVE  \/ pc[r] = "save_record" /\ \E step \in {"commit_record", "done"} :
                                             pc' = [pc EXCEPT ![r] = step]
             \/ pc[r] = "commit_record" /\ pc' = [pc EXCEPT ![r] = "answer"]
             \/ pc[r] = "answer" /\ pc' = [pc EXCEPT ![r] = "done"]
  BY <1>5 DEF SaveRecord, SaveConflicts, CommitRecord, Answer, Raise
<1>6. QED BY <1>1, <1>2, <1>3, <1>4, <1>5 DEF HandlerStep

(* A call that is left alone has as many steps left as before.             *)
LEMMA LeftAlone ==
    ASSUME NEW q \in Requests, stage'[q] = stage[q],
           stage[q] = "handler" => pc'[q] = pc[q]
    PROVE  StepsLeft(q)' = StepsLeft(q)
BY DEF StepsLeft

(* Every step that serves a call brings it nearer to its end, and nothing  *)
(* else sends it back.                                                     *)
GoesOn(r) ==
    /\ StepsLeft(r) \in 0..13
    /\ StepsLeft(r) = 0 <=> stage[r] = "done"
    /\ StepsLeft(r)' <= StepsLeft(r)
    /\ Arrive(r) \/ Serve(r) => StepsLeft(r)' < StepsLeft(r)

LEMMA StepsLeftTyped ==
    ASSUME PipelineTypeOK, NEW r \in Requests
    PROVE  StepsLeft(r) \in 0..13 /\ (StepsLeft(r) = 0 <=> stage[r] = "done")
<1>1. HandlerStepsLeft(pc[r]) \in 0..11
  BY DEF HandlerStepsLeft
<1>2. stage[r] \in {"client", "dependencies", "handler", "returning", "unwinding", "done"}
  BY DEF PipelineTypeOK, Served
<1>3. QED BY <1>1, <1>2 DEF StepsLeft

(* What a step does to the call it is about.                               *)
LEMMA ServedGoesOn ==
    ASSUME TypeOK, PipelineTypeOK, NEW r \in Requests,
           Arrive(r) \/ Serve(r) \/ StatementFails(r)
    PROVE  /\ StepsLeft(r)' < StepsLeft(r)
           /\ \A q \in Requests \ {r} : stage'[q] = stage[q] /\ pc'[q] = pc[q]
<1> USE DEF PipelineTypeOK, MovesTo
<1>1. ASSUME Arrive(r) PROVE StepsLeft(r)' < StepsLeft(r)
  BY <1>1 DEF Arrive, StepsLeft
<1>2. ASSUME TokenRefused(r) \/ TenantRefused(r) \/ RequestInvalid(r)
      PROVE  StepsLeft(r)' < StepsLeft(r)
  BY <1>2 DEF TokenRefused, TenantRefused, RequestInvalid, PlatformErrorHandled, StepsLeft
<1>3. ASSUME Handle(r)
      PROVE  /\ StepsLeft(r)' < StepsLeft(r)
             /\ \A q \in Requests \ {r} : stage'[q] = stage[q] /\ pc'[q] = pc[q]
  <2>1. pc'[r] \in {"lookup", "active"} /\ \A q \in Requests \ {r} : pc'[q] = pc[q]
    BY <1>3 DEF Handle, Receive, Goto, TypeOK
  <2>2. stage[r] = "dependencies" /\ stage' = [stage EXCEPT ![r] = "handler"]
    BY <1>3 DEF Handle
  <2>3. QED BY <2>1, <2>2 DEF StepsLeft, HandlerStepsLeft
<1>4. ASSUME HandlerWorks(r) \/ StatementFails(r)
      PROVE  /\ StepsLeft(r)' < StepsLeft(r)
             /\ \A q \in Requests \ {r} : stage'[q] = stage[q] /\ pc'[q] = pc[q]
  <2>1. /\ HandlerStepsLeft(pc'[r]) < HandlerStepsLeft(pc[r])
        /\ \A q \in Requests \ {r} : pc'[q] = pc[q]
    <3>1. CASE HandlerWorks(r)
      BY <3>1, HandlerGoesOn DEF HandlerWorks
    <3>2. CASE StatementFails(r)
      BY <3>2 DEF StatementFails, DatabaseFails, Answered, Goto, TypeOK, Working,
                  HandlerStepsLeft
    <3>3. QED BY <1>4, <3>1, <3>2
  <2>2. HandlerStepsLeft(pc'[r]) \in 0..11 /\ HandlerStepsLeft(pc[r]) \in 0..11
    BY DEF HandlerStepsLeft
  <2>3. stage[r] = "handler"
    BY <1>4 DEF HandlerWorks, StatementFails
  <2>4. stage' = stage \/ \E s \in {"returning", "unwinding"} : stage' = [stage EXCEPT ![r] = s]
    BY <1>4 DEF HandlerWorks, StatementFails, Reaction, PlatformErrorHandled
  <2>5. stage'[r] \in {"handler", "returning", "unwinding"}
        /\ \A q \in Requests \ {r} : stage'[q] = stage[q]
    BY <2>3, <2>4
  <2>6. QED BY <2>1, <2>2, <2>3, <2>5 DEF StepsLeft
<1>5. ASSUME Respond(r) \/ Unwind(r) PROVE StepsLeft(r)' < StepsLeft(r)
  BY <1>5 DEF Respond, Unwind, StepsLeft
<1>6. ASSUME Arrive(r) \/ TokenRefused(r) \/ TenantRefused(r) \/ RequestInvalid(r)
             \/ Respond(r) \/ Unwind(r)
      PROVE  \A q \in Requests \ {r} : stage'[q] = stage[q] /\ pc'[q] = pc[q]
  BY <1>6 DEF Arrive, TokenRefused, TenantRefused, RequestInvalid, Respond, Unwind,
              PlatformErrorHandled, vars
<1>7. QED BY <1>1, <1>2, <1>3, <1>4, <1>5, <1>6 DEF Serve

(* At most 12 steps after its arrival a call is done: every step that      *)
(* serves it brings it nearer to its end, and no step of another call, no  *)
(* fault and no expired record sends it back.  A call can wait, it cannot  *)
(* go in circles.                                                          *)
THEOREM CallsGoOn == PipelineSpec => [][\A r \in Requests : GoesOn(r)]_allVars
<1>1. ASSUME TypeOK, PipelineTypeOK, PipelineTypeOK', [PipelineNext]_allVars,
             NEW q \in Requests
      PROVE  StepsLeft(q)' <= StepsLeft(q)
  <2> USE DEF PipelineTypeOK
  <2>1. StepsLeft(q) \in 0..13
    BY <1>1, StepsLeftTyped
  <2>2. ASSUME NEW r \in Requests, Arrive(r) \/ Serve(r) \/ StatementFails(r)
        PROVE  StepsLeft(q)' <= StepsLeft(q)
    <3>1. CASE q = r
      <4>1. StepsLeft(r)' < StepsLeft(r)
        BY <1>1, <2>2, ServedGoesOn
      <4>2. StepsLeft(r)' \in 0..13
        BY DEF StepsLeft, HandlerStepsLeft
      <4>3. QED BY <2>1, <3>1, <4>1, <4>2
    <3>2. CASE q # r
      BY <1>1, <2>1, <2>2, <3>2, ServedGoesOn, LeftAlone
    <3>3. QED BY <3>1, <3>2
  <2>3. CASE ProcessStops
    <3>1. stage'[q] = IF stage[q] \in Served THEN "done" ELSE stage[q]
      BY <1>1, <2>3 DEF ProcessStops
    <3>2. CASE stage[q] \in Served
      BY <2>1, <3>1, <3>2 DEF StepsLeft
    <3>3. CASE stage[q] \notin Served
      BY <2>1, <3>1, <3>3, LeftAlone DEF Served
    <3>4. QED BY <3>2, <3>3
  <2>4. ASSUME NEW rec \in records, Expire(rec), UNCHANGED pipelineVars
        PROVE  StepsLeft(q)' <= StepsLeft(q)
    BY <2>1, <2>4, LeftAlone DEF Expire, pipelineVars
  <2>5. CASE UNCHANGED allVars
    BY <2>1, <2>5, LeftAlone DEF allVars, vars, pipelineVars
  <2>6. QED BY <1>1, <2>2, <2>3, <2>4, <2>5 DEF PipelineNext, AllServed
<1>2. ASSUME TypeOK, PipelineTypeOK, PipelineTypeOK', [PipelineNext]_allVars
      PROVE  \A r \in Requests : GoesOn(r)
  BY <1>1, <1>2, StepsLeftTyped, ServedGoesOn DEF GoesOn
<1>3. QED
  BY <1>2, PipelineTypeCorrect, PipelineImplementsEndpoint, TypeCorrect, PTL DEF PipelineSpec
==============================================================================
