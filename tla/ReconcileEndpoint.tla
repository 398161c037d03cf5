-------------------------- MODULE ReconcileEndpoint --------------------------
(***************************************************************************)
(* POST /accounting/reconcile: routes.trigger_reconciliation, the database *)
(* session of core/database.py it runs in, the steps of                    *)
(* ReconciliationService.reconcile that touch the database or a source     *)
(* system, and the idempotency records of core/idempotency.py.             *)
(*                                                                         *)
(* The handler is a coroutine: at every await another request may run, and *)
(* the service process may stop.  One action is the code between two       *)
(* awaits that reach the database or a source system.  Postgres runs at    *)
(* READ COMMITTED, so a statement sees the rows committed when it starts   *)
(* and the rows of its own transaction.                                    *)
(*                                                                         *)
(* A definition F_X, beside a definition F, is F with the fault X: each    *)
(* property below fails when one of them takes the place of its F.         *)
(***************************************************************************)
EXTENDS Naturals, FiniteSets

CONSTANTS
    Requests,      \* the calls clients make; a run's id is the request that made it
    Tenants,
    Keys,          \* Idempotency-Key values
    NoKey,         \* no Idempotency-Key header, or an empty one
    Bodies,        \* request bodies up to the canonical JSON that is hashed
    DatedBodies,   \* the bodies that carry date_from or date_to
    NoRun,         \* no run: the run of an answer that names none
    FetchOutcomes, \* how a fetch from a source system may end
    MaxInFlight,   \* BOUND: requests handled at the same time
    MaxFaults,     \* BOUND: process crashes and database failures
    RecordsExpire  \* whether records may pass their expires_at

Sources == {"servicetitan", "quickbooks"}

(* "malformed" is a successful fetch of invoices the database rejects.     *)
Outcomes == {"ok", "malformed", "error", "auth", "escape"}

ASSUME ConstantsAssumption ==
    /\ NoKey \notin Keys
    /\ DatedBodies \subseteq Bodies
    /\ NoRun \notin Requests
    /\ FetchOutcomes \subseteq Outcomes
    /\ MaxInFlight \in Nat
    /\ MaxFaults \in Nat
    /\ RecordsExpire \in BOOLEAN

VARIABLES
    request,      \* the tenant, key and body of each call
    pc,           \* where each request's handler stands
    sourceErrors, \* the sources whose fetch failed, of each reconcile call
    row,          \* status of the run row a handler's open transaction holds
    runs,         \* status of each committed row of reconciliation_runs
    records,      \* the committed rows of idempotency_records
    response,     \* what each caller was answered
    faults        \* crashes and database failures so far

vars == <<request, pc, sourceErrors, row, runs, records, response, faults>>

Terminal == {"succeeded", "partial"}
RunStatuses == Terminal \cup {"absent", "in_progress"}

Working == {"lookup", "active", "insert", "servicetitan", "quickbooks",
            "match", "commit_run", "save_record", "commit_record", "answer"}
Steps == Working \cup {"idle", "done"}

Refusals == {"mismatch", "run_in_progress", "unprocessable"}
Breakdowns == {"internal_server_error", "lost"}
Codes == Refusals \cup Breakdowns \cup {"none", "accepted"}

Calls == [tenant : Tenants, key : Keys \cup {NoKey}, body : Bodies]
Records == [tenant : Tenants, key : Keys, body : Bodies, run : Requests,
            fresh : BOOLEAN]
Answers == [code : Codes, run : Requests \cup {NoRun}]

TypeOK ==
    /\ request \in [Requests -> Calls]
    /\ pc \in [Requests -> Steps]
    /\ sourceErrors \in [Requests -> SUBSET Sources]
    /\ row \in [Requests -> RunStatuses]
    /\ runs \in [Requests -> RunStatuses]
    /\ records \in SUBSET Records
    /\ response \in [Requests -> Answers]
    /\ faults \in 0..MaxFaults

Init ==
    /\ request \in [Requests -> Calls]
    /\ pc = [r \in Requests |-> "idle"]
    /\ sourceErrors = [r \in Requests |-> {}]
    /\ row = [r \in Requests |-> "absent"]
    /\ runs = [r \in Requests |-> "absent"]
    /\ records = {}
    /\ response = [r \in Requests |-> [code |-> "none", run |-> NoRun]]
    /\ faults = 0

-----------------------------------------------------------------------------
(* What the handler reads.                                                 *)

Keyed(r) == request[r].key # NoKey
InFlight == {r \in Requests : pc[r] \in Working}
SameKey(c, d) == c.tenant = d.tenant /\ c.key = d.key

(* IdempotencyRepository.lookup: the unexpired record of the call's key.   *)
Lookup_ForgetsTenant(r) ==
    {rec \in records : rec.fresh /\ rec.key = request[r].key}
Lookup(r) ==
    {rec \in records : rec.fresh /\ SameKey(rec, request[r])}

(* ReconciliationRunRepository.get_active_run: a handler's own transaction *)
(* has inserted no row yet when it asks, so it reads committed rows.       *)
ActiveRuns(r) ==
    {q \in Requests :
        runs[q] = "in_progress" /\ request[q].tenant = request[r].tenant}

(* The unique index on (tenant_id, endpoint, key): an insert waits while   *)
(* another transaction holds an uncommitted row of the key, and fails if a *)
(* committed row has it, expired or not: no code deletes expired rows.     *)
IndexLocked_Forever(r) ==
    \E q \in Requests \ {r} :
        /\ pc[q] \in {"commit_record", "done"}
        /\ Keyed(q)
        /\ SameKey(request[q], request[r])
IndexLocked(r) ==
    \E q \in Requests \ {r} :
        pc[q] = "commit_record" /\ SameKey(request[q], request[r])

KeyTaken_AnyTenant(r) == \E rec \in records : rec.key = request[r].key
KeyTaken_LiveOnly(r) ==
    \E rec \in records : rec.fresh /\ SameKey(rec, request[r])
KeyTaken(r) == \E rec \in records : SameKey(rec, request[r])

-----------------------------------------------------------------------------
(* Ways a handler moves on.                                                *)

Goto(r, step) == pc' = [pc EXCEPT ![r] = step]

Answered(r, code, run) ==
    /\ Goto(r, "done")
    /\ response' = [response EXCEPT ![r] = [code |-> code, run |-> run]]

(* The locals of reconcile are gone once it returns or raises.             *)
LocalsDie_Shared(r) == sourceErrors' = [q \in Requests |-> {}]
LocalsDie(r) == sourceErrors' = [sourceErrors EXCEPT ![r] = {}]

(* An exception leaves the handler: get_db_session rolls the transaction   *)
(* back and the exception handlers of app.py answer.                       *)
Raise_RecordsTheFailure(r, code) ==
    /\ Answered(r, code, NoRun)
    /\ row' = [row EXCEPT ![r] = "absent"]
    /\ LocalsDie(r)
    /\ runs' = IF row[r] = "absent" THEN runs
               ELSE [runs EXCEPT ![r] = "partial"]
    /\ UNCHANGED <<request, records, faults>>
Raise(r, code) ==
    /\ Answered(r, code, NoRun)
    /\ row' = [row EXCEPT ![r] = "absent"]
    /\ LocalsDie(r)
    /\ UNCHANGED <<request, runs, records, faults>>

-----------------------------------------------------------------------------
(* trigger_reconciliation up to the call of the service.                   *)

Receive(r) ==
    /\ pc[r] = "idle"
    /\ Cardinality(InFlight) < MaxInFlight
    /\ Goto(r, IF Keyed(r) THEN "lookup" ELSE "active")
    /\ UNCHANGED <<request, sourceErrors, row, runs, records, response, faults>>

(* hash_request_body hands a date to json.dumps, which raises TypeError.   *)
HashFails(r) ==
    /\ pc[r] = "lookup"
    /\ request[r].body \in DatedBodies
    /\ Raise(r, "internal_server_error")

LookupMisses(r) ==
    /\ pc[r] = "lookup"
    /\ request[r].body \notin DatedBodies
    /\ Lookup(r) = {}
    /\ Goto(r, "active")
    /\ UNCHANGED <<request, sourceErrors, row, runs, records, response, faults>>

KeyReused(r) ==
    /\ pc[r] = "lookup"
    /\ request[r].body \notin DatedBodies
    /\ \E rec \in Lookup(r) : rec.body # request[r].body
    /\ Raise(r, "mismatch")

(* Every record was saved with response_status 202, so a hit is replayed.  *)
Replay_AnyBody(r) ==
    /\ pc[r] = "lookup"
    /\ request[r].body \notin DatedBodies
    /\ \E rec \in Lookup(r) : Answered(r, "accepted", rec.run)
    /\ UNCHANGED <<request, sourceErrors, row, runs, records, faults>>
Replay(r) ==
    /\ pc[r] = "lookup"
    /\ request[r].body \notin DatedBodies
    /\ \E rec \in Lookup(r) :
          /\ rec.body = request[r].body
          /\ Answered(r, "accepted", rec.run)
    /\ UNCHANGED <<request, sourceErrors, row, runs, records, faults>>

CheckActiveRun(r) ==
    /\ pc[r] = "active"
    /\ IF ActiveRuns(r) # {}
       THEN Raise(r, "run_in_progress")
       ELSE /\ Goto(r, "insert")
            /\ UNCHANGED <<request, sourceErrors, row, runs, records, response,
                           faults>>

-----------------------------------------------------------------------------
(* ReconciliationService.reconcile.                                        *)

(* The run row is flushed, not committed.                                  *)
InsertRun_Commits(r) ==
    /\ pc[r] = "insert"
    /\ row' = [row EXCEPT ![r] = "in_progress"]
    /\ runs' = [runs EXCEPT ![r] = "in_progress"]
    /\ Goto(r, "servicetitan")
    /\ UNCHANGED <<request, sourceErrors, records, response, faults>>
InsertRun(r) ==
    /\ pc[r] = "insert"
    /\ row' = [row EXCEPT ![r] = "in_progress"]
    /\ Goto(r, "servicetitan")
    /\ UNCHANGED <<request, sourceErrors, runs, records, response, faults>>

(* One fetch: rejected credentials end the call with 422; a rate limit or  *)
(* an API error is noted and the run goes on; any other exception of the   *)
(* client (an HTTP status it does not map, a body that is no JSON) escapes.*)
Fetch(r, source, next) ==
    \E outcome \in FetchOutcomes :
       \/ /\ outcome = "auth"
          /\ Raise(r, "unprocessable")
       \/ /\ outcome = "escape"
          /\ Raise(r, "internal_server_error")
       \/ /\ outcome \in {"ok", "malformed", "error"}
          /\ sourceErrors' =
                IF outcome = "error"
                THEN [sourceErrors EXCEPT ![r] = @ \cup {source}]
                ELSE sourceErrors
          /\ Goto(r, next)
          /\ UNCHANGED <<request, row, runs, records, response, faults>>

FetchServiceTitan(r) ==
    pc[r] = "servicetitan" /\ Fetch(r, "servicetitan", "quickbooks")

FetchQuickBooks(r) ==
    pc[r] = "quickbooks" /\ Fetch(r, "quickbooks", "match")

(* Invoices are normalised, flushed and matched, and the run row gets its  *)
(* final status.                                                           *)
FinalStatus_Failed(r) ==
    IF sourceErrors[r] = Sources THEN "failed"
    ELSE IF sourceErrors[r] = {} THEN "succeeded" ELSE "partial"
FinalStatus(r) == IF sourceErrors[r] = {} THEN "succeeded" ELSE "partial"

PersistAndMatch(r) ==
    /\ pc[r] = "match"
    /\ row' = [row EXCEPT ![r] = FinalStatus(r)]
    /\ Goto(r, "commit_run")
    /\ UNCHANGED <<request, sourceErrors, runs, records, response, faults>>

(* Some source delivered an invoice that cannot be stored.                 *)
PersistFails(r) ==
    /\ pc[r] = "match"
    /\ "malformed" \in FetchOutcomes
    /\ sourceErrors[r] # Sources
    /\ Raise(r, "internal_server_error")

CommitRun_Unfinished(r) ==
    /\ pc[r] = "commit_run"
    /\ row' = [row EXCEPT ![r] = "absent"]
    /\ LocalsDie(r)
    /\ Goto(r, IF Keyed(r) THEN "save_record" ELSE "answer")
    /\ UNCHANGED <<request, runs, records, response, faults>>
CommitRun(r) ==
    /\ pc[r] = "commit_run"
    /\ runs' = [runs EXCEPT ![r] = row[r]]
    /\ row' = [row EXCEPT ![r] = "absent"]
    /\ LocalsDie(r)
    /\ Goto(r, IF Keyed(r) THEN "save_record" ELSE "answer")
    /\ UNCHANGED <<request, records, response, faults>>

-----------------------------------------------------------------------------
(* trigger_reconciliation after the service returned: the record is saved  *)
(* in a transaction of its own, the run's is committed already.            *)

SaveRecord(r) ==
    /\ pc[r] = "save_record"
    /\ ~IndexLocked(r)
    /\ ~KeyTaken(r)
    /\ Goto(r, "commit_record")
    /\ UNCHANGED <<request, sourceErrors, row, runs, records, response, faults>>

(* IntegrityError of the unique index.                                     *)
SaveConflicts_DoesNotWait(r) ==
    /\ pc[r] = "save_record"
    /\ IndexLocked(r) \/ KeyTaken(r)
    /\ Raise(r, "internal_server_error")
SaveConflicts(r) ==
    /\ pc[r] = "save_record"
    /\ ~IndexLocked(r)
    /\ KeyTaken(r)
    /\ Raise(r, "internal_server_error")

RecordOf(r) ==
    [tenant |-> request[r].tenant, key |-> request[r].key,
     body |-> request[r].body, run |-> r, fresh |-> TRUE]

CommitRecord_Forgotten(r) ==
    /\ pc[r] = "commit_record"
    /\ Goto(r, "answer")
    /\ UNCHANGED <<request, sourceErrors, row, runs, records, response, faults>>
CommitRecord(r) ==
    /\ pc[r] = "commit_record"
    /\ records' = records \cup {RecordOf(r)}
    /\ Goto(r, "answer")
    /\ UNCHANGED <<request, sourceErrors, row, runs, response, faults>>

(* The handler returns; get_db_session's commit finds nothing to commit.   *)
Answer(r) ==
    /\ pc[r] = "answer"
    /\ Answered(r, "accepted", r)
    /\ UNCHANGED <<request, sourceErrors, row, runs, records, faults>>

HandlerStep(r) ==
    \/ HashFails(r) \/ LookupMisses(r) \/ KeyReused(r) \/ Replay(r)
    \/ CheckActiveRun(r) \/ InsertRun(r)
    \/ FetchServiceTitan(r) \/ FetchQuickBooks(r)
    \/ PersistAndMatch(r) \/ PersistFails(r) \/ CommitRun(r)
    \/ SaveRecord(r) \/ SaveConflicts(r) \/ CommitRecord(r) \/ Answer(r)

-----------------------------------------------------------------------------
(* The environment.                                                        *)

(* A statement or a commit fails in the database.  At "answer" nothing is  *)
(* left to send to it.                                                     *)
DatabaseFails(r) ==
    /\ faults < MaxFaults
    /\ pc[r] \in Working \ {"answer"}
    /\ faults' = faults + 1
    /\ Answered(r, "internal_server_error", NoRun)
    /\ row' = [row EXCEPT ![r] = "absent"]
    /\ LocalsDie(r)
    /\ UNCHANGED <<request, runs, records>>

(* The one service process stops: every request it handles is lost and its *)
(* open transaction is rolled back.                                        *)
Crash ==
    /\ faults < MaxFaults
    /\ InFlight # {}
    /\ faults' = faults + 1
    /\ pc' = [r \in Requests |-> IF r \in InFlight THEN "done" ELSE pc[r]]
    /\ row' = [r \in Requests |-> "absent"]
    /\ sourceErrors' = [r \in Requests |-> {}]
    /\ response' = [r \in Requests |->
                      IF r \in InFlight THEN [code |-> "lost", run |-> NoRun]
                      ELSE response[r]]
    /\ UNCHANGED <<request, runs, records>>

(* The record's 24 hours pass.                                             *)
Expire_Purges(rec) ==
    /\ RecordsExpire
    /\ rec.fresh
    /\ records' = records \ {rec}
    /\ UNCHANGED <<request, pc, sourceErrors, row, runs, response, faults>>
Expire(rec) ==
    /\ RecordsExpire
    /\ rec.fresh
    /\ records' = (records \ {rec}) \cup {[rec EXCEPT !.fresh = FALSE]}
    /\ UNCHANGED <<request, pc, sourceErrors, row, runs, response, faults>>

(* Nothing is left to do.                                                  *)
Quiet == (\A r \in Requests : pc[r] = "done") /\ UNCHANGED vars

Next ==
    \/ \E r \in Requests : Receive(r) \/ HandlerStep(r) \/ DatabaseFails(r)
    \/ \E rec \in records : Expire(rec)
    \/ Crash
    \/ Quiet

Spec == Init /\ [][Next]_vars

-----------------------------------------------------------------------------
(* Safety.                                                                 *)

Executed(r) == runs[r] \in Terminal
Accepted(r) == response[r].code = "accepted"

(* No transaction that commits leaves a run in progress, so whatever the   *)
(* order of requests, errors and crashes, no tenant is ever left with an   *)
(* active run that would refuse its later calls for good.  Nor does the    *)
(* check for an active run refuse a call while one is at work.             *)
CommittedRunsAreTerminal ==
    \A r \in Requests : /\ runs[r] # "in_progress"
                        /\ response[r].code # "run_in_progress"

(* The status of a run tells whether its fetches failed, however many      *)
(* calls are handled at once: a failed source is noted for the call that   *)
(* fetched from it, stays noted until reconcile is left, whatever the      *)
(* other calls do, and the run that is committed then is succeeded if and  *)
(* only if none is noted.                                                  *)
StatusTellsTheErrors ==
    [][\A r \in Requests :
          /\ sourceErrors'[r] \ sourceErrors[r] \subseteq {pc[r]}
          /\ \/ sourceErrors[r] \subseteq sourceErrors'[r]
             \/ pc'[r] \in {"save_record", "answer", "done"}
          /\ runs'[r] # runs[r] =>
                runs'[r] = IF sourceErrors[r] = {} THEN "succeeded" ELSE "partial"]_vars

(* A caller answered 202 is told of a run that is committed, of its own    *)
(* tenant and made by a call with its own key and body.                    *)
AnswerNamesItsRun ==
    \A r \in Requests : Accepted(r) =>
        LET q == response[r].run IN
        /\ q \in Requests
        /\ Executed(q)
        /\ q # r => Keyed(r) /\ request[q] = request[r]

(* All callers of a tenant that used the same key and were answered 202    *)
(* were told of the same run: concurrent double executions, crashes,       *)
(* retries and expired records included.                                   *)
KeyedAnswersAgree ==
    \A q, r \in Requests :
        /\ Accepted(q) /\ Accepted(r)
        /\ Keyed(q) /\ SameKey(request[q], request[r])
        => response[q].run = response[r].run

(* A record is never visible before the run it answers with, and belongs   *)
(* to the call that executed that run.                                     *)
RecordsNameTheirRun ==
    \A rec \in records :
        /\ Executed(rec.run)
        /\ SameKey(rec, request[rec.run])
        /\ rec.body = request[rec.run].body

(* A refused call (409, 422) did no work that outlives it: its run row is  *)
(* rolled back with everything the run had flushed.                        *)
RefusalsLeaveNothing ==
    \A r \in Requests : response[r].code \in Refusals => runs[r] = "absent"

(* A keyed call that was answered 202 can be retried: the key's record is  *)
(* there and holds the same run.                                           *)
AcceptedKeyIsRecorded ==
    \A r \in Requests : Accepted(r) /\ Keyed(r) =>
        \E rec \in records :
            SameKey(rec, request[r]) /\ rec.run = response[r].run

(* As long as no process crashed and no statement failed, a finished call  *)
(* that executed a run under a key leaves the key bound to some run: two   *)
(* calls that race never both lose their record.                           *)
ExecutedKeyIsRecorded ==
    faults = 0 =>
        \A r \in Requests : pc[r] = "done" /\ Executed(r) /\ Keyed(r) =>
            \E rec \in records : SameKey(rec, request[r])

(* A key that was bound to a run is never bound to another, nor freed.     *)
KeyBindingIsPermanent ==
    [][\A rec \in records : \E new \in records' :
          SameKey(rec, new) /\ rec.run = new.run]_vars

(* Each tenant's key is executed at most once.  Holds when requests come   *)
(* one after the other, nothing fails and no record expires.               *)
OneRunPerKey ==
    \A q, r \in Requests :
        Executed(q) /\ Executed(r) /\ Keyed(q) /\ SameKey(request[q], request[r])
        => q = r

(* At most one run of a tenant is between its insert and its commit.       *)
OneActiveRunPerTenant ==
    \A q, r \in Requests :
        /\ row[q] # "absent" /\ row[r] # "absent"
        /\ request[q].tenant = request[r].tenant
        => q = r

(* No call is answered 500 after its run was committed.                    *)
ExecutedRunIsNotAnError ==
    \A r \in Requests :
        response[r].code = "internal_server_error" => ~Executed(r)

(* A call that is answered 500 after its run was committed met a fault, or *)
(* lost its key: a record binds it to another call's run.  Nothing else    *)
(* parts a run from its answer, whatever interleaves or expires.           *)
ErrorAfterCommitIsExplained ==
    \A r \in Requests :
        response[r].code = "internal_server_error" /\ Executed(r) /\ faults = 0 =>
            \E rec \in records : SameKey(rec, request[r]) /\ rec.run # r

(* The endpoint implements the ledger.                                     *)
Ledger == INSTANCE ReconcileLedger WITH
    executed <- {r \in Requests : Executed(r)},
    bound <- {[tenant |-> rec.tenant, key |-> rec.key, run |-> rec.run] :
                 rec \in records},
    answer <- response
ImplementsLedger == Ledger!LedgerSpec
==============================================================================
