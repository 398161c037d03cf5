--------------------------- MODULE ReconcileLedger ---------------------------
(***************************************************************************)
(* What POST /accounting/reconcile promises, with no steps, transactions   *)
(* or tables: a ledger of executed runs, of the runs that Idempotency-Keys *)
(* are bound to, and of the callers' answers.  A key is bound once and for *)
(* good; a caller is told of a run only after it is in the ledger, a keyed *)
(* caller only of the run its key is bound to; a refused call has no run.  *)
(*                                                                         *)
(* It does not promise that a key is executed once: ReconcileEndpoint      *)
(* implements this much and no more.                                       *)
(***************************************************************************)
CONSTANTS Requests, Tenants, Keys, NoKey, Bodies, NoRun

VARIABLES
    request,  \* the tenant, key and body of each call
    executed, \* the requests whose run is durable
    bound,    \* the run each used key of a tenant is bound to
    answer    \* what each caller was told

ledgerVars == <<request, executed, bound, answer>>

None == [code |-> "none", run |-> NoRun]
Unanswered == {r \in Requests : answer[r] = None}
IsKeyed(r) == request[r].key # NoKey
KeyOf(r) == [tenant |-> request[r].tenant, key |-> request[r].key]
Binding(r, q) == [tenant |-> request[r].tenant, key |-> request[r].key, run |-> q]
BoundKeys == {[tenant |-> b.tenant, key |-> b.key] : b \in bound}

Tell(r, code, run) ==
    answer' = [answer EXCEPT ![r] = [code |-> code, run |-> run]]

LedgerInit ==
    /\ request \in [Requests ->
          [tenant : Tenants, key : Keys \cup {NoKey}, body : Bodies]]
    /\ executed = {}
    /\ bound = {}
    /\ answer = [r \in Requests |-> None]

Execute(r) ==
    /\ r \in Unanswered \ executed
    /\ executed' = executed \cup {r}
    /\ UNCHANGED <<request, bound, answer>>

Bind(r) ==
    /\ r \in Unanswered \cap executed
    /\ IsKeyed(r)
    /\ KeyOf(r) \notin BoundKeys
    /\ bound' = bound \cup {Binding(r, r)}
    /\ UNCHANGED <<request, executed, answer>>

Accept(r) ==
    /\ r \in Unanswered \cap executed
    /\ ~IsKeyed(r)
    /\ Tell(r, "accepted", r)
    /\ UNCHANGED <<request, executed, bound>>

(* The caller is told of the run its key is bound to: its own, or, if it   *)
(* executed none, the one an identical call executed.                      *)
Recall(r, q) ==
    /\ r \in Unanswered
    /\ IsKeyed(r)
    /\ Binding(r, q) \in bound
    /\ q \in executed
    /\ request[q].body = request[r].body
    /\ q = r \/ r \notin executed
    /\ Tell(r, "accepted", q)
    /\ UNCHANGED <<request, executed, bound>>

Refuse(r, code) ==
    /\ r \in Unanswered \ executed
    /\ Tell(r, code, NoRun)
    /\ UNCHANGED <<request, executed, bound>>

(* Some callers, one for an error and many for a crash, learn nothing.     *)
BreakDown(S, code) ==
    /\ S # {}
    /\ S \subseteq Unanswered
    /\ answer' = [r \in Requests |->
                    IF r \in S THEN [code |-> code, run |-> NoRun]
                    ELSE answer[r]]
    /\ UNCHANGED <<request, executed, bound>>

LedgerNext ==
    \/ \E r \in Requests : Execute(r) \/ Bind(r) \/ Accept(r)
    \/ \E r, q \in Requests : Recall(r, q)
    \/ \E r \in Requests,
          code \in {"mismatch", "run_in_progress", "unprocessable"} :
             Refuse(r, code)
    \/ \E S \in SUBSET Requests, code \in {"internal_server_error", "lost"} :
             BreakDown(S, code)

LedgerSpec == LedgerInit /\ [][LedgerNext]_ledgerVars
==============================================================================
