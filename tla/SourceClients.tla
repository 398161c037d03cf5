---------------------------- MODULE SourceClients ----------------------------
(***************************************************************************)
(* The two fetches of ReconciliationService.reconcile, attempt by attempt: *)
(* the retry loop of ServiceTitanClient, then the retry loop and the OAuth *)
(* token of QuickBooksClient.  Each reconcile call makes clients of its    *)
(* own, so nothing here is shared between calls.                           *)
(*                                                                         *)
(* One action is one answer of a remote system, with the sleep that may    *)
(* follow it.  ReconcileEndpoint has one step where this module has a      *)
(* whole loop: StepsOfEndpoint relates the two.                            *)
(*                                                                         *)
(* A definition F_X, beside a definition F, is F with the fault X.         *)
(***************************************************************************)
EXTENDS Naturals, FiniteSets

CONSTANTS MaxRetries \* http_max_retries

ASSUME RetriesAssumption == MaxRetries \in Nat

VARIABLES
    stage,        \* the fetch that runs, or how the fetching ended
    step,         \* "token": waits for the token endpoint; "send": for the API
    attempt,      \* attempt of the fetch's loop
    query,        \* the next request still carries the date range
    token,        \* _access_token; 0 for None
    issued,       \* number of tokens the token endpoint has issued
    rejected,     \* the credentials an API answered 401 or 403 to
    sent,         \* the requests sent to the APIs
    waited,       \* units of backoff slept in this fetch
    sourceErrors, \* the sources noted as failed
    answer        \* the error the call ends with, if it does

vars == <<stage, step, attempt, query, token, issued, rejected, sent, waited,
          sourceErrors, answer>>

Sources == {"servicetitan", "quickbooks"}
NoToken == 0
ApiKey == <<"api_key", 0>>
Bearer(t) == <<"token", t>>
Credentials == {"api_key", "token"} \X Nat

(* waited is bounded by BackoffIsBounded.                                  *)
TypeOK ==
    /\ stage \in Sources \cup {"match", "done"}
    /\ step \in {"token", "send"}
    /\ attempt \in 0..MaxRetries
    /\ query \in BOOLEAN
    /\ token \in Nat
    /\ issued \in Nat
    /\ rejected \in SUBSET Credentials
    /\ sent \in SUBSET [source : Sources, query : BOOLEAN, credential : Credentials]
    /\ sourceErrors \in SUBSET Sources
    /\ answer \in {"none", "unprocessable", "internal_server_error"}

Init ==
    /\ stage = "servicetitan"
    /\ step = "send"
    /\ attempt = 0
    /\ query = TRUE
    /\ token = NoToken
    /\ issued = 0
    /\ rejected = {}
    /\ sent = {}
    /\ waited = 0
    /\ sourceErrors = {}
    /\ answer = "none"

-----------------------------------------------------------------------------
(* How a fetch goes on.                                                    *)

Credential == IF stage = "servicetitan" THEN ApiKey ELSE Bearer(token)
FirstStep(source, tok) ==
    IF source = "quickbooks" /\ tok = NoToken THEN "token" ELSE "send"

(* What the next attempt's request will carry.  QuickBooksClient pops      *)
(* params out of kwargs inside its loop, so only the first request has the *)
(* query; ServiceTitanClient leaves kwargs alone.                          *)
QueryLeft_AlwaysPopped == FALSE
QueryLeft == IF stage = "quickbooks" THEN FALSE ELSE query

Retry_OneMore(pause, tok) ==
    /\ attempt <= MaxRetries
    /\ attempt' = attempt + 1
    /\ waited' = waited + pause
    /\ token' = tok
    /\ step' = FirstStep(stage, tok)
    /\ query' = QueryLeft
    /\ UNCHANGED <<stage, sourceErrors, answer>>
Retry(pause, tok) ==
    /\ attempt < MaxRetries
    /\ attempt' = attempt + 1
    /\ waited' = waited + pause
    /\ token' = tok
    /\ step' = FirstStep(stage, tok)
    /\ query' = QueryLeft
    /\ UNCHANGED <<stage, sourceErrors, answer>>

(* A fetch returns, or raises an error reconcile notes, and the next one   *)
(* begins with a client and keyword arguments of its own.                  *)
FetchEnds_BlamesServiceTitan(failed) ==
    /\ stage' = IF stage = "servicetitan" THEN "quickbooks" ELSE "match"
    /\ sourceErrors' = IF failed THEN sourceErrors \cup {"servicetitan"} ELSE sourceErrors
    /\ step' = FirstStep(stage', NoToken)
    /\ attempt' = 0
    /\ query' = TRUE
    /\ waited' = 0
    /\ UNCHANGED <<token, answer>>
FetchEnds_StartsOver(failed) ==
    /\ stage' = IF stage = "quickbooks" THEN "match"
                ELSE IF failed THEN stage ELSE "quickbooks"
    /\ sourceErrors' = IF failed THEN sourceErrors \cup {stage} ELSE sourceErrors
    /\ step' = FirstStep(stage', NoToken)
    /\ attempt' = 0
    /\ query' = TRUE
    /\ waited' = 0
    /\ UNCHANGED <<token, answer>>
FetchEnds(failed) ==
    /\ stage' = IF stage = "servicetitan" THEN "quickbooks" ELSE "match"
    /\ sourceErrors' = IF failed THEN sourceErrors \cup {stage} ELSE sourceErrors
    /\ step' = FirstStep(stage', NoToken)
    /\ attempt' = 0
    /\ query' = TRUE
    /\ waited' = 0
    /\ UNCHANGED <<token, answer>>

(* An exception leaves reconcile.                                          *)
CallEnds(error) ==
    /\ stage' = "done"
    /\ answer' = error
    /\ sourceErrors' = {}
    /\ UNCHANGED <<step, attempt, query, waited>>

-----------------------------------------------------------------------------
(* The token endpoint: QuickBooksClient._get_access_token.                 *)

Refreshing == stage = "quickbooks" /\ step = "token"

TokenIssued ==
    /\ Refreshing
    /\ issued' = issued + 1
    /\ token' = issued + 1
    /\ step' = "send"
    /\ UNCHANGED <<stage, attempt, query, rejected, sent, waited, sourceErrors, answer>>

(* An error status, no token in the answer, a timeout or a lost connection *)
(* are all QuickBooksAuthError, never retried; a 200 that is no JSON       *)
(* escapes.                                                                *)
TokenDenied ==
    /\ Refreshing
    /\ CallEnds("unprocessable") \/ CallEnds("internal_server_error")
    /\ UNCHANGED <<token, issued, rejected, sent>>

-----------------------------------------------------------------------------
(* The APIs: the two _request_with_retry.                                  *)

(* 2 ** n, as a function of its own: the provers know nothing of ^.        *)
PowerOf2[n \in Nat] == IF n = 0 THEN 1 ELSE 2 * PowerOf2[n - 1]
Backoff_Doubled == 2 * PowerOf2[attempt]
Backoff == PowerOf2[attempt]

Sends ==
    /\ stage \in Sources
    /\ step = "send"
    /\ sent' = sent \cup {[source |-> stage, query |-> query, credential |-> Credential]}
    /\ UNCHANGED issued

Succeeds ==
    /\ Sends
    /\ FetchEnds(FALSE)
    /\ UNCHANGED rejected

(* 429, 5xx, a timeout or a lost connection.                               *)
FailsForNow_DropsToken ==
    /\ Sends
    /\ \/ Retry(Backoff, NoToken)
       \/ attempt = MaxRetries /\ FetchEnds(TRUE)
    /\ UNCHANGED rejected
FailsForNow ==
    /\ Sends
    /\ \/ Retry(Backoff, token)
       \/ attempt = MaxRetries /\ FetchEnds(TRUE)
    /\ UNCHANGED rejected

(* 401.  ServiceTitan gives up; QuickBooks drops its token and tries again *)
(* at once.                                                                *)
Unauthorized_KeepsToken ==
    /\ Sends
    /\ rejected' = rejected \cup {Credential}
    /\ \/ stage = "quickbooks" /\ Retry(0, token)
       \/ /\ stage = "servicetitan" \/ attempt = MaxRetries
          /\ CallEnds("unprocessable")
          /\ UNCHANGED token
Unauthorized ==
    /\ Sends
    /\ rejected' = rejected \cup {Credential}
    /\ \/ stage = "quickbooks" /\ Retry(0, NoToken)
       \/ /\ stage = "servicetitan" \/ attempt = MaxRetries
          /\ CallEnds("unprocessable")
          /\ token' = IF stage = "quickbooks" THEN NoToken ELSE token

Forbidden ==
    /\ Sends
    /\ rejected' = rejected \cup {Credential}
    /\ CallEnds("unprocessable")
    /\ UNCHANGED token

(* Any other status is an HTTPStatusError, which is no RequestError, and a *)
(* body that is no JSON object is a ValueError or AttributeError.          *)
Escapes ==
    /\ Sends
    /\ CallEnds("internal_server_error")
    /\ UNCHANGED <<token, rejected>>

Ended == stage \in {"match", "done"} /\ UNCHANGED vars

Answered ==
    \/ TokenIssued \/ TokenDenied
    \/ Succeeds \/ FailsForNow \/ Unauthorized \/ Forbidden \/ Escapes
Next == Answered \/ Ended

Spec == Init /\ [][Next]_vars

(* Every request has a timeout, and a sleep ends.                          *)
FairSpec == Spec /\ WF_vars(Answered)

-----------------------------------------------------------------------------
(* Properties.                                                             *)

(* No attempt uses a credential that an earlier attempt was refused with:  *)
(* a QuickBooks token is dropped with its 401, a ServiceTitan key is not   *)
(* tried again.                                                            *)
RefusedCredentialsAreNotReused ==
    stage \in Sources /\ step = "send" => Credential \notin rejected

(* A token is refreshed only when the last one was refused: rate limits,   *)
(* server errors and timeouts keep it.                                     *)
TokensAreReused == issued <= Cardinality(rejected) + 1

(* Every request for ServiceTitan invoices carries the date range, retries *)
(* included.                                                               *)
ServiceTitanKeepsTheRange ==
    \A req \in sent : req.source = "servicetitan" => req.query

(* Every request for journal entries carries the query with the range.     *)
QuickBooksKeepsTheQuery ==
    \A req \in sent : req.source = "quickbooks" => req.query

(* A fetch sleeps less than 2^MaxRetries units of backoff in all: it never *)
(* sleeps after its last attempt.                                          *)
BackoffIsBounded == waited < PowerOf2[MaxRetries]

(* Every reconcile call gets through its fetches.                          *)
FetchesEnd == <>(stage \in {"match", "done"})

(* What ReconcileEndpoint does in one step of a fetch is what the loops    *)
(* come to, for whatever the remote systems answer.                        *)
Endpoint == INSTANCE ReconcileEndpoint WITH
    Requests <- {"call"}, Tenants <- {"tenant"}, Keys <- {}, NoKey <- "no key",
    Bodies <- {"body"}, DatedBodies <- {}, NoRun <- "no run",
    FetchOutcomes <- {"ok", "error", "auth", "escape"},
    MaxInFlight <- 1, MaxFaults <- 0, RecordsExpire <- FALSE,
    request <- [r \in {"call"} |->
                  [tenant |-> "tenant", key |-> "no key", body |-> "body"]],
    pc <- [r \in {"call"} |-> stage],
    sourceErrors <- [r \in {"call"} |-> sourceErrors],
    row <- [r \in {"call"} |-> IF stage = "done" THEN "absent" ELSE "in_progress"],
    runs <- [r \in {"call"} |-> "absent"],
    records <- {},
    response <- [r \in {"call"} |->
                   [code |-> answer, run |-> "no run"]],
    faults <- 0
StepsOfEndpoint == [][Endpoint!Next]_(Endpoint!vars)
==============================================================================
