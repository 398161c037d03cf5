# Verification of exotica-service-platform

The platform reconciles the invoices of a tenant: it fetches them from
ServiceTitan and QuickBooks, matches them, stores what differs as
discrepancies, and serves the discrepancies to a dashboard.  This directory
holds TLA+ models of that program, the TLC runs that check them, and theorems
about them that TLAPS checks.

Paths below are those of the repository, under `src/`.

## The system

| Component | State | Operations |
|---|---|---|
| Reconcile endpoint (`modules/reconciliation/routes.py`, `service.py`, `repositories.py`, `models.py`) | `reconciliation_runs`, `st_invoices`, `qb_invoices`, `discrepancies` | `trigger_reconciliation`, `reconcile`, `get_active_run` |
| Idempotency store (`core/idempotency.py`, `alembic/versions/0001_core_tables.py`) | `idempotency_records`, a unique index on (tenant, endpoint, key), `expires_at` | `hash_request_body`, `lookup`, `save` |
| Database sessions (`core/database.py`) | one session and one engine for each request | `get_db_session`: commit at the end, rollback on an exception |
| Invoice matching (`service.py`) | the sets of matched ids, the rows added | `_perform_matching`, the figures of the run |
| Source clients (`integrations/*/client.py`) | the attempt, the QuickBooks access token | `_request_with_retry`, `_get_access_token`, `fetch_invoices`, `fetch_journal_entries` |
| Discrepancy listing (`routes.py`, `repositories.py`) | none; reads the table | the two list endpoints, the two GETs of one row |
| Dashboard and API client (`frontend/`) | the rows loaded, the rows shown, the page, the filter boxes | `loadData`, `applyFilters`, `nextPage`, `prevPage`, `triggerReconciliation` |
| Error answers (`app.py`, `core/errors.py`) | none | one handler for each kind of exception, in the handler's task or outside the middleware |
| Audit log (`core/audit.py`) | `audit_events`, append-only by database rules | `create`, `list`; no route calls them |
| Tenancy, authentication (`core/tenancy.py`, `core/auth.py`) | none | the scoped base query, the token check |
| Request context, logging (`core/request_context.py`, `core/logging.py`) | the context variables of each task | bind, clear, add them to a log line |
| Settings, secrets, health, migrations, scripts, deployment | read once, or outside the service | |

**How they interact.**  A dashboard or client calls `POST
/accounting/reconcile`.  The handler looks the Idempotency-Key up, asks for an
active run, inserts a run row (flushed, not committed), calls the ServiceTitan
client and then the QuickBooks client, stores the invoices, matches them, stores
the discrepancies and commits; a keyed call then inserts its idempotency record
in a second transaction and commits that.  The list endpoints read what has been
committed.  One uvicorn process (`Dockerfile`) runs every handler as a coroutine,
so two handlers interleave at their awaits, and a crash ends all of them.

Before the handler, `RequestContextMiddleware` binds a request id and starts the
task in which the dependencies check the token and the handler runs.  A
`PlatformError` becomes an answer in that task, any other exception one outside
the middleware.

**What is hard here.**

- *Concurrency.*  Every check is a statement of its own, and what it saw may be
  stale at the next await.  The active-run check sees committed rows only.  The
  unique index is met after the run has been committed.
- *Failure.*  Two transactions for one call: a crash between them leaves a run
  with no record.  Any exception rolls back what is not committed.
- *Time.*  Records expire but are never deleted.  Fetches are retried, with a
  token that may be refused at any attempt.
- *Context.*  A request is served by two tasks, each with its own context
  variables, and the last exception handler runs after they were cleared.
- *Order.*  Matching is greedy over lists in no stated order.  Runs may commit in
  another order than their rows were stamped.  Responses to the dashboard may
  overtake each other.

`PROJECT.json` lists each hazard at its line, with the properties about it.

## The modules

| Module | Models | Extends or uses |
|---|---|---|
| `ReconcileLedger` | what the endpoint promises, with no transactions or steps | |
| `ReconcileEndpoint` | the endpoint, await by await | refines `ReconcileLedger` |
| `RequestPipeline` | the middleware, the dependencies, the context variables and the exception handlers around the endpoint | extends `ReconcileEndpoint` |
| `MatchingPromise` | what the discrepancies of a run say of its lists, with no loops | |
| `InvoiceMatching` | `_perform_matching` and the run's figures, row by row | refines `MatchingPromise` |
| `FetchedMatching` | what the fetches deliver of the source systems, and the run's status | extends `InvoiceMatching` |
| `SourceClients` | the two fetches, attempt by attempt | refines the fetch steps of `ReconcileEndpoint` |
| `DiscrepancyListing` | the discrepancies table and the list endpoints, SELECT by SELECT | |
| `ListingClients` | a client that walks pages, and the dashboard | extends `DiscrepancyListing` |
| `AuditLog` | the audit repository, its transactions, its list and count, and the rules on its table | |
| `MCReconcileEndpoint`, `MCInvoiceMatching`, `MCListingClients`, `MCAuditLog` | the small instances TLC checks | |
| `*Proofs` | the theorems | `TLAPS` |

A definition `F_X` beside a definition `F` is `F` with a fault `X` that such code
could have.  Replacing `F` by it makes the property fail that is there to catch
it; `PROJECT.json` lists the pairs under `mutants`.

### ReconcileEndpoint

`pc[r]` is where the handler of call `r` stands:

| `pc` | Code | Actions that leave it |
|---|---|---|
| `idle` | the client has not called | `Receive` |
| `lookup` | `routes.py:176-198` | `HashFails`, `LookupMisses`, `KeyReused`, `Replay` |
| `active` | `routes.py:202-208` | `CheckActiveRun` |
| `insert` | `service.py:77-85` | `InsertRun` |
| `servicetitan`, `quickbooks` | `service.py:97-133` | `FetchServiceTitan`, `FetchQuickBooks` |
| `match` | `service.py:135-190` | `PersistAndMatch`, `PersistFails` |
| `commit_run` | `service.py:191` | `CommitRun` |
| `save_record` | `routes.py:232` | `SaveRecord`, `SaveConflicts` |
| `commit_record` | `routes.py:241` | `CommitRecord` |
| `answer` | `routes.py:243` and the end of `get_db_session` | `Answer` |

Besides these, `DatabaseFails` fails a statement or a commit, `Crash` stops the
process with every call it handles, and `Expire` lets a record's 24 hours pass.
`row[r]` is the run row in a handler's open transaction, `runs[r]` the committed
one: Postgres runs at READ COMMITTED, so `ActiveRuns` reads `runs`.  `IndexLocked`
is the wait of an insert for another transaction's uncommitted row of the same
key; `KeyTaken` is the refusal by a committed one, expired or not.

A run's id is the call that made it.  A body stands for its canonical JSON; the
bodies that carry a date make `json.dumps` fail when the call has a key
(`HashFails`).  The ids, times and figures in an answer are left out: an answer
is its code and the run it names.

### RequestPipeline

`stage[r]` is where call `r` is, and the endpoint's variables are what its handler
does there:

| `stage` | Code | Actions that leave it |
|---|---|---|
| `client` | the client has not called | `Arrive` |
| `dependencies` | `auth.py:59-81`, `tenancy.py:98-121` | `TokenRefused`, `TenantRefused`, `RequestInvalid`, `Handle` |
| `handler` | `routes.py:173-243` | `HandlerWorks`, `StatementFails` |
| `returning` | `request_context.py:44-49` | `Respond` |
| `unwinding` | `request_context.py:47-49`, then `app.py:82-98` | `Unwind` |

`context` has the two context variables of each task.  The middleware's task binds
the call's id; the handler's task starts with a copy, in which
`trigger_reconciliation` binds the tenant's id as the request id.  `Reaction` is what
a step of the handler means outside of it: `HandlerWorks` and `StatementFails` are
steps of `ReconcileEndpoint` with their reaction.  `reply` is what a caller can quote,
the `request_id` of a body and the `X-Request-Id` header; `log` has for each line
whose call it was and what `_add_context_vars` put into it.  A call's own id, from
its header or fresh, is the call itself.  `ProcessStops` ends every call, those
outside the handler too.  A client that closes its connection is not modelled.

### InvoiceMatching, MatchingPromise and FetchedMatching

One action is one iteration of a loop.  `Init` takes any pair of lists from
`StLists` and `QbLists`, in any order, since the two SELECTs have no ORDER BY.  A
customer stands for a name up to case.  An amount is an integer in the smallest
unit, so that `Tolerance` and `WarningBelow` stand for `Decimal("0.01")` and
`Decimal("100")`; credits have negative amounts.  `health_score` is kept as the
fraction `matched / of`.

`MatchingPromise` says in one step what the three loops come to: an inextensible
pairing of invoices that agree, and of what it leaves an inextensible pairing of
invoices of one customer; all others are missing on the other side.  The outcome of
`InvoiceMatching` is there once its loops are over.

`FetchedMatching` has the lists of the source systems, `stRemote` and `qbRemote`,
beside the lists of the run: a failed fetch delivers nothing, and ServiceTitan one
page of at most `PageLimit` invoices, 1000 in the code.  `failed` is `source_errors`;
`StoreFigures` stores the figures with the status.

### SourceClients

One action is one answer of a remote system with the sleep after it.  `query`
says whether the next request will still carry the date range: the QuickBooks
loop pops `params` out of `kwargs` on each attempt, the ServiceTitan loop does
not.  `token` is `_access_token`, `rejected` the credentials an API refused.
`waited` counts backoff in units of `http_retry_backoff_factor`.

### DiscrepancyListing and ListingClients

A run's rows are stamped when they are flushed and become visible when the run
commits.  A list call is `FindRun` (for the list of one run), `CountRows`, then
`SelectPage`, each on what is committed at that moment.  `HasMore` uses the
caller's limit, `Page` the limit cut to `MaxLimit`, as the code does.  The walking
client is external: `api_client.ts` offers `limit` and `offset`, and nothing in
the repository loops over `has_more`.  In the dashboard, `all`, `shown`, `page` and
`box` are `allDiscrepancies`, `filteredDiscrepancies`, `currentPage` and the
severity box (the other two boxes work alike); several loads may be under way,
since the connect button and the timer after a reconciliation both start one.

### AuditLog

A session flushes events and ends with a commit or a rollback, like the sessions of
`get_db_session`.  `occurred_at` is chosen freely, as callers may give it.  Raw UPDATE
and DELETE are steps that change nothing: that is what `DO INSTEAD NOTHING` comes
to, with no error and no row reported.  `tests/core/test_audit_append_only.py:40`
says "The DB-level rule should raise an exception."; it raises none, and the test
skips when none is raised.  `Total` is what the count query returns: the subquery is
joined with the table itself, so the total is the number of matching events times
the number of all events.  `Pages` leaves the order of events of one time open.  The
client that walks a list is external, as no route calls `list`.

## The runs

| Run | Question | Instance |
|---|---|---|
| `endpoint_concurrent` | Are answers, runs and records consistent, are errors after a commit explained, and does the endpoint implement the ledger, under interleaving, failure and expiry? | 3 calls, 2 tenants, 1 key or none, 2 bodies and one that cannot be hashed, fetches that succeed, are refused or deliver what cannot be stored, 2 in flight, 1 fault |
| `request_pipeline` | Is every call answered, those that wait on the index too, does a run's status tell which fetches failed, and do ids stay with their call? | 2 calls of one tenant and key, every outcome, 1 fault, fairness |
| `matching` | Is matching complete, is each invoice accounted for once, and is a succeeded run true of the source systems? | up to 3 ServiceTitan invoices, 2 on a page, up to 3 QuickBooks invoices, 2 customers, amounts -1, 0, 1, 3, tolerance 1, either fetch failing |
| `source_clients` | Are tokens, queries and waits right on every path through the loops, and do they come to the endpoint's fetch steps? | 3 retries, the default of `core/config.py` |
| `listing_clients` | What may a walk miss or repeat, and what may the dashboard show? | 3 runs of 4 rows in all, pages of 2, limits 1 to 3, 2 overlapping loads |
| `audit_log` | Is the log append-only, and what may a walk of it miss? | 3 events, 2 sessions, 2 tenants, 2 actions, 3 times, pages of 1 or 2 |
| `endpoint_active_runs`, `endpoint_double_execution`, `endpoint_expired_key`, `discrepancy_count`, `quickbooks_query`, `pipeline_tracing` | What do the texts of the repository say that the code does not do? | the smallest instance that shows each |

**Why the bounds are enough.**  A record involves the call that makes it, a call
that meets it, and a third call that replays or repeats after both; two of them at
once give every race for the index, and one fault may fall at any await.  A
fault more would end more calls early.  Two tenants show what crosses between
tenants.  Calls, tenants and the bodies that can be hashed are alike, so that this run
takes them up to permutation.  In matching, two invoices on one side and three on the other are enough
for a chain in which an early invoice takes the partner of a later one, with one
left over, and the amounts have a pair apart by exactly the tolerance and pairs
apart by more, on both sides of the warning limit.  One invoice past the
page is enough for a partner that is never fetched; it is the same invoice in all
lists, as it only matters what it would have matched.  Two calls show every
crossing of contexts, each with its two tasks.  Three audit events give a page with
one before and one after it, and ties on either boundary; sessions, tenants and
actions are symmetric.  Three
runs are enough for rows to commit before, between and after the pages of a walk
and out of the order they were stamped in.  The limit 3 is over the cut, the
limits 1 and 2 are not.

**Fairness.**  `request_pipeline` assumes weak fairness of each `Serve(r)`: the
event loop runs a task that can go on, every request to a source system has
a timeout and their number is bounded, and Postgres wakes an insert when the
holder of the key ends.  Nothing makes a client call, so `Arrive` is not fair, nor
is a failing statement, an expiry or a crash.
`source_clients` assumes weak fairness of `Answered`: every request has a timeout
and a sleep ends.

**Deadlock** is checked in every run but `listing_clients`, where the clients may
have finished and no run be left.  In the others, the step that means "all done"
(`AllServed`, `Quiet`, `Finished`, `Ended`) is enabled only then.

### What the runs show

They hold: a committed run is never `in_progress`; the answers of all calls with
one key agree, whatever interleaves, fails or expires; a refused call leaves
nothing; a key bound to a run stays bound to it; a keyed call that is answered
has its record; unless something failed, a 500 after a commit means that another
call's run holds the key; every call that arrives is answered; no log line, body or
header of a call carries the id of another; a run is committed as succeeded exactly
if both fetches of its own call succeeded; greedy matching misses no
pair and finds at least half of the best matching, and all of it where agreement is
transitive; an invoice is explained exactly once; the rows are those of inextensible
pairings; full health means no rows and no rows full health; what a
succeeded run calls missing in QuickBooks has no unexplained counterpart there, and
what it calls missing in ServiceTitan is wrong about no more customers than invoices
were past the page; a walk of a list or of the audit log, and a reload of the
dashboard, lose no more rows than the bounds below say; committed audit events
are never changed or removed; no credential is used after it was refused; a
list of one run is exact whatever other runs do; the dashboard never shows rows
of two loads or a page past the end.

They do not hold, and `PROJECT.json` quotes the text each one contradicts:

1. *One active run per tenant.*  The `in_progress` row is only flushed and is
   committed terminal, so no other call ever sees it.
2. *One execution per key.*  Two concurrent calls both execute; the second is
   answered 500 when it saves its record.  A crash, or a failing insert, between the
   two commits does the same to calls in turn: the run is committed, its key is
   free, and the client's retry executes again, though the comment at `routes.py:229`
   says "Save idempotency record (in same transaction)".
3. *A key can be used again after 24 hours.*  The expired row still holds the
   index: the call commits a run and is answered 500.
4. *discrepancy_count is the number of discrepancies.*  A mismatch counts twice.
5. *A retry repeats the request.*  A retried QuickBooks request has no query.
6. *A call can be traced*, in three texts.  Each of them is a formula of its own, and
   `CallsCanBeTraced` is their disjunction, so that the state TLC finds refutes all
   three at once:
   - the middleware "Echoes request_id on the response" (`request_context.py:20`): not
     on a 500, which is made outside of it (`RequestIdIsEchoed`);
   - "Request context (tenant_id, request_id) is bound to each log entry"
     (`logging.py:5`): no code binds a tenant, and `_add_context_vars` puts None in its
     place (`TenantIsOnEveryLine`);
   - a body's `request_id` "Correlates with server logs" (`openapi.yaml:923`): after
     `routes.py:173` it is the tenant's id, on the log lines of all its calls
     (`BodyIdFindsItsLines`).

Where the code does lose something, a property says how much it may be, and the
hazard in `PROJECT.json` says that it is lost:

- `SucceededRunTellsTheTruth`.  ServiceTitan's list is cut to one page.  The
  customers a succeeded run wrongly calls missing there (`Misreported`) are no more
  than the invoices that were not fetched (`NotFetched`); none if the list fits, and
  then a full score means that the systems agree.
- `WalkMissesNothing`.  Count and page are two SELECTs, and `has_more` compares with
  the count.  With a limit the server grants, a walk misses no more rows than were
  committed between the two SELECTs of its last call: commits at any other time lose
  it nothing.  With a limit over the server's cut it skips rows as well; for any
  limit, it misses no more than its last call found and it did not get.
- `AuditWalkMissesNothing`.  The same bound, for the events whose time no other listed
  event has (`Untied`): events of one time come in any order in each page.
- `ReloadLosesFew`.  The dashboard asks for 1000 rows and gets 200, though
  `frontend/INTEGRATION.md:40` says "The dashboard will load all discrepancies from the
  API"; and an older answer may take the place of a newer one, though
  `DASHBOARD_SETUP.md:87` says "Dashboard refreshes after reconciliation completes".
  Of the newest rows that fit the server's page, a load that was not overtaken takes
  none away, and one that was overtaken no more than were committed since it was read.
  What lies past the page is not shown, whatever the dashboard asks for.

## The proofs

All theorems are of the form `Spec => []P`, `Spec => [][A]_vars` or
`Spec => Abstract`, for every value of the constants allowed by the module's
named ASSUME.  TLC evaluates these assumptions in the runs.  Three theorems have
conditions on constants besides: `OneRunPerKeyInTurn`, `ReloadKeepsRows` and
`ExactMatchingIsBest`, for the reasons given with them.  Of the first, the run
`endpoint_double_execution` shows that it fails without the conditions; the instance of
`listing_clients` meets that of the second; the third says what the code would do
without its tolerance.

**Endpoint** (`ReconcileEndpointProofs`).  The invariants are proved in layers,
each using those below it:

1. `TypeOK /\ SavesAreKeyed`: types, and that only keyed calls get to save a
   record; `TypeOK` alone is not inductive, since the record of a call without a
   key would not be a record.
2. `Progress`: what `row`, `runs` and the answer of a call are at each `pc`.  It
   gives `CommittedRunsAreTerminal` and `RefusalsLeaveNothing`.
3. `Index`: one record for each key, and a call about to commit its record is
   alone with its key.  This is the unique index and its lock.  It gives
   `KeyBindingIsPermanent`, since records only grow up to expiry.
4. `RecordsNameTheirRun`, then `AnsweringIsRecorded` (a keyed call about to answer
   has its record), which with `Index` gives `AcceptedKeyIsRecorded`,
   `KeyedAnswersAgree`, `AnswerNamesItsRun` and `ExecutedKeyIsRecorded`.

5. `WhoBreaks`: without a fault only a refused insert of a record, or a body that
   cannot be hashed, ends a call with a 500.  With the index it gives
   `ErrorAfterCommitIsExplained`.
6. `InTurn`: calls come one after the other, so that a key whose run has ended has
   its record before the next call looks it up.  It gives `OneRunPerKey` when
   `MaxInFlight <= 1`, `MaxFaults = 0` and `RecordsExpire = FALSE`.  These are what the
   code needs: `endpoint_double_execution` has two calls at once and
   `endpoint_expired_key` an expiry, and a crash between the two commits leaves a run
   without a record.  A failing fetch is not a fault and is allowed.
7. `StatusTellsTheErrors`: `Noted` says that nothing is noted for a call that has not begun,
   and that the status of a run about to be committed is the one its `source_errors`
   call for; no other call adds to these or drops them (`ErrorsStay`).

`CommittedRunsAreTerminal` also says that no answer is `run_in_progress`: `ActiveRuns`
reads committed rows, and `Progress` has none that is in progress.

**Pipeline** (`RequestPipelineProofs`).  `PipelineImplementsEndpoint`: each step of the
pipeline is one of the endpoint or changes nothing it sees, so every theorem about
the endpoint holds of the pipeline, and with `EndpointImplementsLedger` the pipeline
implements the ledger (`PipelineImplementsLedger`).  `CorrelationNeverCrosses` is not inductive: it
says nothing of what the contexts hold.  `Correlated` adds, for each stage, the ids
in both contexts and the code of the reply; one lemma says that a step of a call
leaves the contexts of the others alone, as tasks are never shared.
`CallsGoOn` is the half of `EveryCallIsAnswered` that needs no fairness: `StepsLeft`, a
number up to 13 that is 0 exactly when a call is done, falls with every step that
serves the call and rises with none, of this call or another, a fault or an expiry
included.  What is left to TLC is that a call that is not done can be served at last,
the one that waits on the index too: it waits for a call at `commit_record`, which
itself waits for nothing (`IndexLocked`).

**Refinement** (`ReconcileRefinementProofs`).  `EndpointImplementsLedger` maps each
step to one of the ledger's: `CommitRun` to `Execute`, `CommitRecord` to `Bind`,
`Answer` to `Accept` or `Recall`, `Replay` to `Recall`, an exception to `Refuse` or
`BreakDown`, `Crash` to a `BreakDown` of all calls being handled, all others to a
stutter.  It uses the invariants above: that `Bind` finds its key unbound is
`Index`, that `Recall` names an executed run is `RecordsNameTheirRun`.

**Matching** (`InvoiceMatchingProofs`).  `NoMatchMissed` rests on
`VisitedLeftovers`: an invoice the first loop has left unmatched agrees with no
QuickBooks invoice that is still free, and the set of free ones only shrinks.
`MismatchesReal` uses that at the start of the second loop, and
`MissingOneSided` uses `NoneWasFree` (a customer reported missing in QuickBooks
has no free invoice there), which later steps keep.  `FetchedImplementsMatching`
carries all of them over to `FetchedSpec`.

**Matching, counted** (`MatchingAccountsProofs`).  The loops store which invoices are
matched, not to whom.  The invariant `Accounts` therefore says that *there is* a
one-to-one pairing of positions that agree whose ids are those in `matchedSt` and
`matchedQb` and whose size is `matchedCount`; where one would add a variable for the
pairing, each step of the first loop extends the one there is.  With it go which
invoices the rows name, that no two rows name one invoice, and that whatever a loop
has passed is matched or in a row.

- `EveryInvoiceAccountedOnce` and `FiguresFollowTheRows` follow by two lemmas on
  cardinality: an injection makes a set no larger, and two injections onto a part and
  the rest of a set add up to it.  `MismatchesCountTwice` adds the rows up: the
  figure counts unmatched invoices, and a mismatch row is about two of them.
- `MatchesEnough`, at least half: any other pairing maps each of its pairs to an end
  that is matched, since a pair with both ends free was missed; one end is hit at most
  once, so it has at most `2 * matchedCount` pairs.
- `MatchesEnough`, all there are (`AllMatchedThatCanBe`): if invoices that agree with a
  common one agree with the same ones (`ChainsAgree`), invoices fall into groups, and
  of each group the first loop matches one whole side.  Each pair of another pairing
  is sent to the match of its invoice on that side, and no two pairs to one match.
- `ExactMatchingIsBest`: with a tolerance of zero agreement is equality of customer and
  amount, so that `ChainsAgree` holds of all lists.  Only the tolerance lets the order
  of the rows cost a run a match.
- `MatchingImplementsPromise`: the step that ends the third loop is the one step of
  the promise, with that pairing and the pairing of the mismatch rows as witnesses;
  `NoMissedMatch` and `NoneWasFree` say that neither can be extended.
- `SucceededRunTellsTheTruth`: a run is stored as succeeded only if both lists were
  fetched, QuickBooks' whole and ServiceTitan's up to its page.  What holds of the lists
  of the run then holds of the systems', but for the invoices past the page: a customer
  who is wrongly called missing has one of them, a different one for each customer
  (`MisreportedAreFew`).

**Clients** (`SourceClientsProofs`).  `TokenState` says which tokens may have been
refused at each step: only older ones than the token in use.  It gives
`RefusedCredentialsAreNotReused` and `TokensAreReused`.  `BackoffIsBounded` rests on
`SleptLess`: before attempt `n` less than `2^n` units were slept.  The provers know
no powers, so `PowerOf2` is a recursive function; that it doubles is proved from a
least number at which the recursion would fail.  `FetchesAreFinite` is the half of
`FetchesEnd` that needs no fairness: each answer lowers `RequestsLeft`, which counts for
each attempt one request to ServiceTitan and two to QuickBooks, the token's and the
query's.  `ClientsImplementFetches`
maps the last attempt of a fetch to a fetch step of the endpoint and every other
step to a stutter.

**Dashboard** (`ListingClientsProofs`).  `PageInRange` is not inductive: it says
nothing of the earlier pages that `prevPage` goes back to.  `PagesBehind` says that
each of them begins before the end of the rows.  `ReloadLosesFew` needs `LoadInv`: of the
rows that are now on the newest page, an answer on its way has all it read, and one
that is not late all that is shown; a commit only moves rows off that page
(`RowsLeaveThePage`).  The condition of the theorem,
`MaxLimit <= DashboardLimit`, is what the code has: the server cuts at 200
(`routes.py`), the dashboard asks for 1000.  `FilterIsExact` says what `applyFilters`
shows: the n-th row shown is the n-th of those with the severity.  `Filtered` is
written with the number of kept rows before a position (`PlacesOfKept`), as the
provers know nothing of `SelectSeq`.  With it come `ClientsTyped` and
`ShowsWhatWasLoaded`.

**Listing** (the same module).  The *rank* of a row is the number of matching rows
before it in the order of the list.  A page is the rows whose ranks it spans
(`PageRows`), and a commit adds rows and so only raises ranks (`RanksMove`).
`WalkInv` says of the walk, at each of its steps, that

- the offset has passed a row for each one that is taken and each one that was there at
  the start and is missed (`Covers`), and with a limit the server grants it has passed
  no more than are taken (`Filled`), which gives `WalkMissesNothing`;
- what was taken twice is no more than the rows that came since (`Repeating`), which
  gives `RepeatsAreShifts`: each of them moved the others by one place;
- what was taken of one run is the beginning of its ordered rows (`Exact`), which
  gives `RunWalkIsExact`: a run's rows appear at once.

`WalksEnd`: has_more compares the next offset with a count, which is never more than
the rows the table will have (`WithinTable`), so the offset grows with each page and
stays below that: rows that commit meanwhile cannot keep a walk going.

That a list ordered by `Newer` exists and is unique is `SortedRows`: the position of a
row is its rank.

**Audit log** (`AuditLogProofs`).  `TypeCorrect` includes that no two events have one
id, which a step keeps since fewer rows have fewer ids and a new one is in use
nowhere; `AppendOnly` looks at what each step does to the committed rows.
`AuditWalkMissesNothing` is the listing's argument once more: the number of committed
events newer than an untied one that the walk has not seen is at least its offset
(`PageAdvances`, `WriteKeepsWalk`).  The total that the walk stops at is never less
than the number of events (`TotalSuffices`), wrong as it is, so that what is missed has
as many newer events as were counted; there are only as many such events as came after
the count (`FewBehind`).

**Model-checked only.**  The liveness properties `EveryCallIsAnswered` and `FetchesEnd`,
as the provers do not reason about fairness and ENABLED; `CallsGoOn`,
`FetchesAreFinite` and `WalksEnd` bound the steps, and it takes fairness that they are
made.  All other properties of the passing runs are theorems.

## Assumptions and what is left out

- A commit either happens or fails; an answer of the database that is lost after
  the commit took effect is not modelled.
- The models' columns are declared without a time zone and get values with one;
  the models take it that the driver accepts them.
- Discrepancies of one run are stamped with different times.  Two in one
  microsecond would have no stated order.
- The invoices of one side have different ids, as the APIs give them.
- QuickBooks delivers the whole list of a query: no limit is in the code, and what
  the service does without one is not in the repository.
- Not modelled: `create_run`, `fetch_payments` and `fetch_customers` (never called), the text and
  format of answers, how a token is decoded, a client that disconnects, health checks, settings, secrets, scripts
  and deployment.  `PROJECT.json` gives the reason for each.

## Plan

Done: the endpoint with its ledger and the pipeline around it, matching with its
promise and its fetches, the source clients, listing and dashboard, the audit log,
and the theorems above.  What is left, in this order:

1. *Repeated ids.*  Lists in which invoices share the id "".
2. *Responses.*  The conversion of rows to answers, where 0 becomes null.
