------------------------- MODULE DiscrepancyListing -------------------------
(***************************************************************************)
(* The discrepancies table and the two list endpoints that read it.        *)
(*                                                                         *)
(* A run's rows are flushed together, which stamps them with detected_at,  *)
(* and become visible together when the run commits; runs handled at the   *)
(* same time may commit in another order than they flushed.  A list call   *)
(* runs two or three SELECTs, and each one sees what is committed when it  *)
(* runs.  One tenant's rows are modelled: every query carries tenant_id.   *)
(*                                                                         *)
(* A definition F_X, beside a definition F, is F with the fault X.         *)
(***************************************************************************)
EXTENDS Naturals, FiniteSets, SequencesExt

CONSTANTS
    Runs,
    RowsOf,      \* the severities of the rows of a run, in the order added
    AllRuns,     \* the scope of GET /discrepancies
    AnySeverity, \* no severity filter
    Callers,     \* list calls that may be under way
    MaxLimit     \* the limit is cut to it, 200 in the code

ASSUME ListingAssumption ==
    /\ IsFiniteSet(Runs)
    /\ RowsOf \in [Runs -> Seq({"error", "warning"})]
    /\ AllRuns \notin Runs
    /\ AnySeverity \notin {"error", "warning"}
    /\ MaxLimit \in Nat \ {0}

VARIABLES
    status,     \* a run's transaction
    detectedAt, \* when a run's rows were stamped; 0 before
    call        \* the list calls

listingVars == <<status, detectedAt, call>>

Rows == UNION {{r} \X DOMAIN RowsOf[r] : r \in Runs}
Severity(row) == RowsOf[row[1]][row[2]]
Queries == [scope : Runs \cup {AllRuns},
            severity : {"error", "warning", AnySeverity},
            limit : Nat, offset : Nat]
FirstPage(scope, severity, limit) ==
    [scope |-> scope, severity |-> severity, limit |-> limit, offset |-> 0]

NoCall == [phase |-> "idle"]

ListingTypeOK ==
    /\ status \in [Runs -> {"new", "flushed", "committed", "rolled_back"}]
    /\ detectedAt \in [Runs -> 0..Cardinality(Runs)]
    /\ \A c \in Callers : call[c] # NoCall =>
        /\ call[c].phase \in {"find", "count", "page", "answered", "not_found"}
        /\ call[c].query \in Queries
        /\ call[c].total \in Nat
        /\ call[c].present \in Nat
        /\ call[c].items \in Seq(Rows)

ListingInit ==
    /\ status = [r \in Runs |-> "new"]
    /\ detectedAt = [r \in Runs |-> 0]
    /\ call = [c \in Callers |-> NoCall]

-----------------------------------------------------------------------------
(* What one SELECT sees.                                                   *)

Visible_Flushed == {row \in Rows : status[row[1]] \in {"flushed", "committed"}}
Visible == {row \in Rows : status[row[1]] = "committed"}

Matching_EveryRun(q) ==
    {row \in Visible : q.severity \in {AnySeverity, Severity(row)}}
Matching(q) ==
    {row \in Visible : /\ q.scope \in {AllRuns, row[1]}
                       /\ q.severity \in {AnySeverity, Severity(row)}}

(* detected_at is read from the clock for each row, so no two are equal.   *)
DetectedAfter(x, y) ==
    \/ detectedAt[x[1]] > detectedAt[y[1]]
    \/ x[1] = y[1] /\ x[2] > y[2]

Smaller(m, n) == IF m < n THEN m ELSE n

(* ORDER BY detected_at DESC: the i-th row is the one with i - 1 newer.    *)
Newer(row, rows) == {other \in rows : DetectedAfter(other, row)}
NewestFirst(rows) ==
    [i \in 1..Cardinality(rows) |->
        CHOOSE row \in rows : Cardinality(Newer(row, rows)) = i - 1]

(* LIMIT and OFFSET.                                                       *)
Page_FromZero(q) ==
    LET sorted == NewestFirst(Matching(q))
        start  == IF q.offset = 0 THEN 0 ELSE q.offset - 1
    IN  SubSeq(sorted, start + 1,
               Smaller(start + Smaller(q.limit, MaxLimit), Len(sorted)))
Page(q) ==
    LET sorted == NewestFirst(Matching(q))
    IN  SubSeq(sorted, q.offset + 1,
               Smaller(q.offset + Smaller(q.limit, MaxLimit), Len(sorted)))

(* The response's page.has_more: the limit is the caller's own.            *)
HasMore_OffByOne(c) ==
    call[c].query.offset + call[c].query.limit + 1 < call[c].total
HasMore(c) == call[c].query.offset + call[c].query.limit < call[c].total

-----------------------------------------------------------------------------
(* The reconcile calls, as far as the table is concerned.                  *)

Flush(r) ==
    /\ status[r] = "new"
    /\ status' = [status EXCEPT ![r] = "flushed"]
    /\ detectedAt' = [detectedAt EXCEPT
           ![r] = 1 + Cardinality({s \in Runs : detectedAt[s] > 0})]
    /\ UNCHANGED call

Commit(r) ==
    /\ status[r] = "flushed"
    /\ status' = [status EXCEPT ![r] = "committed"]
    /\ UNCHANGED <<detectedAt, call>>

Rollback(r) ==
    /\ status[r] = "flushed"
    /\ status' = [status EXCEPT ![r] = "rolled_back"]
    /\ UNCHANGED <<detectedAt, call>>

TableStep == \E r \in Runs : Flush(r) \/ Commit(r) \/ Rollback(r)

-----------------------------------------------------------------------------
(* A list call.  present notes how many rows there are when the page is    *)
(* selected: as many as were counted, or more if a commit came between.    *)

Called(c, q) ==
    call' = [call EXCEPT ![c] =
        [phase |-> IF q.scope = AllRuns THEN "count" ELSE "find",
         query |-> q, total |-> 0, items |-> <<>>, present |-> 0]]

FindRun(c) ==
    /\ call[c].phase = "find"
    /\ call' = [call EXCEPT ![c].phase =
           IF status[call[c].query.scope] = "committed" THEN "count" ELSE "not_found"]
    /\ UNCHANGED <<status, detectedAt>>

CountRows(c) ==
    /\ call[c].phase = "count"
    /\ call' = [call EXCEPT ![c].phase = "page",
                            ![c].total = Cardinality(Matching(call[c].query))]
    /\ UNCHANGED <<status, detectedAt>>

SelectPage(c) ==
    /\ call[c].phase = "page"
    /\ call' = [call EXCEPT
           ![c].phase = "answered",
           ![c].items = Page(call[c].query),
           ![c].present = Cardinality(Matching(call[c].query))]
    /\ UNCHANGED <<status, detectedAt>>

CallStep == \E c \in Callers : FindRun(c) \/ CountRows(c) \/ SelectPage(c)
=============================================================================
