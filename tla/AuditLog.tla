------------------------------ MODULE AuditLog ------------------------------
(***************************************************************************)
(* AuditRepository and the table audit_events: create, in transactions     *)
(* that commit or roll back, list with its count, and raw SQL against the  *)
(* rules of the first migration.                                           *)
(*                                                                         *)
(* No route uses the repository yet.  The transactions are those of        *)
(* get_db_session; the client that walks a list by limit, offset and the   *)
(* total is external.  Of an event's columns those are kept that list      *)
(* filters and orders by, and its detail, which raw SQL may want to change.*)
(***************************************************************************)
EXTENDS Integers, FiniteSets

CONSTANTS
    Sessions,
    Tenants,
    Actions,
    AnyAction, \* no filter
    Times,     \* values of occurred_at
    Limits,
    MaxEvents  \* bound: events flushed or committed

ASSUME AuditAssumption ==
    /\ AnyAction \notin Actions
    /\ Times \subseteq Nat
    /\ Limits \subseteq Nat \ {0}
    /\ MaxEvents \in Nat

VARIABLES
    audit_events, \* the committed rows
    added,        \* the rows each session has flushed in its transaction
    walk          \* the client that walks a list

vars == <<audit_events, added, walk>>

Ids == 1..MaxEvents
Events == [id : Ids, tenant_id : Tenants, action : Actions, occurred_at : Times,
           detail : {"as created", "modified"}]
Filters == [tenant_id : Tenants, action : Actions \cup {AnyAction}]
Walks == [at : {"start", "count", "page", "done"}, filter : Filters,
          limit : Limits, offset : Nat, total : Nat, counted : Nat,
          matching : Nat, begun : SUBSET Events, seen : SUBSET Events]
Flushed == UNION {added[s] : s \in Sessions}

IdsAreUnique(rows) == \A a, b \in rows : a.id = b.id => a = b

TypeOK ==
    /\ audit_events \subseteq Events
    /\ added \in [Sessions -> SUBSET Events]
    /\ IdsAreUnique(audit_events \cup Flushed)
    /\ walk \in Walks

Init ==
    /\ audit_events = {}
    /\ added = [s \in Sessions |-> {}]
    /\ walk \in [at : {"start"}, filter : Filters, limit : Limits, offset : {0},
                 total : {0}, counted : {0}, matching : {0}, begun : {{}}, seen : {{}}]

-----------------------------------------------------------------------------
(* Writing.                                                                *)

(* The primary key: here the first id not in use, in the code a UUIDv7.    *)
Unused_Committed == {i \in Ids : \A row \in audit_events : row.id # i}
Unused == {i \in Ids : \A row \in audit_events \cup Flushed : row.id # i}

(* create: occurred_at is the caller's, or the clock's; it may lie before  *)
(* that of events already committed, or be equal to it.                    *)
Create(s) ==
    \E tenant \in Tenants, action \in Actions, time \in Times, id \in Unused :
        /\ \A other \in Unused : id <= other
        /\ added' = [added EXCEPT ![s] = @ \cup
               {[id |-> id, tenant_id |-> tenant, action |-> action,
                 occurred_at |-> time, detail |-> "as created"]}]
        /\ UNCHANGED <<audit_events, walk>>

EndTransaction(s) ==
    /\ added[s] # {}
    /\ added' = [added EXCEPT ![s] = {}]
    /\ UNCHANGED walk
Commit(s) == EndTransaction(s) /\ audit_events' = audit_events \cup added[s]
Rollback(s) == EndTransaction(s) /\ UNCHANGED audit_events

(* Raw SQL on committed events.  The rules rewrite the statement to        *)
(* nothing: it raises no error, reports no row and changes none.           *)
RawUpdate_NoRule ==
    /\ \E row \in audit_events :
          audit_events' = (audit_events \ {row}) \cup {[row EXCEPT !.detail = "modified"]}
    /\ UNCHANGED <<added, walk>>
RawUpdate == audit_events # {} /\ UNCHANGED vars

RawDelete == audit_events # {} /\ UNCHANGED vars

-----------------------------------------------------------------------------
(* Reading.                                                                *)

(* The filters on times and targets work like the one on the action.       *)
Matching(filter) ==
    {row \in audit_events :
        row.tenant_id = filter.tenant_id /\ filter.action \in {AnyAction, row.action}}

(* The count selects the table's id from the subquery: the two are joined  *)
(* without a condition, and each event listed counts once for every row of *)
(* the table, of any tenant.                                               *)
Total_OfPage == LET found == Cardinality(Matching(walk.filter))
                IN  IF found < walk.limit THEN found ELSE walk.limit
Total == Cardinality(Matching(walk.filter)) * Cardinality(audit_events)

(* ORDER BY occurred_at DESC: the newest n rows, where rows of one time    *)
(* may come in any order, and a page after an offset.                      *)
Newest(n, rows) ==
    {newest \in SUBSET rows :
        /\ Cardinality(newest) = IF n < Cardinality(rows) THEN n ELSE Cardinality(rows)
        /\ \A x \in newest, y \in rows \ newest : x.occurred_at >= y.occurred_at}
Pages(rows, limit, offset) ==
    UNION {Newest(limit, rows \ skipped) : skipped \in Newest(offset, rows)}

StartWalk ==
    /\ walk.at = "start"
    /\ walk' = [walk EXCEPT !.at = "count", !.begun = Matching(walk.filter)]
    /\ UNCHANGED <<audit_events, added>>

CountEvents ==
    /\ walk.at = "count"
    /\ walk' = [walk EXCEPT !.at = "page", !.total = Total,
                            !.counted = Cardinality(Matching(walk.filter))]
    /\ UNCHANGED <<audit_events, added>>

(* The page; the client goes on while the total says that there is more.   *)
SelectPage ==
    /\ walk.at = "page"
    /\ \E page \in Pages(Matching(walk.filter), walk.limit, walk.offset) :
          walk' = [walk EXCEPT
              !.at = IF walk.offset + walk.limit < walk.total THEN "count" ELSE "done",
              !.offset = @ + walk.limit,
              !.matching = Cardinality(Matching(walk.filter)),
              !.seen = @ \cup page]
    /\ UNCHANGED <<audit_events, added>>

Next ==
    \/ \E s \in Sessions : Create(s) \/ Commit(s) \/ Rollback(s)
    \/ RawUpdate \/ RawDelete
    \/ StartWalk \/ CountEvents \/ SelectPage

Spec == Init /\ [][Next]_vars

-----------------------------------------------------------------------------
(* Properties.                                                             *)

(* No step changes or removes a committed event, raw SQL included, and     *)
(* each event that appears was flushed by a session with all the others of *)
(* its transaction, as it was created.                                     *)
AuditIsAppendOnly ==
    [][/\ audit_events \subseteq audit_events'
       /\ audit_events' # audit_events =>
             \E s \in Sessions : audit_events' = audit_events \cup added[s]]_vars

(* No other row listed has the event's time: rows of one time come in any  *)
(* order, and in another one in each page.                                 *)
Untied(event, listed) ==
    \A row \in listed : row.occurred_at = event.occurred_at => row = event

(* What a client that walks a list has not seen of the untied events that  *)
(* were there when it began.                                               *)
Missed == {event \in walk.begun \ walk.seen : Untied(event, Matching(walk.filter))}

(* While events are added, backdated ones too, a walk misses no more of    *)
(* them than were committed between the count and the page of its last     *)
(* call: those alone lie beyond a total that was right when it was read.   *)
AuditWalkMissesNothing ==
    walk.at = "done" => Cardinality(Missed) <= walk.matching - walk.counted
==============================================================================
