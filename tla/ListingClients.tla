--------------------------- MODULE ListingClients ---------------------------
(***************************************************************************)
(* Two users of the list endpoints: a client that walks the pages of a     *)
(* list while has_more is true, as the options of api_client.ts allow, and *)
(* the dashboard, which loads one page of up to DashboardLimit rows and    *)
(* filters and pages through it in the browser.  They meet only in the     *)
(* table, which neither writes, so a behaviour has one of them.            *)
(***************************************************************************)
EXTENDS DiscrepancyListing

CONSTANTS
    WalkLimits,     \* limits a walking client uses
    DashboardLimit, \* the limit of loadData, 1000 in the code
    PageSize        \* rows on a page of the dashboard, 10 in the code

ASSUME ClientsAssumption ==
    /\ WalkLimits \subseteq Nat \ {0}
    /\ DashboardLimit \in Nat \ {0}
    /\ PageSize \in Nat \ {0}

VARIABLES
    client, \* which of the two this behaviour has
    walk,   \* the walk: how far it is, what it got, the rows when it began
    all,    \* allDiscrepancies
    shown,  \* filteredDiscrepancies
    box,    \* the value of severityFilter
    page,   \* currentPage
    late    \* loads under way while another one arrived

clientVars == <<client, walk, all, shown, box, page, late>>
dashboardVars == <<all, shown, box, page, late>>
vars == <<status, detectedAt, call, client, walk, all, shown, box, page, late>>

TypeOK ==
    /\ ListingTypeOK
    /\ client \in {"walker", "dashboard"}
    /\ walk.phase \in {"none", "walking", "done", "not_found"}
    /\ walk.got \in Seq(Rows)
    /\ walk.before \in SUBSET Rows
    /\ all \in Seq(Rows)
    /\ shown \in Seq(Rows)
    /\ box \in {"error", "warning", AnySeverity}
    /\ page \in Nat
    /\ late \in SUBSET Callers

Init ==
    /\ ListingInit
    /\ client \in {"walker", "dashboard"}
    /\ walk = [phase |-> "none", got |-> <<>>, before |-> {}]
    /\ all = <<>>
    /\ shown = <<>>
    /\ box = AnySeverity
    /\ page = 0
    /\ late = {}

-----------------------------------------------------------------------------
(* The walk of one list, page after page.                                  *)

(* What a walk may begin with.                                             *)
FirstPages ==
    {FirstPage(scope, severity, limit) : scope \in Runs \cup {AllRuns},
                                         severity \in {"error", AnySeverity},
                                         limit \in WalkLimits}

StartWalk(c, q) ==
    /\ client = "walker"
    /\ walk.phase = "none"
    /\ Called(c, q)
    /\ walk' = [walk EXCEPT !.phase = "walking", !.before = Matching(q)]
    /\ UNCHANGED <<status, detectedAt, client, dashboardVars>>

TakePage(c) ==
    /\ walk.phase = "walking"
    /\ call[c].phase = "answered"
    /\ walk' = [walk EXCEPT !.got = @ \o call[c].items,
                            !.phase = IF HasMore(c) THEN @ ELSE "done"]
    /\ IF HasMore(c)
       THEN Called(c, [call[c].query EXCEPT !.offset = @ + call[c].query.limit])
       ELSE UNCHANGED call
    /\ UNCHANGED <<status, detectedAt, client, dashboardVars>>

WalkRefused(c) ==
    /\ walk.phase = "walking"
    /\ call[c].phase = "not_found"
    /\ walk' = [walk EXCEPT !.phase = "not_found"]
    /\ UNCHANGED <<status, detectedAt, call, client, dashboardVars>>

-----------------------------------------------------------------------------
(* The dashboard.  A load starts when the user connects and two seconds    *)
(* after each reconciliation, so several may be under way.                 *)

(* allDiscrepancies.filter: the rows of the severity, in their order.      *)
Filtered(rows, severity) ==
    LET kept == {i \in DOMAIN rows : severity \in {AnySeverity, Severity(rows[i])}}
    IN  [n \in 1..Cardinality(kept) |->
            rows[CHOOSE i \in kept : Cardinality({k \in kept : k < i}) = n - 1]]

loadData(c) ==
    /\ client = "dashboard"
    /\ call[c].phase = "idle"
    /\ Called(c, FirstPage(AllRuns, AnySeverity, DashboardLimit))
    /\ late' = late \ {c}
    /\ UNCHANGED <<status, detectedAt, client, walk, all, shown, box, page>>

Loaded(c, rows, first) ==
    /\ client = "dashboard"
    /\ call[c].phase = "answered"
    /\ all' = call[c].items
    /\ shown' = rows
    /\ page' = first
    /\ late' = {d \in Callers \ {c} : call[d].phase # "idle"}
    /\ call' = [call EXCEPT ![c] = NoCall]
    /\ UNCHANGED <<status, detectedAt, client, walk, box>>

LoadArrives_KeepsPage(c) == Loaded(c, call[c].items, page)
LoadArrives_KeepsShown(c) ==
    Loaded(c, IF box = AnySeverity THEN call[c].items ELSE shown, 0)
LoadArrives(c) == Loaded(c, call[c].items, 0)

LoadFails(c) ==
    /\ client = "dashboard"
    /\ call[c].phase # "idle"
    /\ call' = [call EXCEPT ![c] = NoCall]
    /\ UNCHANGED <<status, detectedAt, client, walk, dashboardVars>>

applyFilters(severity) ==
    /\ client = "dashboard"
    /\ box' = severity
    /\ shown' = Filtered(all, severity)
    /\ page' = 0
    /\ UNCHANGED <<status, detectedAt, call, client, walk, all, late>>

nextPage ==
    /\ client = "dashboard"
    /\ (page + 1) * PageSize < Len(shown)
    /\ page' = page + 1
    /\ UNCHANGED <<status, detectedAt, call, client, walk, all, shown, box, late>>

prevPage_Unguarded ==
    /\ client = "dashboard"
    /\ page' = page - 1
    /\ UNCHANGED <<status, detectedAt, call, client, walk, all, shown, box, late>>
prevPage ==
    /\ client = "dashboard"
    /\ page > 0
    /\ page' = page - 1
    /\ UNCHANGED <<status, detectedAt, call, client, walk, all, shown, box, late>>

-----------------------------------------------------------------------------
Walks ==
    \E c \in Callers :
        \/ \E q \in FirstPages : StartWalk(c, q)
        \/ TakePage(c)
        \/ WalkRefused(c)

Browses ==
    \/ \E c \in Callers : loadData(c) \/ LoadArrives(c) \/ LoadFails(c)
    \/ \E severity \in {"error", "warning", AnySeverity} : applyFilters(severity)
    \/ nextPage
    \/ prevPage

Next ==
    \/ TableStep /\ UNCHANGED clientVars
    \/ CallStep /\ UNCHANGED clientVars
    \/ Walks
    \/ Browses

Spec == Init /\ [][Next]_vars

-----------------------------------------------------------------------------
Walked(c) == walk.phase = "done" /\ call[c].phase = "answered"

(* What a walk misses of the rows that were committed when it began, for   *)
(* any limit: no more than the rows its last call found less those it got, *)
(* so that a client that got as many as there are has missed none.  With a *)
(* limit the server grants, no more than came between the two SELECTs of   *)
(* its last call: commits at any other time lose it nothing.               *)
Missed == Cardinality(walk.before \ ToSet(walk.got))
WalkMissesNothing ==
    \A c \in Callers : Walked(c) =>
        /\ Missed + Len(walk.got) <= call[c].present
        /\ call[c].query.limit <= MaxLimit => Missed <= call[c].present - call[c].total

(* The rows of one run are committed at once and never added to, so a walk *)
(* of them is exact: each matching row once, newest first, whatever other  *)
(* runs do.                                                                *)
RunWalkIsExact ==
    \A c \in Callers :
        (Walked(c) /\ call[c].query.scope # AllRuns /\ call[c].query.limit <= MaxLimit)
            => walk.got = NewestFirst(
                   {row \in Rows : /\ row[1] = call[c].query.scope
                                   /\ call[c].query.severity
                                        \in {AnySeverity, Severity(row)}})

(* A row is delivered twice only because rows committed during the walk    *)
(* moved it to a later page: no more repeats than such rows.               *)
RepeatsAreShifts ==
    \A c \in Callers : call[c] # NoCall /\ walk.phase # "none" =>
        Len(walk.got) - Cardinality(ToSet(walk.got))
            <= Cardinality(Matching(call[c].query) \ walk.before)

(* The dashboard's page is never past the end of the rows it shows.        *)
PageInRange == page = 0 \/ page * PageSize < Len(shown)

(* The rows shown are of the rows last loaded, all of them or those the    *)
(* filter lets through, never rows of an earlier load.                     *)
ShownIsOfOneLoad == shown = all \/ shown = Filtered(all, box)

(* Rows that the answer of a load takes away, though they are among the    *)
(* newest that fit in one page of the server.                              *)
TakenAway(c) ==
    {row \in ToSet(all) \ ToSet(call[c].items) : Cardinality(Newer(row, Visible)) < MaxLimit}

(* Besides rows that lie past the server's page, a load that no other one  *)
(* overtook takes none away; an older answer that arrives after a newer    *)
(* one takes away no more than were committed since it was read.           *)
ReloadLosesFew ==
    [][\A c \in Callers : LoadArrives(c) =>
          /\ c \notin late => TakenAway(c) = {}
          /\ Cardinality(TakenAway(c)) <= Cardinality(Visible) - call[c].present]_vars
=============================================================================
