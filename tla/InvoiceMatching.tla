--------------------------- MODULE InvoiceMatching ---------------------------
(***************************************************************************)
(* ReconciliationService._perform_matching and the figures reconcile       *)
(* derives from it: three loops over the invoices of a run, in whatever    *)
(* order the two unordered SELECTs return them.                            *)
(*                                                                         *)
(* Customers stand for customer names up to case: the code compares        *)
(* name.lower().  Amounts are whole numbers of the smallest unit.          *)
(*                                                                         *)
(* A definition F_X, beside a definition F, is F with the fault X.         *)
(***************************************************************************)
EXTENDS Integers, Sequences, FiniteSets

CONSTANTS
    Ids,          \* ids of invoices in the source systems
    NoId,         \* the missing side of a discrepancy
    Customers,
    Amounts,
    Tolerance,    \* amount_tolerance
    WarningBelow, \* the difference from which a mismatch is an error
    StLists,      \* the lists of invoices a run may have of ServiceTitan
    QbLists       \* the lists of invoices a run may have of QuickBooks

Invoices == [id : Ids, customer : Customers, amount : Amounts]
DistinctIds(list) ==
    \A i, j \in DOMAIN list : list[i].id = list[j].id => i = j

ASSUME MatchingAssumption ==
    /\ NoId \notin Ids
    /\ Amounts \subseteq Int
    /\ Tolerance \in Nat
    /\ WarningBelow \in Nat
    /\ StLists \subseteq Seq(Invoices)
    /\ QbLists \subseteq Seq(Invoices)
    /\ \A list \in StLists \cup QbLists : DistinctIds(list)

VARIABLES
    st, qb,        \* the invoices of the run, as the SELECTs return them
    phase,         \* the loop that runs
    at,            \* its index
    matchedSt,     \* matched_st_ids
    matchedQb,     \* matched_qb_ids
    matchedCount,
    rows,          \* the discrepancies, one row for each
    run            \* the figures stored in the run row

vars == <<st, qb, phase, at, matchedSt, matchedQb, matchedCount, rows, run>>

Phases == {"match", "explain_st", "explain_qb", "summarise", "done"}
Discrepancies ==
    [type : {"missing_in_quickbooks", "missing_in_servicetitan", "amount_mismatch"},
     severity : {"warning", "error"},
     st : Ids \cup {NoId}, qb : Ids \cup {NoId},
     customer : Customers, difference : Int]

Distance(a, b) == IF a < b THEN b - a ELSE a - b
Larger(a, b) == IF a < b THEN b ELSE a

NoFigures == [matched |-> 0, discrepancies |-> 0, of |-> 0]

TypeOK ==
    /\ st \in Seq(Invoices)
    /\ qb \in Seq(Invoices)
    /\ phase \in Phases
    /\ at \in Nat \ {0}
    /\ matchedSt \in SUBSET Ids
    /\ matchedQb \in SUBSET Ids
    /\ matchedCount \in Nat
    /\ rows \in SUBSET Discrepancies
    /\ run \in [matched : Nat, discrepancies : Nat, of : Nat]

(* The variables of _perform_matching before its first loop.               *)
Ready ==
    /\ phase = "match"
    /\ at = 1
    /\ matchedSt = {}
    /\ matchedQb = {}
    /\ matchedCount = 0
    /\ rows = {}
    /\ run = NoFigures

Init == st \in StLists /\ qb \in QbLists /\ Ready

-----------------------------------------------------------------------------
(* The tests of the loops.                                                 *)

Agree(s, q) ==
    s.customer = q.customer /\ Distance(s.amount, q.amount) <= Tolerance

(* The positions of QuickBooks invoices that invoice s may be matched to.  *)
MatchCandidates_Exact(s) ==
    {j \in DOMAIN qb : /\ qb[j].id \notin matchedQb
                       /\ s.customer = qb[j].customer
                       /\ s.amount = qb[j].amount}
MatchCandidates_FirstOfCustomer(s) ==
    {j \in DOMAIN qb : /\ qb[j].id \notin matchedQb
                       /\ Agree(s, qb[j])
                       /\ \A k \in 1..(j - 1) : qb[k].customer # s.customer}
MatchCandidates_Again(s) == {j \in DOMAIN qb : Agree(s, qb[j])}
MatchCandidates(s) ==
    {j \in DOMAIN qb : qb[j].id \notin matchedQb /\ Agree(s, qb[j])}

(* The positions of QuickBooks invoices that may explain s by a mismatch.  *)
MismatchCandidates_SmallGaps(s) ==
    {j \in DOMAIN qb : /\ qb[j].id \notin matchedQb
                       /\ qb[j].customer = s.customer
                       /\ Distance(s.amount, qb[j].amount) < WarningBelow}
MismatchCandidates(s) ==
    {j \in DOMAIN qb : qb[j].id \notin matchedQb /\ qb[j].customer = s.customer}

IsFirst(j, positions) == j \in positions /\ \A k \in positions : j <= k

MissingInQuickBooks(s) ==
    [type |-> "missing_in_quickbooks", severity |-> "error", st |-> s.id,
     qb |-> NoId, customer |-> s.customer, difference |-> s.amount]
MissingInServiceTitan(q) ==
    [type |-> "missing_in_servicetitan", severity |-> "error", st |-> NoId,
     qb |-> q.id, customer |-> q.customer, difference |-> q.amount]
AmountMismatch_Signed(s, q) ==
    [type |-> "amount_mismatch",
     severity |-> IF s.amount - q.amount < WarningBelow THEN "warning" ELSE "error",
     st |-> s.id, qb |-> q.id, customer |-> s.customer,
     difference |-> s.amount - q.amount]
AmountMismatch_Info(s, q) ==
    LET gap == Distance(s.amount, q.amount)
    IN  [type |-> "amount_mismatch",
         severity |-> IF gap < WarningBelow THEN "info" ELSE "error",
         st |-> s.id, qb |-> q.id, customer |-> s.customer, difference |-> gap]
AmountMismatch(s, q) ==
    LET gap == Distance(s.amount, q.amount)
    IN  [type |-> "amount_mismatch",
         severity |-> IF gap < WarningBelow THEN "warning" ELSE "error",
         st |-> s.id, qb |-> q.id, customer |-> s.customer, difference |-> gap]

-----------------------------------------------------------------------------
(* The loops.                                                              *)

(* A loop over list ends and the next one starts.                          *)
LoopEnds(loop, list, next) ==
    /\ phase = loop
    /\ at > Len(list)
    /\ phase' = next
    /\ at' = 1
    /\ UNCHANGED <<st, qb, matchedSt, matchedQb, matchedCount, rows, run>>

InLoop(loop, list) == phase = loop /\ at <= Len(list)

(* Loop 1: each ServiceTitan invoice takes the first free QuickBooks       *)
(* invoice it agrees with.                                                 *)
MatchNext ==
    /\ InLoop("match", st)
    /\ \E j \in DOMAIN qb :
          /\ IsFirst(j, MatchCandidates(st[at]))
          /\ matchedQb' = matchedQb \cup {qb[j].id}
    /\ matchedSt' = matchedSt \cup {st[at].id}
    /\ matchedCount' = matchedCount + 1
    /\ at' = at + 1
    /\ UNCHANGED <<st, qb, phase, rows, run>>

NoMatchNext ==
    /\ InLoop("match", st)
    /\ MatchCandidates(st[at]) = {}
    /\ at' = at + 1
    /\ UNCHANGED <<st, qb, phase, matchedSt, matchedQb, matchedCount, rows, run>>

(* Loop 2: an unmatched ServiceTitan invoice is a mismatch with the first  *)
(* free QuickBooks invoice of its customer, or missing.                    *)
SkipMatchedSt ==
    /\ InLoop("explain_st", st)
    /\ st[at].id \in matchedSt
    /\ at' = at + 1
    /\ UNCHANGED <<st, qb, phase, matchedSt, matchedQb, matchedCount, rows, run>>

ReportMismatch_KeepsQbFree ==
    /\ InLoop("explain_st", st)
    /\ st[at].id \notin matchedSt
    /\ \E j \in DOMAIN qb :
          /\ IsFirst(j, MismatchCandidates(st[at]))
          /\ rows' = rows \cup {AmountMismatch(st[at], qb[j])}
    /\ at' = at + 1
    /\ UNCHANGED <<st, qb, phase, matchedSt, matchedQb, matchedCount, run>>
ReportMismatch ==
    /\ InLoop("explain_st", st)
    /\ st[at].id \notin matchedSt
    /\ \E j \in DOMAIN qb :
          /\ IsFirst(j, MismatchCandidates(st[at]))
          /\ rows' = rows \cup {AmountMismatch(st[at], qb[j])}
          /\ matchedQb' = matchedQb \cup {qb[j].id}
    /\ at' = at + 1
    /\ UNCHANGED <<st, qb, phase, matchedSt, matchedCount, run>>

ReportMissingInQb ==
    /\ InLoop("explain_st", st)
    /\ st[at].id \notin matchedSt
    /\ MismatchCandidates(st[at]) = {}
    /\ rows' = rows \cup {MissingInQuickBooks(st[at])}
    /\ at' = at + 1
    /\ UNCHANGED <<st, qb, phase, matchedSt, matchedQb, matchedCount, run>>

(* Loop 3: what is left in QuickBooks is missing in ServiceTitan.          *)
SkipMatchedQb ==
    /\ InLoop("explain_qb", qb)
    /\ qb[at].id \in matchedQb
    /\ at' = at + 1
    /\ UNCHANGED <<st, qb, phase, matchedSt, matchedQb, matchedCount, rows, run>>

ReportMissingInSt ==
    /\ InLoop("explain_qb", qb)
    /\ qb[at].id \notin matchedQb
    /\ rows' = rows \cup {MissingInServiceTitan(qb[at])}
    /\ at' = at + 1
    /\ UNCHANGED <<st, qb, phase, matchedSt, matchedQb, matchedCount, run>>

(* reconcile: discrepancy_count, and health_score as matched / of.  With   *)
(* no invoice on either side the score is 1.0, here 1 / 1.                 *)
Unmatched(list) == Distance(Len(list), matchedCount)
Figures_OfServiceTitan ==
    IF Len(st) = 0 THEN [matched |-> 1, discrepancies |-> Len(qb), of |-> 1]
    ELSE [matched |-> matchedCount,
          discrepancies |-> Unmatched(st) + Unmatched(qb),
          of |-> Len(st)]
Figures ==
    IF Larger(Len(st), Len(qb)) = 0
    THEN [matched |-> 1, discrepancies |-> 0, of |-> 1]
    ELSE [matched |-> matchedCount,
          discrepancies |-> Unmatched(st) + Unmatched(qb),
          of |-> Larger(Len(st), Len(qb))]

Summarise ==
    /\ phase = "summarise"
    /\ phase' = "done"
    /\ run' = Figures
    /\ UNCHANGED <<st, qb, at, matchedSt, matchedQb, matchedCount, rows>>

Finished == phase = "done" /\ UNCHANGED vars

Loops ==
    \/ MatchNext \/ NoMatchNext
    \/ LoopEnds("match", st, "explain_st")
    \/ SkipMatchedSt \/ ReportMismatch \/ ReportMissingInQb
    \/ LoopEnds("explain_st", st, "explain_qb")
    \/ SkipMatchedQb \/ ReportMissingInSt
    \/ LoopEnds("explain_qb", qb, "summarise")

Next == Loops \/ Summarise \/ Finished

Spec == Init /\ [][Next]_vars

-----------------------------------------------------------------------------
(* Properties.                                                             *)

(* When loop 1 is over it has missed no pair that agrees, although each    *)
(* invoice took the first partner it met: an amount_mismatch row, or two   *)
(* missing_in rows, never hide a match.                                    *)
NoMissedMatch ==
    phase = "explain_st" /\ at = 1 =>
        \A i \in DOMAIN st, j \in DOMAIN qb :
            st[i].id \notin matchedSt /\ qb[j].id \notin matchedQb
                => ~Agree(st[i], qb[j])

(* An amount_mismatch is about two invoices of one customer whose amounts  *)
(* differ by more than the tolerance.                                      *)
MismatchesDiffer ==
    \A row \in rows : row.type = "amount_mismatch" =>
        /\ row.difference > Tolerance
        /\ \E i \in DOMAIN st, j \in DOMAIN qb :
              /\ st[i].id = row.st /\ qb[j].id = row.qb
              /\ st[i].customer = qb[j].customer
              /\ row.difference = Distance(st[i].amount, qb[j].amount)

(* No customer misses invoices on both sides: they would be a mismatch.    *)
MissingOnOneSideOnly ==
    \A a, b \in rows :
        a.type = "missing_in_quickbooks" /\ b.type = "missing_in_servicetitan"
            => a.customer # b.customer

RowsOfType(type) == {row \in rows : row.type = type}
RowsOfSt(s) == {row \in rows : row.st = s.id}
RowsOfQb(q) == {row \in rows : row.qb = q.id}

(* At the end every ServiceTitan invoice is matched or in one row, every   *)
(* QuickBooks invoice is in at most one row, and the counts add up: no     *)
(* invoice is dropped, none is explained twice.                            *)
EveryInvoiceAccountedOnce ==
    phase \in {"summarise", "done"} =>
        /\ \A i \in DOMAIN st :
              Cardinality(RowsOfSt(st[i])) = (IF st[i].id \in matchedSt THEN 0 ELSE 1)
        /\ \A j \in DOMAIN qb : Cardinality(RowsOfQb(qb[j])) <= 1
        /\ matchedCount + Cardinality({row \in rows : row.st # NoId}) = Len(st)
        /\ matchedCount + Cardinality({row \in rows : row.qb # NoId}) = Len(qb)

(* A run scores full health exactly if it reports no discrepancy, and its  *)
(* discrepancy_count follows from its rows: an amount_mismatch, which is   *)
(* about two invoices, counts twice and any other row once.                *)
FiguresFollowTheRows ==
    phase = "done" =>
        /\ run.matched = run.of <=> rows = {}
        /\ run.discrepancies =
               Cardinality(rows) + Cardinality(RowsOfType("amount_mismatch"))

(* Reference: the most ServiceTitan invoices that can be matched at all.   *)
Pairings == {p \in SUBSET ((DOMAIN st) \X (DOMAIN qb)) :
                /\ \A x \in p : Agree(st[x[1]], qb[x[2]])
                /\ \A x, y \in p : x[1] = y[1] \/ x[2] = y[2] => x = y}

(* The ends of a chain of three agreements agree themselves: the tolerance *)
(* tells the amounts of each customer apart.                               *)
ChainsAgree ==
    \A i, k \in DOMAIN st, j, l \in DOMAIN qb :
        Agree(st[i], qb[j]) /\ Agree(st[k], qb[j]) /\ Agree(st[k], qb[l])
            => Agree(st[i], qb[l])

(* Taking the first partner may match fewer invoices than possible, as the *)
(* tolerance is not transitive, but never fewer than half, and none fewer  *)
(* where the tolerance happens to be transitive on the run's invoices.     *)
MatchesEnough ==
    phase = "done" =>
        /\ \A p \in Pairings : 2 * matchedCount >= Cardinality(p)
        /\ ChainsAgree => \A p \in Pairings : matchedCount >= Cardinality(p)

(* discrepancy_count is the number of discrepancies stored for the run.    *)
DiscrepancyCountIsRows ==
    phase = "done" => run.discrepancies = Cardinality(rows)

(* The loops implement the promise: whatever order the rows come in, the   *)
(* rows and the count are those of one inextensible pairing of invoices    *)
(* that agree and one of what it leaves.                                   *)
Promise == INSTANCE MatchingPromise WITH
    outcome <-
        IF phase \notin {"summarise", "done"} THEN {}
        ELSE {[matched |-> matchedCount,
               mismatched |-> {<<row.st, row.qb>> : row \in RowsOfType("amount_mismatch")},
               missing_in_quickbooks |->
                   {row.st : row \in RowsOfType("missing_in_quickbooks")},
               missing_in_servicetitan |->
                   {row.qb : row \in RowsOfType("missing_in_servicetitan")}]}
ImplementsPromise == Promise!PromiseSpec
==============================================================================
