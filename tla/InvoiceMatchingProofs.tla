------------------------ MODULE InvoiceMatchingProofs ------------------------
(***************************************************************************)
(* Theorems about the matching of fetched invoices, for all lists, amounts *)
(* and tolerances.  None of them needs the ids of a list to be distinct.   *)
(***************************************************************************)
EXTENDS FetchedMatching, TLAPS

-----------------------------------------------------------------------------
(* Type correctness.                                                       *)

(* The distance of two amounts is a natural number.                        *)
LEMMA DistanceType ==
    ASSUME NEW a \in Int, NEW b \in Int
    PROVE  Distance(a, b) \in Nat
BY DEF Distance

(* An element of a list of invoices is an invoice with an integer amount.  *)
LEMMA Element ==
    ASSUME NEW list \in Seq(Invoices), NEW i \in DOMAIN list
    PROVE  /\ list[i] \in Invoices
           /\ list[i].id \in Ids /\ list[i].customer \in Customers
           /\ list[i].amount \in Int
<1>1. list[i] \in Invoices
  OBVIOUS
<1>2. QED BY <1>1, MatchingAssumption DEF Invoices

(* The position a loop works on is in its list.                            *)
LEMMA Position ==
    ASSUME NEW list \in Seq(Invoices), at \in Nat \ {0}, at <= Len(list)
    PROVE  at \in DOMAIN list
OBVIOUS

(* A mismatch of two invoices is a discrepancy.                            *)
LEMMA MismatchType ==
    ASSUME NEW s \in Invoices, NEW q \in Invoices
    PROVE  AmountMismatch(s, q) \in Discrepancies
<1> DEFINE gap == Distance(s.amount, q.amount)
<1>1. gap \in Nat
  BY MatchingAssumption, DistanceType DEF Invoices
<1>2. s.id \in Ids \cup {NoId} /\ q.id \in Ids \cup {NoId} /\ s.customer \in Customers
  BY DEF Invoices
<1>3. gap \in Int
  BY <1>1
<1> HIDE DEF gap
<1>4. [type |-> "amount_mismatch",
       severity |-> IF gap < WarningBelow THEN "warning" ELSE "error",
       st |-> s.id, qb |-> q.id, customer |-> s.customer, difference |-> gap]
      \in Discrepancies
  BY <1>2, <1>3 DEF Discrepancies
<1>5. QED BY <1>4 DEF AmountMismatch, gap

LEMMA TypeStep ==
    ASSUME TypeOK, [Next]_vars
    PROVE  TypeOK'
<1> USE DEF TypeOK, InLoop, Phases
<1>1. CASE MatchNext
  <2>1. at \in DOMAIN st
    BY <1>1, Position DEF MatchNext
  <2>2. PICK j \in DOMAIN qb : matchedQb' = matchedQb \cup {qb[j].id}
    BY <1>1 DEF MatchNext
  <2>3. st[at].id \in Ids /\ qb[j].id \in Ids
    BY <2>1, <2>2, Element
  <2>4. QED BY <1>1, <2>2, <2>3 DEF MatchNext
<1>2. CASE NoMatchNext \/ SkipMatchedSt \/ SkipMatchedQb
  BY <1>2 DEF NoMatchNext, SkipMatchedSt, SkipMatchedQb
<1>3. CASE \/ LoopEnds("match", st, "explain_st")
           \/ LoopEnds("explain_st", st, "explain_qb")
           \/ LoopEnds("explain_qb", qb, "summarise")
  BY <1>3 DEF LoopEnds
<1>4. CASE ReportMismatch
  <2>1. at \in DOMAIN st
    BY <1>4, Position DEF ReportMismatch
  <2>2. PICK j \in DOMAIN qb : /\ rows' = rows \cup {AmountMismatch(st[at], qb[j])}
                               /\ matchedQb' = matchedQb \cup {qb[j].id}
    BY <1>4 DEF ReportMismatch
  <2>3. st[at] \in Invoices /\ qb[j] \in Invoices /\ qb[j].id \in Ids
    BY <2>1, <2>2, Element
  <2>4. AmountMismatch(st[at], qb[j]) \in Discrepancies
    BY <2>3, MismatchType
  <2>5. QED BY <1>4, <2>2, <2>3, <2>4 DEF ReportMismatch
<1>5. CASE ReportMissingInQb
  <2>1. at \in DOMAIN st
    BY <1>5, Position DEF ReportMissingInQb
  <2>2. MissingInQuickBooks(st[at]) \in Discrepancies
    BY <2>1, Element DEF MissingInQuickBooks, Discrepancies
  <2>3. QED BY <1>5, <2>2 DEF ReportMissingInQb
<1>6. CASE ReportMissingInSt
  <2>1. at \in DOMAIN qb
    BY <1>6, Position DEF ReportMissingInSt
  <2>2. MissingInServiceTitan(qb[at]) \in Discrepancies
    BY <2>1, Element DEF MissingInServiceTitan, Discrepancies
  <2>3. QED BY <1>6, <2>2 DEF ReportMissingInSt
<1>7. CASE Summarise
  <2>1. Len(st) \in Nat /\ Len(qb) \in Nat
    OBVIOUS
  <2>2. /\ Unmatched(st) \in Nat /\ Unmatched(qb) \in Nat
        /\ Larger(Len(st), Len(qb)) \in Nat
    BY <2>1 DEF Unmatched, Distance, Larger
  <2>3. Figures \in [matched : Nat, discrepancies : Nat, of : Nat]
    BY <2>2 DEF Figures
  <2>4. QED BY <1>7, <2>3 DEF Summarise
<1>8. CASE UNCHANGED vars
  BY <1>8 DEF vars
<1>9. QED BY <1>1, <1>2, <1>3, <1>4, <1>5, <1>6, <1>7, <1>8 DEF Next, Loops, Finished

(* The types of every variable hold in every reachable state.              *)
THEOREM TypeCorrect == Spec => []TypeOK
<1>1. Init => TypeOK
  BY MatchingAssumption DEF Init, Ready, TypeOK, Phases, NoFigures
<1>2. QED BY <1>1, TypeStep, PTL DEF Spec

-----------------------------------------------------------------------------
(* Loop 1 misses no match.                                                 *)

(* The ServiceTitan invoices loop 1 has visited and left unmatched agree   *)
(* with no QuickBooks invoice that is still free.                          *)
VisitedLeftovers ==
    \A i \in DOMAIN st, j \in DOMAIN qb :
        /\ phase = "match" => i < at
        /\ st[i].id \notin matchedSt
        /\ qb[j].id \notin matchedQb
        => ~Agree(st[i], qb[j])

LEMMA VisitedStep ==
    ASSUME TypeOK, VisitedLeftovers, [Next]_vars
    PROVE  VisitedLeftovers'
<1> USE DEF TypeOK, InLoop, VisitedLeftovers
<1>1. CASE MatchNext
  <2> SUFFICES ASSUME NEW i \in DOMAIN st, NEW j \in DOMAIN qb, i < at',
                      st[i].id \notin matchedSt', qb[j].id \notin matchedQb'
               PROVE  ~Agree(st[i], qb[j])
    BY <1>1 DEF MatchNext, Agree
  <2>1. /\ matchedSt' = matchedSt \cup {st[at].id} /\ at' = at + 1 /\ phase = "match"
        /\ matchedQb \subseteq matchedQb'
    BY <1>1 DEF MatchNext
  <2>2. i # at
    BY <2>1
  <2>3. i < at
    BY <2>1, <2>2
  <2>4. QED BY <2>1, <2>3
<1>2. CASE NoMatchNext
  <2> SUFFICES ASSUME NEW i \in DOMAIN st, NEW j \in DOMAIN qb, i < at',
                      st[i].id \notin matchedSt, qb[j].id \notin matchedQb
               PROVE  ~Agree(st[i], qb[j])
    BY <1>2 DEF NoMatchNext, Agree
  <2>1. CASE i < at
    BY <1>2, <2>1 DEF NoMatchNext
  <2>2. CASE i = at
    BY <1>2, <2>2 DEF NoMatchNext, MatchCandidates
  <2>3. QED BY <1>2, <2>1, <2>2 DEF NoMatchNext
<1>3. CASE LoopEnds("match", st, "explain_st")
  BY <1>3 DEF LoopEnds, Agree
<1>4. CASE /\ phase # "match" /\ phase' # "match"
           /\ UNCHANGED <<st, qb, matchedSt>> /\ matchedQb \subseteq matchedQb'
  BY <1>4 DEF Agree
<1>5. CASE \/ SkipMatchedSt \/ SkipMatchedQb \/ ReportMismatch \/ ReportMissingInQb
           \/ ReportMissingInSt \/ Summarise
           \/ LoopEnds("explain_st", st, "explain_qb")
           \/ LoopEnds("explain_qb", qb, "summarise")
  BY <1>4, <1>5 DEF SkipMatchedSt, SkipMatchedQb, ReportMismatch, ReportMissingInQb,
                    ReportMissingInSt, Summarise, LoopEnds
<1>6. CASE UNCHANGED vars
  BY <1>6 DEF vars, Agree
<1>7. QED BY <1>1, <1>2, <1>3, <1>5, <1>6 DEF Next, Loops, Finished

LEMMA VisitedAlways == Spec => []VisitedLeftovers
<1>1. Init => VisitedLeftovers
  BY MatchingAssumption DEF Init, Ready, VisitedLeftovers
<1>2. QED BY <1>1, VisitedStep, TypeCorrect, PTL DEF Spec

(* Loop 1 leaves no two invoices unmatched that agree.                     *)
THEOREM NoMatchMissed == Spec => []NoMissedMatch
<1>1. VisitedLeftovers => NoMissedMatch
  BY DEF VisitedLeftovers, NoMissedMatch
<1>2. QED BY <1>1, VisitedAlways, PTL

-----------------------------------------------------------------------------
(* The rows of loops 2 and 3.                                              *)

(* What the steps share: the lists stay, invoices are only ever taken.     *)
LEMMA ListsStay ==
    ASSUME [Next]_vars
    PROVE  st' = st /\ qb' = qb /\ matchedQb \subseteq matchedQb'
BY DEF Next, Loops, vars, MatchNext, NoMatchNext, LoopEnds, SkipMatchedSt, ReportMismatch,
       ReportMissingInQb, SkipMatchedQb, ReportMissingInSt, Summarise, Finished

(* The steps that report nothing.                                          *)
Reports == ReportMismatch \/ ReportMissingInQb \/ ReportMissingInSt

LEMMA OthersKeepRows ==
    ASSUME [Next]_vars, ~Reports
    PROVE  rows' = rows
BY DEF Reports, Next, Loops, vars, MatchNext, NoMatchNext, LoopEnds, SkipMatchedSt,
       SkipMatchedQb, Summarise, Finished

LEMMA MismatchStep ==
    ASSUME TypeOK, VisitedLeftovers, MismatchesDiffer, [Next]_vars
    PROVE  MismatchesDiffer'
<1>1. st' = st /\ qb' = qb
  BY ListsStay
<1> SUFFICES ASSUME NEW row \in rows', row \notin rows, row.type = "amount_mismatch"
             PROVE  /\ row.difference > Tolerance
                    /\ \E i \in DOMAIN st, j \in DOMAIN qb :
                          /\ st[i].id = row.st /\ qb[j].id = row.qb
                          /\ st[i].customer = qb[j].customer
                          /\ row.difference = Distance(st[i].amount, qb[j].amount)
  BY <1>1 DEF MismatchesDiffer
<1>2. ReportMismatch
  BY OthersKeepRows
     DEF Reports, ReportMissingInQb, ReportMissingInSt, MissingInQuickBooks,
         MissingInServiceTitan
<1>3. at \in DOMAIN st
  BY <1>2, Position DEF TypeOK, ReportMismatch, InLoop
<1>4. PICK j \in DOMAIN qb : /\ j \in MismatchCandidates(st[at])
                             /\ row = AmountMismatch(st[at], qb[j])
  BY <1>2 DEF ReportMismatch, IsFirst
<1> DEFINE gap == Distance(st[at].amount, qb[j].amount)
<1>5. /\ row.st = st[at].id /\ row.qb = qb[j].id /\ row.difference = gap
  BY <1>4 DEF AmountMismatch
<1>6. ~Agree(st[at], qb[j])
  BY <1>2, <1>3, <1>4 DEF VisitedLeftovers, ReportMismatch, InLoop, MismatchCandidates
<1>7. st[at].customer = qb[j].customer
  BY <1>4 DEF MismatchCandidates
<1>8. gap \in Nat
  BY <1>3, <1>4, Element, DistanceType DEF TypeOK
<1>9. gap > Tolerance
  BY <1>6, <1>7, <1>8, MatchingAssumption DEF Agree
<1>10. QED BY <1>3, <1>4, <1>5, <1>7, <1>9

(* Every amount_mismatch is about two invoices that do not agree.          *)
THEOREM MismatchesReal == Spec => []MismatchesDiffer
<1>1. Init => MismatchesDiffer
  BY DEF Init, Ready, MismatchesDiffer
<1>2. QED BY <1>1, MismatchStep, TypeCorrect, VisitedAlways, PTL DEF Spec

(* A missing_in_quickbooks row leaves no free invoice of its customer      *)
(* behind; a missing_in_servicetitan row is about one that stayed free     *)
(* through loop 2.                                                         *)
NoneWasFree ==
    \A row \in rows : row.type = "missing_in_quickbooks" =>
        \A j \in DOMAIN qb : qb[j].customer = row.customer => qb[j].id \in matchedQb
OneStaysFree ==
    \A row \in rows : row.type = "missing_in_servicetitan" =>
        /\ phase \in {"explain_qb", "summarise", "done"}
        /\ \E j \in DOMAIN qb : /\ qb[j].customer = row.customer
                                /\ qb[j].id \notin matchedQb

LEMMA NoneWasFreeStep ==
    ASSUME NoneWasFree, [Next]_vars
    PROVE  NoneWasFree'
<1>1. qb' = qb /\ matchedQb \subseteq matchedQb'
  BY ListsStay
<1> SUFFICES ASSUME NEW row \in rows', row \notin rows,
                    row.type = "missing_in_quickbooks",
                    NEW j \in DOMAIN qb, qb[j].customer = row.customer
             PROVE  qb[j].id \in matchedQb
  BY <1>1 DEF NoneWasFree
<1>2. ReportMissingInQb
  BY OthersKeepRows
     DEF Reports, ReportMismatch, ReportMissingInSt, AmountMismatch, MissingInServiceTitan
<1>3. row.customer = st[at].customer /\ MismatchCandidates(st[at]) = {}
  BY <1>2 DEF ReportMissingInQb, MissingInQuickBooks
<1>4. QED BY <1>3 DEF MismatchCandidates

LEMMA OneStaysFreeStep ==
    ASSUME TypeOK, OneStaysFree, [Next]_vars
    PROVE  OneStaysFree'
<1>1. qb' = qb
  BY ListsStay
<1>2. phase \in {"explain_qb", "summarise", "done"} =>
          /\ phase' \in {"explain_qb", "summarise", "done"}
          /\ matchedQb' = matchedQb
  BY DEF Next, Loops, vars, InLoop, MatchNext, NoMatchNext, LoopEnds, SkipMatchedSt,
         ReportMismatch, ReportMissingInQb, SkipMatchedQb, ReportMissingInSt,
         Summarise, Finished
<1> SUFFICES ASSUME NEW row \in rows', row \notin rows,
                    row.type = "missing_in_servicetitan"
             PROVE  /\ phase' \in {"explain_qb", "summarise", "done"}
                    /\ \E j \in DOMAIN qb : /\ qb[j].customer = row.customer
                                            /\ qb[j].id \notin matchedQb'
  BY <1>1, <1>2 DEF OneStaysFree
<1>3. ReportMissingInSt
  BY OthersKeepRows
     DEF Reports, ReportMismatch, ReportMissingInQb, AmountMismatch, MissingInQuickBooks
<1>4. /\ phase = "explain_qb" /\ at \in DOMAIN qb /\ qb[at].id \notin matchedQb
      /\ row.customer = qb[at].customer
  BY <1>3, Position DEF TypeOK, ReportMissingInSt, InLoop, MissingInServiceTitan
<1>5. QED BY <1>2, <1>4

(* No customer is reported missing on both sides.                          *)
THEOREM MissingOneSided == Spec => []MissingOnOneSideOnly
<1>1. Init => NoneWasFree /\ OneStaysFree
  BY DEF Init, Ready, NoneWasFree, OneStaysFree
<1>2. NoneWasFree /\ OneStaysFree => MissingOnOneSideOnly
  BY DEF NoneWasFree, OneStaysFree, MissingOnOneSideOnly
<1>3. QED BY <1>1, <1>2, NoneWasFreeStep, OneStaysFreeStep, TypeCorrect, PTL DEF Spec

-----------------------------------------------------------------------------
(* The fetches.                                                            *)

(* Whichever fetches failed and however long the ServiceTitan list is, a   *)
(* run over what was fetched is a run of the matching loops: each theorem  *)
(* above is one about FetchedSpec.                                         *)
THEOREM FetchedImplementsMatching == FetchedSpec => Spec
<1>1. FetchedInit => Init
  BY FetchedAssumption DEF FetchedInit, Delivered, Init
<1>2. [FetchedNext]_<<vars, fetchedVars>> => [Next]_vars
  BY DEF FetchedNext, StoreFigures, Next, Finished
<1>3. QED BY <1>1, <1>2, PTL DEF FetchedSpec, Spec
==============================================================================
