----------------------- MODULE MatchingAccountsProofs -----------------------
(***************************************************************************)
(* Theorems that count: every invoice is accounted for once, at least half *)
(* of the best matching is found, the outcome is that of two inextensible  *)
(* pairings, and a succeeded run is true of the source systems.            *)
(*                                                                         *)
(* The loops do not store whom an invoice was matched to, so the invariant *)
(* says that there is a pairing of positions whose ids are the sets of     *)
(* matched ids; it takes the place of a variable for that pairing.         *)
(***************************************************************************)
EXTENDS InvoiceMatchingProofs, FiniteSetTheorems, FunctionTheorems, SequenceTheorems

-----------------------------------------------------------------------------
(* Counting.                                                               *)

(* A set that is mapped injectively into a finite one is no larger.        *)
LEMMA NoLarger ==
    ASSUME NEW S, NEW T, IsFiniteSet(T), NEW f \in [S -> T],
           \A x, y \in S : f[x] = f[y] => x = y
    PROVE  IsFiniteSet(S) /\ Cardinality(S) \in Nat
           /\ Cardinality(S) <= Cardinality(T)
<1>1. f \in Injection(S, T)
  BY Fun_IsInj
<1>2. QED BY <1>1, FS_Injection, FS_CardinalityType

(* Two sets that are mapped injectively onto a part of D and the rest of D *)
(* have together as many elements as D.                                    *)
LEMMA PartsAddUp ==
    ASSUME NEW D, IsFiniteSet(D), NEW M, NEW R, NEW f \in [M -> D], NEW g \in [R -> D],
           \A x, y \in M : f[x] = f[y] => x = y,
           \A x, y \in R : g[x] = g[y] => x = y,
           \A x \in M, y \in R : f[x] # g[y],
           \A d \in D : (\E x \in M : f[x] = d) \/ (\E y \in R : g[y] = d)
    PROVE  /\ IsFiniteSet(M) /\ IsFiniteSet(R)
           /\ Cardinality(M) \in Nat /\ Cardinality(R) \in Nat
           /\ Cardinality(M) + Cardinality(R) = Cardinality(D)
<1> DEFINE F == {f[x] : x \in M}
           G == {g[y] : y \in R}
<1>1. F \cup G = D /\ F \cap G = {}
  OBVIOUS
<1>2. IsFiniteSet(F) /\ IsFiniteSet(G)
  BY <1>1, FS_Subset
<1>3. f \in Bijection(M, F)
  <2>1. f \in [M -> F]
    OBVIOUS
  <2>2. QED BY <2>1, Fun_IsBij
<1>4. g \in Bijection(R, G)
  <2>1. g \in [R -> G]
    OBVIOUS
  <2>2. QED BY <2>1, Fun_IsBij
<1>5. ExistsBijection(F, M) /\ ExistsBijection(G, R)
  <2>1. ExistsBijection(M, F) /\ ExistsBijection(R, G)
    BY <1>3, <1>4, Fun_ExistsBij
  <2>2. QED BY <2>1, Fun_ExistsBijSymmetric
<1>6. /\ IsFiniteSet(M) /\ Cardinality(M) = Cardinality(F)
      /\ IsFiniteSet(R) /\ Cardinality(R) = Cardinality(G)
  <2> HIDE DEF F, G
  <2>1. QED BY <1>2, <1>5, FS_Bijection
<1>7. /\ Cardinality(F) \in Nat /\ Cardinality(G) \in Nat
  BY <1>2, FS_CardinalityType
<1>8. Cardinality(D) = Cardinality(F) + Cardinality(G)
  <2> HIDE DEF F, G
  <2>1. Cardinality(F \cup G) = Cardinality(F) + Cardinality(G) - Cardinality(F \cap G)
    BY <1>2, FS_Union
  <2>2. Cardinality(F \cup G) = Cardinality(D)
    BY <1>1, Zenon
  <2>3. Cardinality(F \cap G) = 0
    BY <1>1, FS_EmptySet, Zenon
  <2>4. QED BY <1>7, <2>1, <2>2, <2>3
<1>9. QED BY <1>6, <1>7, <1>8

(* A list has as many positions as it is long.                             *)
LEMMA Positions ==
    ASSUME NEW list \in Seq(Invoices)
    PROVE  /\ IsFiniteSet(DOMAIN list) /\ Cardinality(DOMAIN list) = Len(list)
           /\ Len(list) \in Nat
<1>1. Len(list) \in Nat /\ DOMAIN list = 1..Len(list)
  BY LenProperties, Zenon
<1>2. PICK n \in Nat : n = Len(list)
  BY <1>1
<1>3. IsFiniteSet(1..n) /\ Cardinality(1..n) = n
  <2>1. Cardinality(1..n) = IF 1 > n THEN 0 ELSE n - 1 + 1
    BY FS_Interval
  <2>2. QED BY <2>1, FS_Interval
<1>4. QED BY <1>1, <1>2, <1>3

-----------------------------------------------------------------------------
(* The invariant.                                                          *)

(* The ids of the lists are distinct, as the APIs give them.               *)
Distinct == DistinctIds(st) /\ DistinctIds(qb)

(* The QuickBooks ids loop 1 has matched; loop 2 adds those of its rows to *)
(* matchedQb.                                                              *)
Taken == matchedQb \ {row.qb : row \in rows}

(* A pairing of invoices that agree, of which the loops keep only the ids. *)
IsMatching(pairs) ==
    /\ pairs \subseteq Promise!Agreeing
    /\ Promise!Injective(pairs)
    /\ IsFiniteSet(pairs) /\ Cardinality(pairs) = matchedCount
    /\ matchedSt = {st[x[1]].id : x \in pairs}
    /\ Taken = {qb[x[2]].id : x \in pairs}
    /\ phase = "match" => \A x \in pairs : x[1] < at
SomeMatching ==
    /\ \E pairs \in SUBSET Promise!Agreeing : IsMatching(pairs)
    /\ phase = "match" => rows = {}

(* The invoices loop 1 has left over do not agree, whatever loop 2 takes.  *)
LeftoversDisagree ==
    phase # "match" =>
        \A i \in DOMAIN st, j \in DOMAIN qb :
            st[i].id \notin matchedSt /\ qb[j].id \notin Taken => ~Agree(st[i], qb[j])

(* Each row is about invoices its loop has visited; the first two kinds    *)
(* are of loop 2, the last one is of loop 3.                               *)
IsMismatch(row) ==
    /\ row.type = "amount_mismatch"
    /\ row.qb \in matchedQb
    /\ \E i \in DOMAIN st, j \in DOMAIN qb :
          /\ row.st = st[i].id /\ row.qb = qb[j].id
          /\ row.customer = st[i].customer /\ row.customer = qb[j].customer
          /\ phase = "explain_st" => i < at
IsMissingInQb(row) ==
    /\ row.type = "missing_in_quickbooks"
    /\ row.qb = NoId
    /\ \E i \in DOMAIN st :
          /\ row.st = st[i].id
          /\ row.customer = st[i].customer
          /\ phase = "explain_st" => i < at
IsMissingInSt(row) ==
    /\ row.type = "missing_in_servicetitan"
    /\ phase \in {"explain_qb", "summarise", "done"}
    /\ row.st = NoId
    /\ row.qb \notin matchedQb
    /\ \E j \in DOMAIN qb :
          /\ row.qb = qb[j].id
          /\ row.customer = qb[j].customer
          /\ phase = "explain_qb" => j < at
RowsSound ==
    \A row \in rows :
        /\ phase # "match"
        /\ row.st \notin matchedSt
        /\ IsMismatch(row) \/ IsMissingInQb(row) \/ IsMissingInSt(row)

(* No invoice is in two rows.                                              *)
RowsUnique ==
    \A a, b \in rows :
        \/ a.st = b.st /\ a.st # NoId
        \/ a.qb = b.qb /\ a.qb # NoId
        => a = b

(* The invoices the loops have visited are matched or in a row.            *)
StCovered ==
    \A i \in DOMAIN st :
        \/ phase = "explain_st" /\ i < at
        \/ phase \in {"explain_qb", "summarise", "done"}
        => st[i].id \in matchedSt \/ \E row \in rows : row.st = st[i].id
QbCovered ==
    \A j \in DOMAIN qb :
        \/ phase = "explain_qb" /\ j < at
        \/ phase \in {"summarise", "done"}
        => qb[j].id \in matchedQb \/ \E row \in rows : row.qb = qb[j].id

RunIsFigures == phase = "done" => run = Figures

Accounts ==
    /\ Distinct
    /\ SomeMatching
    /\ LeftoversDisagree
    /\ RowsSound
    /\ RowsUnique
    /\ StCovered
    /\ QbCovered
    /\ RunIsFigures

LEMMA DistinctStep ==
    ASSUME Distinct, [Next]_vars
    PROVE  Distinct'
BY ListsStay DEF Distinct, DistinctIds

(* The steps of the loops by what they do to the invariant's state.        *)
LEMMA OnlyLoop1Matches ==
    ASSUME TypeOK, [Next]_vars, ~MatchNext
    PROVE  /\ matchedSt' = matchedSt /\ matchedCount' = matchedCount
           /\ Taken' = Taken
           /\ phase' = "match" => phase = "match" /\ at <= at' /\ rows' = rows
<1> USE DEF Taken
<1>1. CASE ReportMismatch
  <2>1. PICK j \in DOMAIN qb : /\ IsFirst(j, MismatchCandidates(st[at]))
                               /\ rows' = rows \cup {AmountMismatch(st[at], qb[j])}
                               /\ matchedQb' = matchedQb \cup {qb[j].id}
    BY <1>1 DEF ReportMismatch
  <2>2. qb[j].id \notin matchedQb
    BY <2>1 DEF IsFirst, MismatchCandidates
  <2>3. {row.qb : row \in rows'} = {row.qb : row \in rows} \cup {qb[j].id}
    <3>1. AmountMismatch(st[at], qb[j]).qb = qb[j].id
      BY DEF AmountMismatch
    <3>2. QED BY <2>1, <3>1
  <2>4. Taken' = Taken
    BY <2>1, <2>2, <2>3
  <2>5. QED BY <1>1, <2>4 DEF ReportMismatch, InLoop
<1>2. CASE ReportMissingInQb
  <2>1. {row.qb : row \in rows'} = {row.qb : row \in rows} \cup {NoId}
    <3>1. MissingInQuickBooks(st[at]).qb = NoId
      BY DEF MissingInQuickBooks
    <3>2. QED BY <1>2, <3>1 DEF ReportMissingInQb
  <2>2. NoId \notin matchedQb
    BY MatchingAssumption DEF TypeOK
  <2>3. Taken' = Taken
    BY <1>2, <2>1, <2>2 DEF ReportMissingInQb
  <2>4. QED BY <1>2, <2>3 DEF ReportMissingInQb, InLoop
<1>3. CASE ReportMissingInSt
  <2>1. {row.qb : row \in rows'} = {row.qb : row \in rows} \cup {qb[at].id}
    <3>1. MissingInServiceTitan(qb[at]).qb = qb[at].id
      BY DEF MissingInServiceTitan
    <3>2. QED BY <1>3, <3>1 DEF ReportMissingInSt
  <2>2. Taken' = Taken
    BY <1>3, <2>1 DEF ReportMissingInSt
  <2>3. QED BY <1>3, <2>2 DEF ReportMissingInSt, InLoop
<1>4. CASE NoMatchNext \/ SkipMatchedSt \/ SkipMatchedQb \/ Summarise \/ UNCHANGED vars
  BY <1>4 DEF NoMatchNext, SkipMatchedSt, SkipMatchedQb, Summarise, vars, InLoop, TypeOK
<1>5. CASE \/ LoopEnds("match", st, "explain_st")
           \/ LoopEnds("explain_st", st, "explain_qb")
           \/ LoopEnds("explain_qb", qb, "summarise")
  BY <1>5 DEF LoopEnds
<1>6. QED BY <1>1, <1>2, <1>3, <1>4, <1>5 DEF Next, Loops, Finished

(* An invoice of a matching is one of the matched ids, at one position.    *)
LEMMA MatchedPositions ==
    ASSUME Distinct, NEW pairs, IsMatching(pairs)
    PROVE  /\ \A i \in DOMAIN st : st[i].id \in matchedSt => \E x \in pairs : x[1] = i
           /\ \A j \in DOMAIN qb : qb[j].id \in Taken => \E x \in pairs : x[2] = j
           /\ \A x \in pairs : /\ x[1] \in DOMAIN st /\ st[x[1]].id \in matchedSt
                               /\ x[2] \in DOMAIN qb /\ qb[x[2]].id \in Taken
                               /\ Agree(st[x[1]], qb[x[2]])
                               /\ x = <<x[1], x[2]>>
<1>1. \A x \in pairs : /\ x[1] \in DOMAIN st /\ st[x[1]].id \in matchedSt
                       /\ x[2] \in DOMAIN qb /\ qb[x[2]].id \in Taken
                       /\ Agree(st[x[1]], qb[x[2]])
                       /\ x = <<x[1], x[2]>>
  BY DEF IsMatching, Promise!Agreeing
<1>2. ASSUME NEW i \in DOMAIN st, st[i].id \in matchedSt
      PROVE  \E x \in pairs : x[1] = i
  <2>1. PICK x \in pairs : st[x[1]].id = st[i].id
    BY <1>2 DEF IsMatching
  <2>2. QED BY <1>1, <2>1 DEF Distinct, DistinctIds
<1>3. ASSUME NEW j \in DOMAIN qb, qb[j].id \in Taken
      PROVE  \E x \in pairs : x[2] = j
  <2>1. PICK x \in pairs : qb[x[2]].id = qb[j].id
    BY <1>3 DEF IsMatching
  <2>2. QED BY <1>1, <2>1 DEF Distinct, DistinctIds
<1>4. QED BY <1>1, <1>2, <1>3

(* Loop 1 extends the matching by the position it works on and a free one. *)
LEMMA MatchingGrows ==
    ASSUME TypeOK, Distinct, rows = {}, NEW pairs \in SUBSET Promise!Agreeing,
           IsMatching(pairs), MatchNext
    PROVE  \E more \in SUBSET Promise!Agreeing' : IsMatching(more)'
<1>1. /\ at \in DOMAIN st /\ phase = "match" /\ phase' = "match" /\ at' = at + 1
      /\ st' = st /\ qb' = qb /\ rows' = rows
      /\ matchedSt' = matchedSt \cup {st[at].id} /\ matchedCount' = matchedCount + 1
  BY Position DEF MatchNext, InLoop, TypeOK
<1>2. PICK j \in DOMAIN qb : /\ j \in MatchCandidates(st[at])
                             /\ matchedQb' = matchedQb \cup {qb[j].id}
  BY DEF MatchNext, IsFirst
<1>3. qb[j].id \notin matchedQb /\ Agree(st[at], qb[j])
  BY <1>2 DEF MatchCandidates
<1>p. PICK more : more = pairs \cup {<<at, j>>}
  OBVIOUS
<1>4. Taken = matchedQb /\ Taken' = matchedQb'
  BY <1>1 DEF Taken
<1>5. \A x \in pairs : x[1] # at /\ x[2] # j
  <2>1. \A x \in pairs : x[1] < at
    BY <1>1 DEF IsMatching
  <2>2. \A x \in pairs : qb[x[2]].id \in matchedQb
    BY <1>4 DEF IsMatching
  <2>3. QED BY <1>3, <2>1, <2>2 DEF TypeOK
<1>6. more \subseteq Promise!Agreeing'
  BY <1>1, <1>2, <1>3, <1>p DEF Promise!Agreeing, Agree
<1>7. Promise!Injective(more)
  BY <1>5, <1>p DEF IsMatching, Promise!Injective
<1>8. IsFiniteSet(more) /\ Cardinality(more) = matchedCount'
  <2>1. IsFiniteSet(pairs) /\ Cardinality(pairs) = matchedCount /\ <<at, j>> \notin pairs
    BY <1>5 DEF IsMatching
  <2>2. IsFiniteSet(pairs \cup {<<at, j>>})
        /\ Cardinality(pairs \cup {<<at, j>>}) = Cardinality(pairs) + 1
    BY <2>1, FS_AddElement
  <2>3. QED BY <1>1, <1>p, <2>1, <2>2
<1>9. /\ {st[x[1]].id : x \in more} = {st[x[1]].id : x \in pairs} \cup {st[at].id}
      /\ {qb[x[2]].id : x \in more} = {qb[x[2]].id : x \in pairs} \cup {qb[j].id}
  <2>1. <<at, j>>[1] = at /\ <<at, j>>[2] = j
    OBVIOUS
  <2>2. QED BY <1>p, <2>1
<1>10. matchedSt' = {st[x[1]].id : x \in more} /\ Taken' = {qb[x[2]].id : x \in more}
  BY <1>1, <1>2, <1>4, <1>9 DEF IsMatching
<1>11. \A x \in more : x[1] < at'
  BY <1>1, <1>p DEF IsMatching, TypeOK, Promise!Agreeing
<1>12. IsMatching(more)'
  <2>1. /\ (\A x \in more : x[1] < at)'
        /\ Promise!Injective(more)'
    BY <1>7, <1>11 DEF Promise!Injective
  <2>2. /\ (matchedSt = {st[x[1]].id : x \in more})'
        /\ (Taken = {qb[x[2]].id : x \in more})'
    BY <1>1, <1>10
  <2>3. QED BY <1>6, <1>8, <2>1, <2>2 DEF IsMatching
<1>13. QED BY <1>6, <1>12

LEMMA MatchingStep ==
    ASSUME TypeOK, Distinct, SomeMatching, [Next]_vars
    PROVE  SomeMatching'
<1>1. PICK pairs \in SUBSET Promise!Agreeing : IsMatching(pairs)
  BY DEF SomeMatching
<1>2. CASE MatchNext
  BY <1>1, <1>2, MatchingGrows DEF SomeMatching, MatchNext, InLoop
<1>3. CASE ~MatchNext
  <2>1. /\ matchedSt' = matchedSt /\ matchedCount' = matchedCount
        /\ Taken' = Taken /\ st' = st /\ qb' = qb
        /\ phase' = "match" => phase = "match" /\ at <= at' /\ rows' = rows
    BY <1>3, OnlyLoop1Matches, ListsStay
  <2>2. pairs \subseteq Promise!Agreeing'
    BY <2>1 DEF Promise!Agreeing, Agree
  <2>3. phase' = "match" => \A x \in pairs : x[1] < at'
    <3>1. at' \in Nat /\ at \in Nat
      BY TypeStep DEF TypeOK
    <3>2. \A x \in pairs : x[1] \in Nat
      BY DEF Promise!Agreeing, TypeOK
    <3>3. QED BY <1>1, <2>1, <3>1, <3>2 DEF IsMatching
  <2>4. IsMatching(pairs)'
    BY <1>1, <2>1, <2>2, <2>3 DEF IsMatching, Promise!Injective
  <2>5. QED BY <2>1, <2>2, <2>4 DEF SomeMatching
<1>4. QED BY <1>2, <1>3

(* The steps of each phase.                                                *)
LEMMA StepsOfPhase ==
    ASSUME [Next]_vars
    PROVE  /\ phase = "match" =>
                 \/ MatchNext \/ NoMatchNext \/ LoopEnds("match", st, "explain_st")
                 \/ UNCHANGED vars
           /\ phase = "explain_st" =>
                 \/ SkipMatchedSt \/ ReportMismatch \/ ReportMissingInQb
                 \/ LoopEnds("explain_st", st, "explain_qb") \/ UNCHANGED vars
           /\ phase = "explain_qb" =>
                 \/ SkipMatchedQb \/ ReportMissingInSt
                 \/ LoopEnds("explain_qb", qb, "summarise") \/ UNCHANGED vars
           /\ phase = "summarise" => Summarise \/ UNCHANGED vars
           /\ phase = "done" => UNCHANGED vars
BY DEF Next, Loops, InLoop, MatchNext, NoMatchNext, LoopEnds, SkipMatchedSt, ReportMismatch,
       ReportMissingInQb, SkipMatchedQb, ReportMissingInSt, Summarise, Finished

(* After loop 1 the phases only go on, and no id is added in loop 3.       *)
Late == {"explain_qb", "summarise", "done"}
LEMMA PhasesGoOn ==
    ASSUME TypeOK, phase # "match", [Next]_vars
    PROVE  /\ phase' # "match" /\ matchedSt' = matchedSt /\ rows \subseteq rows'
           /\ phase' = "explain_st" => phase = "explain_st" /\ at <= at'
           /\ phase \in Late => phase' \in Late /\ matchedQb' = matchedQb
           /\ phase = "explain_qb" /\ phase' = "explain_qb" => at <= at'
           /\ phase \in {"summarise", "done"} =>
                 phase' \in {"summarise", "done"} /\ rows' = rows
<1> USE DEF TypeOK, InLoop, Late
<1>1. CASE MatchNext \/ NoMatchNext \/ LoopEnds("match", st, "explain_st")
  BY <1>1 DEF MatchNext, NoMatchNext, LoopEnds
<1>2. CASE SkipMatchedSt \/ ReportMismatch \/ ReportMissingInQb
  BY <1>2 DEF SkipMatchedSt, ReportMismatch, ReportMissingInQb
<1>3. CASE SkipMatchedQb \/ ReportMissingInSt
  BY <1>3 DEF SkipMatchedQb, ReportMissingInSt
<1>4. CASE \/ LoopEnds("explain_st", st, "explain_qb")
           \/ LoopEnds("explain_qb", qb, "summarise")
  BY <1>4 DEF LoopEnds
<1>5. CASE Summarise \/ UNCHANGED vars
  BY <1>5 DEF Summarise, vars
<1>6. QED BY <1>1, <1>2, <1>3, <1>4, <1>5 DEF Next, Loops, Finished

LEMMA LeftoversStep ==
    ASSUME TypeOK, VisitedLeftovers, SomeMatching, LeftoversDisagree, [Next]_vars
    PROVE  LeftoversDisagree'
<1>1. CASE phase = "match" /\ phase' # "match"
  <2>1. ~Reports
    BY <1>1 DEF Reports, ReportMismatch, ReportMissingInQb, ReportMissingInSt, InLoop
  <2>2. rows' = {}
    BY <1>1, <2>1, OthersKeepRows DEF SomeMatching
  <2>3. Taken' = matchedQb'
    BY <2>2 DEF Taken
  <2>4. VisitedLeftovers'
    BY VisitedStep
  <2>5. QED BY <1>1, <2>3, <2>4 DEF VisitedLeftovers, LeftoversDisagree
<1>2. CASE phase # "match"
  <2>1. Taken' = Taken /\ matchedSt' = matchedSt /\ st' = st /\ qb' = qb
    BY <1>2, OnlyLoop1Matches, ListsStay DEF MatchNext, InLoop
  <2>2. QED BY <1>2, <2>1 DEF LeftoversDisagree, Agree
<1>3. QED BY <1>1, <1>2 DEF LeftoversDisagree

(* A row stays sound.                                                      *)
LEMMA RowStaysSound ==
    ASSUME TypeOK, RowsSound, NEW row \in rows, [Next]_vars
    PROVE  /\ phase' # "match"
           /\ row.st \notin matchedSt'
           /\ (IsMismatch(row) \/ IsMissingInQb(row) \/ IsMissingInSt(row))'
<1>1. /\ phase # "match" /\ row.st \notin matchedSt
      /\ IsMismatch(row) \/ IsMissingInQb(row) \/ IsMissingInSt(row)
  BY DEF RowsSound
<1>2. st' = st /\ qb' = qb /\ matchedQb \subseteq matchedQb' /\ at \in Nat /\ at' \in Nat
  BY ListsStay, TypeStep DEF TypeOK
<1>3. CASE IsMismatch(row)
  <2>1. PICK i \in DOMAIN st, j \in DOMAIN qb :
            /\ row.st = st[i].id /\ row.qb = qb[j].id
            /\ row.customer = st[i].customer /\ row.customer = qb[j].customer
            /\ phase = "explain_st" => i < at
    BY <1>3 DEF IsMismatch
  <2>2. phase' = "explain_st" => i < at'
    BY <1>1, <1>2, <2>1, PhasesGoOn DEF TypeOK
  <2>3. IsMismatch(row)'
    BY <1>2, <1>3, <2>1, <2>2 DEF IsMismatch
  <2>4. QED BY <1>1, <2>3, PhasesGoOn
<1>4. CASE IsMissingInQb(row)
  <2>1. PICK i \in DOMAIN st :
            /\ row.st = st[i].id /\ row.customer = st[i].customer
            /\ phase = "explain_st" => i < at
    BY <1>4 DEF IsMissingInQb
  <2>2. phase' = "explain_st" => i < at'
    BY <1>1, <1>2, <2>1, PhasesGoOn DEF TypeOK
  <2>3. IsMissingInQb(row)'
    BY <1>2, <1>4, <2>1, <2>2 DEF IsMissingInQb
  <2>4. QED BY <1>1, <2>3, PhasesGoOn
<1>5. CASE IsMissingInSt(row)
  <2>1. PICK j \in DOMAIN qb :
            /\ row.qb = qb[j].id /\ row.customer = qb[j].customer
            /\ phase = "explain_qb" => j < at
    BY <1>5 DEF IsMissingInSt
  <2>2. phase \in Late
    BY <1>5 DEF IsMissingInSt, Late
  <2>3. phase' \in Late /\ matchedQb' = matchedQb
    BY <1>1, <2>2, PhasesGoOn
  <2>4. phase' = "explain_qb" => j < at'
    <3>1. SUFFICES ASSUME phase' = "explain_qb" PROVE j < at'
      OBVIOUS
    <3>2. phase = "explain_qb"
      BY <2>2, <3>1, StepsOfPhase DEF Late, Summarise, vars
    <3>3. QED BY <1>1, <1>2, <2>1, <3>1, <3>2, PhasesGoOn DEF TypeOK
  <2>5. IsMissingInSt(row)'
    BY <1>2, <1>5, <2>1, <2>3, <2>4 DEF IsMissingInSt, Late
  <2>6. QED BY <1>1, <2>5, PhasesGoOn
<1>6. QED BY <1>1, <1>3, <1>4, <1>5

(* The row a step adds, and what it is about.                              *)
LEMMA NewMismatch ==
    ASSUME TypeOK, ReportMismatch
    PROVE  /\ phase = "explain_st" /\ phase' = "explain_st" /\ at' = at + 1
           /\ at \in DOMAIN st /\ st[at].id \notin matchedSt
           /\ \E j \in DOMAIN qb :
                 LET row == AmountMismatch(st[at], qb[j]) IN
                 /\ rows' = rows \cup {row}
                 /\ matchedQb' = matchedQb \cup {qb[j].id} /\ qb[j].id \notin matchedQb
                 /\ row.type = "amount_mismatch"
                 /\ row.st = st[at].id /\ row.qb = qb[j].id
                 /\ row.customer = st[at].customer /\ row.customer = qb[j].customer
<1>1. PICK j \in DOMAIN qb : /\ IsFirst(j, MismatchCandidates(st[at]))
                             /\ rows' = rows \cup {AmountMismatch(st[at], qb[j])}
                             /\ matchedQb' = matchedQb \cup {qb[j].id}
  BY DEF ReportMismatch
<1>2. qb[j].id \notin matchedQb /\ qb[j].customer = st[at].customer
  BY <1>1 DEF IsFirst, MismatchCandidates
<1>3. LET row == AmountMismatch(st[at], qb[j]) IN
      /\ row.type = "amount_mismatch" /\ row.st = st[at].id /\ row.qb = qb[j].id
      /\ row.customer = st[at].customer
  BY DEF AmountMismatch
<1>4. /\ phase = "explain_st" /\ phase' = "explain_st" /\ at' = at + 1
      /\ at \in DOMAIN st /\ st[at].id \notin matchedSt
  BY Position DEF ReportMismatch, InLoop, TypeOK
<1>5. QED BY <1>1, <1>2, <1>3, <1>4

LEMMA NewMissing ==
    ASSUME TypeOK
    PROVE  /\ ReportMissingInQb =>
                LET row == MissingInQuickBooks(st[at]) IN
                /\ phase = "explain_st" /\ phase' = "explain_st" /\ at' = at + 1
                /\ at \in DOMAIN st /\ st[at].id \notin matchedSt
                /\ rows' = rows \cup {row}
                /\ row.type = "missing_in_quickbooks" /\ row.st = st[at].id
                /\ row.qb = NoId /\ row.customer = st[at].customer
           /\ ReportMissingInSt =>
                LET row == MissingInServiceTitan(qb[at]) IN
                /\ phase = "explain_qb" /\ phase' = "explain_qb" /\ at' = at + 1
                /\ at \in DOMAIN qb /\ qb[at].id \notin matchedQb
                /\ rows' = rows \cup {row} /\ matchedQb' = matchedQb
                /\ row.type = "missing_in_servicetitan" /\ row.qb = qb[at].id
                /\ row.st = NoId /\ row.customer = qb[at].customer
BY Position DEF ReportMissingInQb, ReportMissingInSt, MissingInQuickBooks,
                MissingInServiceTitan, InLoop, TypeOK

LEMMA RowsSoundStep ==
    ASSUME TypeOK, RowsSound, [Next]_vars
    PROVE  RowsSound'
<1> SUFFICES ASSUME NEW row \in rows', row \notin rows
             PROVE  /\ phase' # "match"
                    /\ row.st \notin matchedSt'
                    /\ (IsMismatch(row) \/ IsMissingInQb(row) \/ IsMissingInSt(row))'
  BY RowStaysSound DEF RowsSound
<1>1. st' = st /\ qb' = qb
  BY ListsStay
<1>2. CASE ReportMismatch
  <2>1. PICK j \in DOMAIN qb :
            /\ row.type = "amount_mismatch" /\ qb[j].id \in matchedQb'
            /\ row.st = st[at].id /\ row.qb = qb[j].id
            /\ row.customer = st[at].customer /\ row.customer = qb[j].customer
    BY <1>2, NewMismatch
  <2>2. at \in DOMAIN st /\ at < at' /\ phase' # "match" /\ st[at].id \notin matchedSt'
    BY <1>2, NewMismatch, PhasesGoOn DEF TypeOK
  <2>3. IsMismatch(row)'
    BY <1>1, <2>1, <2>2 DEF IsMismatch
  <2>4. QED BY <2>1, <2>2, <2>3
<1>3. CASE ReportMissingInQb
  <2>1. /\ row.type = "missing_in_quickbooks" /\ row.st = st[at].id
        /\ row.qb = NoId /\ row.customer = st[at].customer
    BY <1>3, NewMissing
  <2>2. at \in DOMAIN st /\ at < at' /\ phase' # "match" /\ st[at].id \notin matchedSt'
    BY <1>3, NewMissing, PhasesGoOn DEF TypeOK
  <2>3. IsMissingInQb(row)'
    BY <1>1, <2>1, <2>2 DEF IsMissingInQb
  <2>4. QED BY <2>1, <2>2, <2>3
<1>4. CASE ReportMissingInSt
  <2>1. /\ row.type = "missing_in_servicetitan" /\ row.qb = qb[at].id
        /\ row.st = NoId /\ row.customer = qb[at].customer
    BY <1>4, NewMissing
  <2>2. /\ at \in DOMAIN qb /\ at < at' /\ phase' = "explain_qb"
        /\ qb[at].id \notin matchedQb' /\ matchedSt' = matchedSt
    BY <1>4, NewMissing, PhasesGoOn DEF TypeOK
  <2>3. IsMissingInSt(row)'
    BY <1>1, <2>1, <2>2 DEF IsMissingInSt
  <2>4. NoId \notin matchedSt
    BY MatchingAssumption DEF TypeOK
  <2>5. QED BY <2>1, <2>2, <2>3, <2>4
<1>5. QED BY <1>2, <1>3, <1>4, OthersKeepRows DEF Reports

(* What a sound row names are ids.                                         *)
LEMMA RowsNameInvoices ==
    ASSUME TypeOK, RowsSound, NEW row \in rows
    PROVE  /\ row.st # NoId => \E i \in DOMAIN st : row.st = st[i].id /\ (phase = "explain_st" => i < at)
           /\ row.qb # NoId => \E j \in DOMAIN qb : row.qb = qb[j].id
           /\ row.st # NoId \/ row.qb # NoId
<1>1. \A i \in DOMAIN st : st[i].id # NoId
  BY Element, MatchingAssumption DEF TypeOK
<1>2. \A j \in DOMAIN qb : qb[j].id # NoId
  BY Element, MatchingAssumption DEF TypeOK
<1>3. IsMismatch(row) \/ IsMissingInQb(row) \/ IsMissingInSt(row)
  BY DEF RowsSound
<1>4. QED BY <1>1, <1>2, <1>3 DEF IsMismatch, IsMissingInQb, IsMissingInSt

LEMMA RowsUniqueStep ==
    ASSUME TypeOK, Distinct, RowsSound, RowsUnique, [Next]_vars
    PROVE  RowsUnique'
<1>1. CASE ReportMismatch
  <2>1. PICK j \in DOMAIN qb :
            LET row == AmountMismatch(st[at], qb[j]) IN
            /\ rows' = rows \cup {row} /\ qb[j].id \notin matchedQb
            /\ row.st = st[at].id /\ row.qb = qb[j].id
    BY <1>1, NewMismatch
  <2>2. phase = "explain_st" /\ at \in DOMAIN st
    BY <1>1, NewMismatch
  <2>3. ASSUME NEW b \in rows
        PROVE  b.st # st[at].id /\ b.qb # qb[j].id
    <3>1. IsMismatch(b) \/ IsMissingInQb(b)
      BY <2>2 DEF RowsSound, IsMissingInSt
    <3>2. b.st # st[at].id
      BY <2>2, <3>1 DEF IsMismatch, IsMissingInQb, Distinct, DistinctIds, TypeOK
    <3>3. b.qb # qb[j].id
      <4>1. qb[j].id # NoId
        BY Element, MatchingAssumption DEF TypeOK
      <4>2. QED BY <2>1, <3>1, <4>1 DEF IsMismatch, IsMissingInQb
    <3>4. QED BY <3>2, <3>3
  <2>4. QED BY <2>1, <2>3 DEF RowsUnique
<1>2. CASE ReportMissingInQb
  <2> DEFINE row == MissingInQuickBooks(st[at])
  <2>1. /\ phase = "explain_st" /\ at \in DOMAIN st
        /\ rows' = rows \cup {row} /\ row.st = st[at].id /\ row.qb = NoId
    BY <1>2, NewMissing
  <2>2. ASSUME NEW b \in rows
        PROVE  b.st # st[at].id
    <3>1. IsMismatch(b) \/ IsMissingInQb(b)
      BY <2>1 DEF RowsSound, IsMissingInSt
    <3>2. QED BY <2>1, <3>1 DEF IsMismatch, IsMissingInQb, Distinct, DistinctIds, TypeOK
  <2> HIDE DEF row
  <2>3. QED BY <2>1, <2>2 DEF RowsUnique
<1>3. CASE ReportMissingInSt
  <2> DEFINE row == MissingInServiceTitan(qb[at])
  <2>1. /\ phase = "explain_qb" /\ at \in DOMAIN qb /\ qb[at].id \notin matchedQb
        /\ rows' = rows \cup {row} /\ row.qb = qb[at].id /\ row.st = NoId
    BY <1>3, NewMissing
  <2>2. ASSUME NEW b \in rows
        PROVE  b.qb # qb[at].id
    <3>1. qb[at].id # NoId
      BY <2>1, Element, MatchingAssumption DEF TypeOK
    <3>2. IsMismatch(b) \/ IsMissingInQb(b) \/ IsMissingInSt(b)
      BY DEF RowsSound
    <3>3. QED BY <2>1, <3>1, <3>2
              DEF IsMismatch, IsMissingInQb, IsMissingInSt, Distinct, DistinctIds, TypeOK
  <2> HIDE DEF row
  <2>3. QED BY <2>1, <2>2 DEF RowsUnique
<1>4. QED BY <1>1, <1>2, <1>3, OthersKeepRows DEF Reports, RowsUnique

LEMMA StCoveredStep ==
    ASSUME TypeOK, StCovered, [Next]_vars
    PROVE  StCovered'
<1>1. st' = st /\ at \in Nat \ {0}
  BY ListsStay DEF TypeOK
<1>2. CASE phase = "match"
  <2>1. phase' = "match" \/ (phase' = "explain_st" /\ at' = 1)
    BY <1>2, StepsOfPhase DEF MatchNext, NoMatchNext, LoopEnds, vars
  <2>2. QED BY <1>1, <2>1 DEF StCovered, TypeOK
<1>3. CASE phase = "explain_st"
  <2>1. matchedSt' = matchedSt /\ rows \subseteq rows'
    BY <1>3, PhasesGoOn
  <2> SUFFICES ASSUME NEW i \in DOMAIN st, phase' = "explain_st" => i < at'
               PROVE  st[i].id \in matchedSt \/ \E row \in rows' : row.st = st[i].id
    BY <1>1, <2>1 DEF StCovered
  <2>2. CASE i < at
    BY <1>3, <2>1, <2>2 DEF StCovered
  <2>3. CASE i >= at
    <3>1. ~LoopEnds("explain_st", st, "explain_qb") /\ ~UNCHANGED vars
      BY <1>1, <1>3, <2>3 DEF LoopEnds, vars, TypeOK
    <3>2. SkipMatchedSt \/ ReportMismatch \/ ReportMissingInQb
      BY <1>3, <3>1, StepsOfPhase
    <3>3. i = at
      BY <1>1, <2>3, <3>2
         DEF SkipMatchedSt, ReportMismatch, ReportMissingInQb, InLoop, TypeOK
    <3>4. CASE SkipMatchedSt
      BY <3>3, <3>4 DEF SkipMatchedSt
    <3>5. CASE ReportMismatch
      BY <3>3, <3>5, NewMismatch
    <3>6. CASE ReportMissingInQb
      BY <3>3, <3>6, NewMissing
    <3>7. QED BY <3>2, <3>4, <3>5, <3>6
  <2>4. QED BY <1>1, <2>2, <2>3 DEF TypeOK
<1>4. CASE phase \in Late
  <2>1. matchedSt' = matchedSt /\ rows \subseteq rows'
    BY <1>4, PhasesGoOn DEF Late
  <2>2. QED BY <1>1, <1>4, <2>1 DEF StCovered, Late
<1>5. QED BY <1>2, <1>3, <1>4 DEF TypeOK, Phases, Late

LEMMA QbCoveredStep ==
    ASSUME TypeOK, QbCovered, [Next]_vars
    PROVE  QbCovered'
<1>1. qb' = qb /\ at \in Nat \ {0}
  BY ListsStay DEF TypeOK
<1>2. CASE phase \in {"match", "explain_st"}
  <2>1. phase' \in {"match", "explain_st"} \/ (phase' = "explain_qb" /\ at' = 1)
    BY <1>2, StepsOfPhase
       DEF MatchNext, NoMatchNext, LoopEnds, SkipMatchedSt, ReportMismatch,
           ReportMissingInQb, vars, InLoop
  <2>2. QED BY <1>1, <2>1 DEF QbCovered, TypeOK
<1>3. CASE phase = "explain_qb"
  <2>1. matchedQb' = matchedQb /\ rows \subseteq rows'
    BY <1>3, PhasesGoOn DEF Late
  <2> SUFFICES ASSUME NEW j \in DOMAIN qb, phase' = "explain_qb" => j < at'
               PROVE  qb[j].id \in matchedQb \/ \E row \in rows' : row.qb = qb[j].id
    BY <1>1, <2>1 DEF QbCovered
  <2>2. CASE j < at
    BY <1>3, <2>1, <2>2 DEF QbCovered
  <2>3. CASE j >= at
    <3>1. ~LoopEnds("explain_qb", qb, "summarise") /\ ~UNCHANGED vars
      BY <1>1, <1>3, <2>3 DEF LoopEnds, vars, TypeOK
    <3>2. SkipMatchedQb \/ ReportMissingInSt
      BY <1>3, <3>1, StepsOfPhase
    <3>3. j = at
      BY <1>1, <2>3, <3>2 DEF SkipMatchedQb, ReportMissingInSt, InLoop, TypeOK
    <3>4. CASE SkipMatchedQb
      BY <3>3, <3>4 DEF SkipMatchedQb
    <3>5. CASE ReportMissingInSt
      BY <3>3, <3>5, NewMissing
    <3>6. QED BY <3>2, <3>4, <3>5
  <2>4. QED BY <1>1, <2>2, <2>3 DEF TypeOK
<1>4. CASE phase \in {"summarise", "done"}
  <2>1. matchedQb' = matchedQb /\ rows' = rows
    BY <1>4, PhasesGoOn DEF Late
  <2>2. QED BY <1>1, <1>4, <2>1 DEF QbCovered
<1>5. QED BY <1>2, <1>3, <1>4 DEF TypeOK, Phases

LEMMA FiguresStep ==
    ASSUME TypeOK, RunIsFigures, [Next]_vars
    PROVE  RunIsFigures'
<1> USE DEF RunIsFigures, Figures, Unmatched, Distance, Larger
<1>1. CASE phase = "summarise"
  BY <1>1, StepsOfPhase DEF Summarise, vars
<1>2. CASE phase = "done"
  BY <1>2, StepsOfPhase DEF vars
<1>3. CASE phase \notin {"summarise", "done"}
  <2>1. phase' # "done"
    BY <1>3, StepsOfPhase
       DEF MatchNext, NoMatchNext, LoopEnds, SkipMatchedSt, ReportMismatch,
           ReportMissingInQb, SkipMatchedQb, ReportMissingInSt, vars, InLoop, TypeOK, Phases
  <2>2. QED BY <2>1
<1>4. QED BY <1>1, <1>2, <1>3

(* The accounts hold in every reachable state.                             *)
THEOREM AccountsKept == Spec => []Accounts
<1>1. Init => Accounts
  <2> SUFFICES ASSUME Init PROVE Accounts
    OBVIOUS
  <2>1. st \in Seq(Invoices) /\ qb \in Seq(Invoices) /\ Distinct /\ Ready
    BY MatchingAssumption DEF Init, Distinct
  <2>2. SomeMatching
    <3>1. IsFiniteSet({}) /\ Cardinality({}) = 0
      BY FS_EmptySet
    <3>2. IsMatching({})
      BY <2>1, <3>1 DEF Ready, IsMatching, Taken, Promise!Injective
    <3>3. QED BY <2>1, <3>2 DEF Ready, SomeMatching
  <2>3. LeftoversDisagree /\ RowsSound /\ RowsUnique /\ StCovered /\ QbCovered /\ RunIsFigures
    BY <2>1 DEF Ready, LeftoversDisagree, RowsSound, RowsUnique, StCovered, QbCovered,
                RunIsFigures
  <2>4. QED BY <2>1, <2>2, <2>3 DEF Accounts
<1>2. TypeOK /\ VisitedLeftovers /\ Accounts /\ [Next]_vars => Accounts'
  BY DistinctStep, MatchingStep, LeftoversStep, RowsSoundStep, RowsUniqueStep,
     StCoveredStep, QbCoveredStep, FiguresStep DEF Accounts
<1>3. QED BY <1>1, <1>2, TypeCorrect, VisitedAlways, PTL DEF Spec

-----------------------------------------------------------------------------
(* Every invoice is accounted for once.                                    *)

Over == phase \in {"summarise", "done"}
StRows == {row \in rows : row.st # NoId}
QbRows == {row \in rows : row.qb # NoId}

(* At the end the ServiceTitan invoices are those of the matching and      *)
(* those of the rows that name one.                                        *)
LEMMA StSideAddsUp ==
    ASSUME TypeOK, Accounts, Over
    PROVE  /\ IsFiniteSet(StRows) /\ Cardinality(StRows) \in Nat
           /\ matchedCount + Cardinality(StRows) = Len(st)
<1>1. PICK pairs \in SUBSET Promise!Agreeing : IsMatching(pairs)
  BY DEF Accounts, SomeMatching
<1>2. \A row \in StRows : \E i \in DOMAIN st : st[i].id = row.st
  BY RowsNameInvoices DEF StRows, Accounts
<1> DEFINE f == [x \in pairs |-> x[1]]
           g == [row \in StRows |-> CHOOSE i \in DOMAIN st : st[i].id = row.st]
<1>3. \A row \in StRows : g[row] \in DOMAIN st /\ st[g[row]].id = row.st
  BY <1>2
<1>4. f \in [pairs -> DOMAIN st] /\ \A x, y \in pairs : f[x] = f[y] => x = y
  BY <1>1, MatchedPositions DEF IsMatching, Promise!Injective, Accounts
<1>5. g \in [StRows -> DOMAIN st] /\ \A a, b \in StRows : g[a] = g[b] => a = b
  <2>1. g \in [StRows -> DOMAIN st]
    BY <1>3
  <2> HIDE DEF g
  <2>2. QED BY <1>3, <2>1 DEF StRows, RowsUnique, Accounts
<1>6. \A x \in pairs, row \in StRows : f[x] # g[row]
  <2>1. \A row \in StRows : st[g[row]].id \notin matchedSt
    BY <1>3 DEF StRows, RowsSound, Accounts
  <2>2. \A x \in pairs : st[f[x]].id \in matchedSt
    BY <1>1, MatchedPositions DEF Accounts
  <2> HIDE DEF f, g
  <2>3. QED BY <2>1, <2>2
<1>7. \A i \in DOMAIN st : (\E x \in pairs : f[x] = i) \/ (\E row \in StRows : g[row] = i)
  <2> SUFFICES ASSUME NEW i \in DOMAIN st, ~\E x \in pairs : f[x] = i
               PROVE  \E row \in StRows : g[row] = i
    OBVIOUS
  <2>1. st[i].id \notin matchedSt
    BY <1>1, MatchedPositions DEF Accounts
  <2>2. PICK row \in rows : row.st = st[i].id
    BY <2>1 DEF Accounts, StCovered, Over
  <2>3. st[i].id # NoId
    BY Element, MatchingAssumption DEF TypeOK
  <2>4. row \in StRows
    BY <2>2, <2>3 DEF StRows
  <2> HIDE DEF g
  <2>5. g[row] = i
    BY <1>3, <2>2, <2>4 DEF Accounts, Distinct, DistinctIds
  <2>6. QED BY <2>4, <2>5
<1>8. /\ IsFiniteSet(DOMAIN st) /\ Cardinality(DOMAIN st) = Len(st)
  BY Positions DEF TypeOK
<1> HIDE DEF f, g
<1>9. /\ IsFiniteSet(StRows) /\ Cardinality(StRows) \in Nat
      /\ Cardinality(pairs) + Cardinality(StRows) = Cardinality(DOMAIN st)
  BY <1>4, <1>5, <1>6, <1>7, <1>8, PartsAddUp
<1>10. QED BY <1>1, <1>8, <1>9 DEF IsMatching

(* At the end the QuickBooks invoices are those of the matching and those  *)
(* of the rows that name one.                                              *)
LEMMA QbSideAddsUp ==
    ASSUME TypeOK, Accounts, Over
    PROVE  /\ IsFiniteSet(QbRows) /\ Cardinality(QbRows) \in Nat
           /\ matchedCount + Cardinality(QbRows) = Len(qb)
<1>1. PICK pairs \in SUBSET Promise!Agreeing : IsMatching(pairs)
  BY DEF Accounts, SomeMatching
<1>2. \A row \in QbRows : \E j \in DOMAIN qb : qb[j].id = row.qb
  BY RowsNameInvoices DEF QbRows, Accounts
<1> DEFINE f == [x \in pairs |-> x[2]]
           g == [row \in QbRows |-> CHOOSE j \in DOMAIN qb : qb[j].id = row.qb]
<1>3. \A row \in QbRows : g[row] \in DOMAIN qb /\ qb[g[row]].id = row.qb
  BY <1>2
<1>4. f \in [pairs -> DOMAIN qb] /\ \A x, y \in pairs : f[x] = f[y] => x = y
  BY <1>1, MatchedPositions DEF IsMatching, Promise!Injective, Accounts
<1>5. g \in [QbRows -> DOMAIN qb] /\ \A a, b \in QbRows : g[a] = g[b] => a = b
  <2>1. g \in [QbRows -> DOMAIN qb]
    BY <1>3
  <2> HIDE DEF g
  <2>2. QED BY <1>3, <2>1 DEF QbRows, RowsUnique, Accounts
<1>6. \A x \in pairs, row \in QbRows : f[x] # g[row]
  <2>1. \A row \in QbRows : qb[g[row]].id \notin Taken
    BY <1>3 DEF QbRows, Taken
  <2>2. \A x \in pairs : qb[f[x]].id \in Taken
    BY <1>1, MatchedPositions DEF Accounts
  <2> HIDE DEF f, g
  <2>3. QED BY <2>1, <2>2
<1>7. \A j \in DOMAIN qb : (\E x \in pairs : f[x] = j) \/ (\E row \in QbRows : g[row] = j)
  <2> SUFFICES ASSUME NEW j \in DOMAIN qb, ~\E x \in pairs : f[x] = j
               PROVE  \E row \in QbRows : g[row] = j
    OBVIOUS
  <2>1. qb[j].id \notin Taken
    BY <1>1, MatchedPositions DEF Accounts
  <2>2. PICK row \in rows : row.qb = qb[j].id
    BY <2>1 DEF Accounts, QbCovered, Over, Taken
  <2>3. qb[j].id # NoId
    BY Element, MatchingAssumption DEF TypeOK
  <2>4. row \in QbRows
    BY <2>2, <2>3 DEF QbRows
  <2> HIDE DEF g
  <2>5. g[row] = j
    BY <1>3, <2>2, <2>4 DEF Accounts, Distinct, DistinctIds
  <2>6. QED BY <2>4, <2>5
<1>8. /\ IsFiniteSet(DOMAIN qb) /\ Cardinality(DOMAIN qb) = Len(qb)
  BY Positions DEF TypeOK
<1> HIDE DEF f, g
<1>9. /\ IsFiniteSet(QbRows) /\ Cardinality(QbRows) \in Nat
      /\ Cardinality(pairs) + Cardinality(QbRows) = Cardinality(DOMAIN qb)
  BY <1>4, <1>5, <1>6, <1>7, <1>8, PartsAddUp
<1>10. QED BY <1>1, <1>8, <1>9 DEF IsMatching

(* For lists of any length, no invoice is dropped and none is explained    *)
(* twice.                                                                  *)
THEOREM AccountedOnce == Spec => []EveryInvoiceAccountedOnce
<1>1. TypeOK /\ Accounts => EveryInvoiceAccountedOnce
  <2> SUFFICES ASSUME TypeOK, Accounts, Over
               PROVE  /\ \A i \in DOMAIN st :
                            Cardinality(RowsOfSt(st[i]))
                                = (IF st[i].id \in matchedSt THEN 0 ELSE 1)
                      /\ \A j \in DOMAIN qb : Cardinality(RowsOfQb(qb[j])) <= 1
                      /\ matchedCount + Cardinality(StRows) = Len(st)
                      /\ matchedCount + Cardinality(QbRows) = Len(qb)
    BY DEF EveryInvoiceAccountedOnce, Over, StRows, QbRows
  <2>1. ASSUME NEW i \in DOMAIN st
        PROVE  Cardinality(RowsOfSt(st[i])) = (IF st[i].id \in matchedSt THEN 0 ELSE 1)
    <3>1. CASE st[i].id \in matchedSt
      <4>1. RowsOfSt(st[i]) = {}
        BY <3>1 DEF RowsOfSt, RowsSound, Accounts
      <4>2. QED BY <3>1, <4>1, FS_EmptySet
    <3>2. CASE st[i].id \notin matchedSt
      <4>1. PICK row \in rows : row.st = st[i].id
        BY <3>2 DEF Accounts, StCovered, Over
      <4>2. st[i].id # NoId
        BY Element, MatchingAssumption DEF TypeOK
      <4>3. RowsOfSt(st[i]) = {row}
        BY <4>1, <4>2 DEF RowsOfSt, RowsUnique, Accounts
      <4>4. QED BY <3>2, <4>3, FS_Singleton
    <3>3. QED BY <3>1, <3>2
  <2>2. ASSUME NEW j \in DOMAIN qb
        PROVE  Cardinality(RowsOfQb(qb[j])) <= 1
    <3>1. qb[j].id # NoId
      BY Element, MatchingAssumption DEF TypeOK
    <3>2. RowsOfQb(qb[j]) = {} \/ \E row : RowsOfQb(qb[j]) = {row}
      BY <3>1 DEF RowsOfQb, RowsUnique, Accounts
    <3>3. Cardinality(RowsOfQb(qb[j])) = 0 \/ Cardinality(RowsOfQb(qb[j])) = 1
      BY <3>2, FS_EmptySet, FS_Singleton
    <3>4. QED BY <3>3
  <2>3. QED BY <2>1, <2>2, StSideAddsUp, QbSideAddsUp
<1>2. QED BY <1>1, AccountsKept, TypeCorrect, PTL

(* A run has no rows exactly if its matches are as many as each list.      *)
LEMMA NoRowsMeansAllMatched ==
    ASSUME TypeOK, Accounts, Over
    PROVE  rows = {} <=> matchedCount = Len(st) /\ matchedCount = Len(qb)
<1>1. rows = {} <=> StRows = {} /\ QbRows = {}
  BY RowsNameInvoices DEF StRows, QbRows, Accounts
<1>2. /\ StRows = {} <=> Cardinality(StRows) = 0
      /\ QbRows = {} <=> Cardinality(QbRows) = 0
  BY StSideAddsUp, QbSideAddsUp, FS_EmptySet
<1>3. matchedCount \in Nat /\ Len(st) \in Nat /\ Len(qb) \in Nat
  BY DEF TypeOK
<1>4. QED BY <1>1, <1>2, <1>3, StSideAddsUp, QbSideAddsUp

(* The kind of a row follows from what it names.                           *)
LEMMA RowKinds ==
    ASSUME TypeOK, Accounts, NEW row \in rows
    PROVE  /\ row.type = "amount_mismatch" =>
                \E i \in DOMAIN st, j \in DOMAIN qb :
                    /\ row.st = st[i].id /\ row.qb = qb[j].id
                    /\ st[i].customer = qb[j].customer
                    /\ row.customer = st[i].customer /\ row.qb \in matchedQb
           /\ row.type = "missing_in_quickbooks" =>
                \E i \in DOMAIN st : /\ row.st = st[i].id /\ row.qb = NoId
                                     /\ row.customer = st[i].customer
           /\ row.type = "missing_in_servicetitan" =>
                \E j \in DOMAIN qb : /\ row.qb = qb[j].id /\ row.st = NoId
                                     /\ row.qb \notin matchedQb
                                     /\ row.customer = qb[j].customer
           /\ row.type \in {"amount_mismatch", "missing_in_quickbooks",
                            "missing_in_servicetitan"}
           /\ row.st \notin matchedSt /\ row.qb \notin Taken
<1>1. row.st \notin matchedSt /\ (IsMismatch(row) \/ IsMissingInQb(row) \/ IsMissingInSt(row))
  BY DEF Accounts, RowsSound
<1>2. row.qb \notin Taken
  BY DEF Taken
<1>3. QED BY <1>1, <1>2 DEF IsMismatch, IsMissingInQb, IsMissingInSt

(* A mismatch is a row of both lists, any other row is one of one list.    *)
LEMMA MismatchesCountTwice ==
    ASSUME TypeOK, Accounts, Over
    PROVE  /\ Cardinality(rows) \in Nat
           /\ Cardinality(RowsOfType("amount_mismatch")) \in Nat
           /\ Cardinality(StRows) + Cardinality(QbRows)
                 = Cardinality(rows) + Cardinality(RowsOfType("amount_mismatch"))
<1>1. StRows \cup QbRows = rows
  BY RowsNameInvoices DEF StRows, QbRows, Accounts
<1>2. StRows \cap QbRows = RowsOfType("amount_mismatch")
  <2>1. /\ \A i \in DOMAIN st : st[i].id # NoId
        /\ \A j \in DOMAIN qb : qb[j].id # NoId
    BY Element, MatchingAssumption DEF TypeOK
  <2>2. \A row \in rows : row.st # NoId /\ row.qb # NoId <=> row.type = "amount_mismatch"
    BY <2>1, RowKinds
  <2>3. QED BY <2>2 DEF StRows, QbRows, RowsOfType
<1>3. /\ IsFiniteSet(StRows \cup QbRows)
      /\ Cardinality(StRows \cup QbRows)
            = Cardinality(StRows) + Cardinality(QbRows) - Cardinality(StRows \cap QbRows)
  BY StSideAddsUp, QbSideAddsUp, FS_Union
<1>4. IsFiniteSet(StRows \cap QbRows)
  BY <1>3, FS_Subset
<1>5. Cardinality(StRows \cup QbRows) \in Nat /\ Cardinality(StRows \cap QbRows) \in Nat
  BY <1>3, <1>4, FS_CardinalityType
<1>6. /\ Cardinality(StRows \cup QbRows) = Cardinality(rows)
      /\ Cardinality(StRows \cap QbRows) = Cardinality(RowsOfType("amount_mismatch"))
  BY <1>1, <1>2, Zenon
<1>7. Cardinality(StRows) \in Nat /\ Cardinality(QbRows) \in Nat
  BY StSideAddsUp, QbSideAddsUp
<1>8. QED BY <1>3, <1>5, <1>6, <1>7

(* For lists of any length the figures of a run follow from its rows: full *)
(* health from their absence, discrepancy_count from their number, the     *)
(* mismatches counted twice.                                               *)
THEOREM FiguresSound == Spec => []FiguresFollowTheRows
<1>1. TypeOK /\ Accounts => FiguresFollowTheRows
  <2> SUFFICES ASSUME TypeOK, Accounts, phase = "done"
               PROVE  /\ run.matched = run.of <=> rows = {}
                      /\ run.discrepancies =
                            Cardinality(rows) + Cardinality(RowsOfType("amount_mismatch"))
    BY DEF FiguresFollowTheRows
  <2>1. run = Figures /\ Over
    BY DEF Accounts, RunIsFigures, Over
  <2>2. /\ matchedCount \in Nat /\ Len(st) \in Nat /\ Len(qb) \in Nat
        /\ matchedCount <= Len(st) /\ matchedCount <= Len(qb)
    BY <2>1, StSideAddsUp, QbSideAddsUp DEF TypeOK
  <2>3. run.matched = run.of <=> matchedCount = Len(st) /\ matchedCount = Len(qb)
    BY <2>1, <2>2 DEF Figures, Larger
  <2>4. run.discrepancies = (Len(st) - matchedCount) + (Len(qb) - matchedCount)
    <3>1. /\ Unmatched(st) = Len(st) - matchedCount
          /\ Unmatched(qb) = Len(qb) - matchedCount
      BY <2>2 DEF Unmatched, Distance
    <3>2. CASE Larger(Len(st), Len(qb)) = 0
      BY <2>1, <2>2, <3>2 DEF Figures, Larger
    <3>3. CASE Larger(Len(st), Len(qb)) # 0
      BY <2>1, <3>1, <3>3 DEF Figures
    <3>4. QED BY <3>2, <3>3
  <2>5. /\ Cardinality(StRows) = Len(st) - matchedCount
        /\ Cardinality(QbRows) = Len(qb) - matchedCount
    BY <2>1, <2>2, StSideAddsUp, QbSideAddsUp
  <2>6. QED BY <2>1, <2>3, <2>4, <2>5, NoRowsMeansAllMatched, MismatchesCountTwice
<1>2. QED BY <1>1, AccountsKept, TypeCorrect, PTL

-----------------------------------------------------------------------------
(* At least half of the best matching.                                     *)

(* Each pair of a rival pairing has an invoice that loop 1 has matched, so *)
(* the pairs with a matched ServiceTitan invoice are no more than the      *)
(* matches, and neither are those with a matched QuickBooks invoice.       *)
LEMMA HalfMatched ==
    ASSUME TypeOK, Accounts, Over, NEW p \in Pairings
    PROVE  2 * matchedCount >= Cardinality(p)
<1>1. PICK pairs \in SUBSET Promise!Agreeing : IsMatching(pairs)
  BY DEF Accounts, SomeMatching
<1>2. /\ \A x \in p : /\ x[1] \in DOMAIN st /\ x[2] \in DOMAIN qb
                      /\ Agree(st[x[1]], qb[x[2]])
      /\ \A x, y \in p : x[1] = y[1] \/ x[2] = y[2] => x = y
  BY DEF Pairings
<1>3. /\ \A i \in DOMAIN st : st[i].id \in matchedSt => \E x \in pairs : x[1] = i
      /\ \A j \in DOMAIN qb : qb[j].id \in Taken => \E x \in pairs : x[2] = j
  BY <1>1, MatchedPositions DEF Accounts
<1> DEFINE A == {x \in p : st[x[1]].id \in matchedSt}
           B == {x \in p : st[x[1]].id \notin matchedSt}
           f == [x \in A |-> CHOOSE y \in pairs : y[1] = x[1]]
           g == [x \in B |-> CHOOSE y \in pairs : y[2] = x[2]]
<1>4. \A x \in B : qb[x[2]].id \in Taken
  BY <1>2 DEF Accounts, LeftoversDisagree, Over
<1>5. IsFiniteSet(pairs) /\ Cardinality(pairs) = matchedCount /\ matchedCount \in Nat
  BY <1>1 DEF IsMatching, TypeOK
<1>6. IsFiniteSet(A) /\ Cardinality(A) \in Nat /\ Cardinality(A) <= matchedCount
  <2>1. \A x \in A : f[x] \in pairs /\ f[x][1] = x[1]
    BY <1>2, <1>3
  <2>2. f \in [A -> pairs]
    BY <2>1
  <2> HIDE DEF f
  <2>3. \A x, y \in A : f[x] = f[y] => x = y
    BY <1>2, <2>1
  <2> HIDE DEF A
  <2>4. QED BY <1>5, <2>2, <2>3, NoLarger
<1>7. IsFiniteSet(B) /\ Cardinality(B) \in Nat /\ Cardinality(B) <= matchedCount
  <2>1. \A x \in B : g[x] \in pairs /\ g[x][2] = x[2]
    BY <1>2, <1>3, <1>4
  <2>2. g \in [B -> pairs]
    BY <2>1
  <2> HIDE DEF g
  <2>3. \A x, y \in B : g[x] = g[y] => x = y
    BY <1>2, <2>1
  <2> HIDE DEF B
  <2>4. QED BY <1>5, <2>2, <2>3, NoLarger
<1>8. Cardinality(p) = Cardinality(A) + Cardinality(B)
  <2>1. p = A \cup B /\ A \cap B = {}
    OBVIOUS
  <2> HIDE DEF A, B
  <2>2. Cardinality(A \cup B) = Cardinality(A) + Cardinality(B) - Cardinality(A \cap B)
    BY <1>6, <1>7, FS_Union
  <2>3. Cardinality(A \cup B) = Cardinality(p) /\ Cardinality(A \cap B) = 0
    BY <2>1, FS_EmptySet, Zenon
  <2>4. QED BY <1>6, <1>7, <2>2, <2>3
<1> HIDE DEF A, B
<1>9. QED BY <1>5, <1>6, <1>7, <1>8

(* Where chains agree, all invoices that agree with one another are one    *)
(* group, and loop 1 leaves none of a group over on one side unless all of *)
(* the other side are matched.  So each pair of a rival pairing has an     *)
(* invoice on the side of its group that is matched, and the match it is   *)
(* in is no other pair's.                                                  *)
LEMMA AllMatchedThatCanBe ==
    ASSUME TypeOK, Accounts, Over, ChainsAgree, NEW p \in Pairings
    PROVE  matchedCount >= Cardinality(p)
<1>1. PICK pairs \in SUBSET Promise!Agreeing : IsMatching(pairs)
  BY DEF Accounts, SomeMatching
<1>2. /\ \A x \in p : /\ x[1] \in DOMAIN st /\ x[2] \in DOMAIN qb
                      /\ Agree(st[x[1]], qb[x[2]])
      /\ \A x, y \in p : x[1] = y[1] \/ x[2] = y[2] => x = y
  BY DEF Pairings
<1>3. /\ \A i \in DOMAIN st : st[i].id \in matchedSt => \E x \in pairs : x[1] = i
      /\ \A j \in DOMAIN qb : qb[j].id \in Taken => \E x \in pairs : x[2] = j
      /\ \A x \in pairs : /\ x[1] \in DOMAIN st /\ x[2] \in DOMAIN qb
                          /\ Agree(st[x[1]], qb[x[2]])
  BY <1>1, MatchedPositions DEF Accounts
<1> DEFINE full(x) == \A i \in DOMAIN st :
                        Agree(st[i], qb[x[2]]) => st[i].id \in matchedSt
           f == [x \in p |-> CHOOSE y \in pairs :
                              IF full(x) THEN y[1] = x[1] ELSE y[2] = x[2]]
<1>4. \A x \in p : f[x] \in pairs /\ IF full(x) THEN f[x][1] = x[1] ELSE f[x][2] = x[2]
  <2> SUFFICES ASSUME NEW x \in p
               PROVE  \E y \in pairs : IF full(x) THEN y[1] = x[1] ELSE y[2] = x[2]
    OBVIOUS
  <2>1. CASE full(x)
    <3>1. st[x[1]].id \in matchedSt
      BY <1>2, <2>1
    <3>2. \E y \in pairs : y[1] = x[1]
      BY <1>2, <1>3, <3>1
    <3>3. QED BY <2>1, <3>2
  <2>2. CASE ~full(x)
    <3>1. PICK i \in DOMAIN st : Agree(st[i], qb[x[2]]) /\ st[i].id \notin matchedSt
      BY <2>2
    <3>2. qb[x[2]].id \in Taken
      BY <1>2, <3>1 DEF Accounts, LeftoversDisagree, Over
    <3>3. \E y \in pairs : y[2] = x[2]
      BY <1>2, <1>3, <3>2
    <3>4. QED BY <2>2, <3>3
  <2>3. QED BY <2>1, <2>2
<1>5. ASSUME NEW x \in p, NEW y \in p, full(x), ~full(y)
      PROVE  f[x] # f[y]
  <2>1. SUFFICES ASSUME f[x] = f[y] PROVE FALSE
    OBVIOUS
  <2> DEFINE i == x[1]
             j == y[2]
  <2>2. f[x][1] = i /\ f[x][2] = j /\ f[x] \in pairs
    BY <1>4, <1>5, <2>1
  <2>3. Agree(st[i], qb[j])
    BY <1>3, <2>2
  <2>4. PICK k \in DOMAIN st : Agree(st[k], qb[j]) /\ st[k].id \notin matchedSt
    BY <1>5
  <2>5. Agree(st[i], qb[x[2]])
    BY <1>2
  <2>6. i \in DOMAIN st /\ j \in DOMAIN qb /\ x[2] \in DOMAIN qb
    BY <1>2
  <2>7. Agree(st[k], qb[x[2]])
    BY <2>3, <2>4, <2>5, <2>6 DEF ChainsAgree
  <2>8. QED BY <1>5, <2>4, <2>7
<1>6. \A x, y \in p : f[x] = f[y] => x = y
  <2> SUFFICES ASSUME NEW x \in p, NEW y \in p, f[x] = f[y]
               PROVE  x = y
    OBVIOUS
  <2>1. full(x) <=> full(y)
    BY <1>5
  <2> HIDE DEF full, f
  <2>2. x[1] = y[1] \/ x[2] = y[2]
    BY <1>4, <2>1
  <2>3. QED BY <1>2, <2>2
<1>7. f \in [p -> pairs]
  BY <1>4
<1> HIDE DEF f
<1>8. IsFiniteSet(pairs) /\ Cardinality(pairs) = matchedCount
  BY <1>1 DEF IsMatching
<1>9. QED BY <1>6, <1>7, <1>8, NoLarger

(* The greedy first loop matches at least half of what could be matched,   *)
(* whatever the order of the rows, and all of it where chains agree.       *)
THEOREM EnoughMatched == Spec => []MatchesEnough
<1>1. TypeOK /\ Accounts => MatchesEnough
  <2> SUFFICES ASSUME TypeOK, Accounts, phase = "done"
               PROVE  /\ \A p \in Pairings : 2 * matchedCount >= Cardinality(p)
                      /\ ChainsAgree => \A p \in Pairings : matchedCount >= Cardinality(p)
    BY DEF MatchesEnough
  <2>1. Over
    BY DEF Over
  <2>2. QED BY <2>1, HalfMatched, AllMatchedThatCanBe
<1>2. QED BY <1>1, AccountsKept, TypeCorrect, PTL

(* With a tolerance of zero chains always agree: exact matching is never   *)
(* worse for being greedy.                                                 *)
THEOREM ExactMatchingIsBest ==
    Tolerance = 0 => (Spec => [](phase = "done" =>
        \A p \in Pairings : matchedCount >= Cardinality(p)))
<1> SUFFICES ASSUME Tolerance = 0
             PROVE  Spec => [](phase = "done" =>
                        \A p \in Pairings : matchedCount >= Cardinality(p))
  OBVIOUS
<1>1. TypeOK => ChainsAgree
  <2> SUFFICES ASSUME TypeOK PROVE ChainsAgree
    OBVIOUS
  <2>1. \A i \in DOMAIN st, j \in DOMAIN qb :
            Agree(st[i], qb[j]) <=> /\ st[i].customer = qb[j].customer
                                    /\ st[i].amount = qb[j].amount
    <3> SUFFICES ASSUME NEW i \in DOMAIN st, NEW j \in DOMAIN qb
                 PROVE  Distance(st[i].amount, qb[j].amount) <= 0
                            <=> st[i].amount = qb[j].amount
      BY DEF Agree
    <3>1. st[i].amount \in Int /\ qb[j].amount \in Int
      BY Element DEF TypeOK
    <3>2. QED BY <3>1 DEF Distance
  <2>2. QED BY <2>1 DEF ChainsAgree
<1>2. TypeOK /\ MatchesEnough
          => (phase = "done" => \A p \in Pairings : matchedCount >= Cardinality(p))
  BY <1>1 DEF MatchesEnough
<1>3. QED BY <1>2, EnoughMatched, TypeCorrect, PTL

-----------------------------------------------------------------------------
(* The loops implement the promise.                                        *)

(* The positions of the mismatches.                                        *)
MismatchPairs ==
    {x \in (DOMAIN st) \X (DOMAIN qb) :
        \E row \in rows : /\ row.type = "amount_mismatch"
                          /\ row.st = st[x[1]].id /\ row.qb = qb[x[2]].id}

(* The matching cannot be extended: leftovers do not agree.                *)
LEMMA MatchingMaximal ==
    ASSUME TypeOK, Accounts, Over, NEW pairs \in SUBSET Promise!Agreeing, IsMatching(pairs)
    PROVE  pairs \in Promise!Maximal(Promise!Agreeing)
<1>1. ASSUME NEW x \in Promise!Agreeing \ pairs, Promise!Injective(pairs \cup {x})
      PROVE  FALSE
  <2>1. x[1] \in DOMAIN st /\ x[2] \in DOMAIN qb /\ Agree(st[x[1]], qb[x[2]])
    BY <1>1 DEF Promise!Agreeing
  <2>2. \A y \in pairs : y[1] # x[1] /\ y[2] # x[2]
    BY <1>1 DEF Promise!Injective
  <2>3. st[x[1]].id \notin matchedSt /\ qb[x[2]].id \notin Taken
    BY <2>1, <2>2, MatchedPositions DEF Accounts
  <2>4. QED BY <2>1, <2>3 DEF Accounts, LeftoversDisagree, Over
<1>2. QED BY <1>1 DEF Promise!Maximal, Promise!Extensible, IsMatching

(* Neither can the mismatches, among what the matching leaves over: a row  *)
(* that says missing leaves no free invoice of its customer.               *)
LEMMA MismatchesMaximal ==
    ASSUME TypeOK, Accounts, NoneWasFree, Over,
           NEW pairs \in SUBSET Promise!Agreeing, IsMatching(pairs)
    PROVE  MismatchPairs \in Promise!Maximal(Promise!Comparable(pairs))
<1>1. /\ \A i \in Promise!Left(pairs) : st[i].id \in matchedSt
      /\ \A j \in Promise!Right(pairs) : qb[j].id \in Taken
  BY MatchedPositions DEF Promise!Left, Promise!Right, Accounts
<1>2. MismatchPairs \subseteq Promise!Comparable(pairs)
  <2> SUFFICES ASSUME NEW x \in MismatchPairs
               PROVE  x \in Promise!Comparable(pairs)
    OBVIOUS
  <2>1. PICK row \in rows : /\ row.type = "amount_mismatch"
                            /\ row.st = st[x[1]].id /\ row.qb = qb[x[2]].id
    BY DEF MismatchPairs
  <2>2. x \in (DOMAIN st) \X (DOMAIN qb)
    BY DEF MismatchPairs
  <2>3. st[x[1]].customer = qb[x[2]].customer
    BY <2>1, <2>2, RowKinds DEF Accounts, Distinct, DistinctIds
  <2>4. x[1] \notin Promise!Left(pairs) /\ x[2] \notin Promise!Right(pairs)
    BY <1>1, <2>1, RowKinds
  <2>5. QED BY <2>2, <2>3, <2>4 DEF Promise!Comparable
<1>3. Promise!Injective(MismatchPairs)
  <2> SUFFICES ASSUME NEW x \in MismatchPairs, NEW y \in MismatchPairs,
                      x[1] = y[1] \/ x[2] = y[2]
               PROVE  x = y
    BY DEF Promise!Injective
  <2>1. PICK a \in rows : a.st = st[x[1]].id /\ a.qb = qb[x[2]].id
    BY DEF MismatchPairs
  <2>2. PICK b \in rows : b.st = st[y[1]].id /\ b.qb = qb[y[2]].id
    BY DEF MismatchPairs
  <2>3. /\ x \in (DOMAIN st) \X (DOMAIN qb) /\ y \in (DOMAIN st) \X (DOMAIN qb)
    BY DEF MismatchPairs
  <2>4. st[x[1]].id # NoId /\ qb[x[2]].id # NoId
    BY <2>3, Element, MatchingAssumption DEF TypeOK
  <2>5. a = b
    BY <2>1, <2>2, <2>4 DEF Accounts, RowsUnique
  <2>6. x[1] = y[1] /\ x[2] = y[2]
    BY <2>1, <2>2, <2>3, <2>5 DEF Accounts, Distinct, DistinctIds
  <2>7. QED BY <2>3, <2>6
<1>4. ASSUME NEW x \in Promise!Comparable(pairs) \ MismatchPairs,
             Promise!Injective(MismatchPairs \cup {x})
      PROVE  FALSE
  <2>1. /\ x[1] \in DOMAIN st /\ x[2] \in DOMAIN qb
        /\ st[x[1]].customer = qb[x[2]].customer
        /\ x[1] \notin Promise!Left(pairs) /\ x[2] \notin Promise!Right(pairs)
    BY <1>4 DEF Promise!Comparable
  <2>2. \A y \in MismatchPairs : y[1] # x[1] /\ y[2] # x[2]
    BY <1>4 DEF Promise!Injective
  <2>3. st[x[1]].id \notin matchedSt /\ qb[x[2]].id \notin Taken
    BY <2>1, MatchedPositions DEF Accounts, Promise!Left, Promise!Right
  <2>4. PICK a \in rows : a.st = st[x[1]].id
    BY <2>1, <2>3 DEF Accounts, StCovered, Over
  <2>5. a.type = "missing_in_quickbooks" /\ a.customer = st[x[1]].customer
    <3>1. st[x[1]].id # NoId
      BY <2>1, Element, MatchingAssumption DEF TypeOK
    <3>2. a.type # "missing_in_servicetitan"
      BY <2>4, <3>1, RowKinds
    <3>3. a.type # "amount_mismatch"
      <4>1. SUFFICES ASSUME a.type = "amount_mismatch" PROVE FALSE
        OBVIOUS
      <4>2. PICK j \in DOMAIN qb : a.qb = qb[j].id
        BY <4>1, RowKinds
      <4>3. <<x[1], j>> \in MismatchPairs
        BY <2>1, <2>4, <4>1, <4>2 DEF MismatchPairs
      <4>4. QED BY <2>2, <4>3
    <3>4. QED BY <2>1, <2>4, <3>2, <3>3, RowKinds DEF Accounts, Distinct, DistinctIds
  <2>6. qb[x[2]].id \in matchedQb
    BY <2>1, <2>5 DEF NoneWasFree
  <2>7. PICK b \in rows : b.qb = qb[x[2]].id
    BY <2>3, <2>6 DEF Taken
  <2>8. qb[x[2]].id # NoId
    BY <2>1, Element, MatchingAssumption DEF TypeOK
  <2>9. b.type = "amount_mismatch"
    BY <2>6, <2>7, <2>8, RowKinds
  <2>10. PICK i \in DOMAIN st : b.st = st[i].id
    BY <2>9, RowKinds
  <2>11. <<i, x[2]>> \in MismatchPairs
    BY <2>1, <2>7, <2>9, <2>10 DEF MismatchPairs
  <2>12. QED BY <2>2, <2>11
<1>5. QED BY <1>2, <1>3, <1>4 DEF Promise!Maximal, Promise!Extensible

(* What the rows say of the two pairings.                                  *)
RowsOutcome ==
    [matched |-> matchedCount,
     mismatched |-> {<<row.st, row.qb>> : row \in RowsOfType("amount_mismatch")},
     missing_in_quickbooks |-> {row.st : row \in RowsOfType("missing_in_quickbooks")},
     missing_in_servicetitan |->
         {row.qb : row \in RowsOfType("missing_in_servicetitan")}]

LEMMA OutcomeParts ==
    ASSUME NEW p, NEW m
    PROVE  Promise!Outcome(p, m) =
               [matched |-> Cardinality(p),
                mismatched |-> {<<st[x[1]].id, qb[x[2]].id>> : x \in m},
                missing_in_quickbooks |->
                    {st[i].id : i \in (DOMAIN st) \ Promise!Left(p \cup m)},
                missing_in_servicetitan |->
                    {qb[j].id : j \in (DOMAIN qb) \ Promise!Right(p \cup m)}]
<1>1. Promise!Cardinality(p) = Cardinality(p)
  BY DEF Promise!Cardinality, Cardinality
<1>2. QED BY <1>1 DEF Promise!Outcome

LEMMA OutcomeOfRows ==
    ASSUME TypeOK, Accounts, Over, NEW pairs \in SUBSET Promise!Agreeing, IsMatching(pairs)
    PROVE  Promise!Outcome(pairs, MismatchPairs) = RowsOutcome
<1> DEFINE explained == pairs \cup MismatchPairs
<1>1. /\ \A i \in Promise!Left(pairs) : i \in DOMAIN st /\ st[i].id \in matchedSt
      /\ \A j \in Promise!Right(pairs) : j \in DOMAIN qb /\ qb[j].id \in Taken
      /\ \A i \in DOMAIN st : st[i].id \in matchedSt => i \in Promise!Left(pairs)
      /\ \A j \in DOMAIN qb : qb[j].id \in Taken => j \in Promise!Right(pairs)
  BY MatchedPositions DEF Promise!Left, Promise!Right, Accounts
<1>2. /\ \A i \in DOMAIN st : st[i].id # NoId
      /\ \A j \in DOMAIN qb : qb[j].id # NoId
  BY Element, MatchingAssumption DEF TypeOK
<1>3. Cardinality(pairs) = matchedCount
  BY DEF IsMatching
<1>4. {<<st[x[1]].id, qb[x[2]].id>> : x \in MismatchPairs}
          = {<<row.st, row.qb>> : row \in RowsOfType("amount_mismatch")}
  <2>1. ASSUME NEW x \in MismatchPairs
        PROVE  \E row \in RowsOfType("amount_mismatch") :
                  <<row.st, row.qb>> = <<st[x[1]].id, qb[x[2]].id>>
    BY DEF MismatchPairs, RowsOfType
  <2>2. ASSUME NEW row \in RowsOfType("amount_mismatch")
        PROVE  \E x \in MismatchPairs :
                  <<row.st, row.qb>> = <<st[x[1]].id, qb[x[2]].id>>
    <3>1. PICK i \in DOMAIN st, j \in DOMAIN qb : row.st = st[i].id /\ row.qb = qb[j].id
      BY RowKinds DEF RowsOfType
    <3>2. <<i, j>> \in MismatchPairs
      BY <3>1 DEF MismatchPairs, RowsOfType
    <3>3. QED BY <3>1, <3>2
  <2>3. QED BY <2>1, <2>2
<1>5. {st[i].id : i \in (DOMAIN st) \ Promise!Left(explained)}
          = {row.st : row \in RowsOfType("missing_in_quickbooks")}
  <2>1. ASSUME NEW i \in (DOMAIN st) \ Promise!Left(explained)
        PROVE  \E row \in RowsOfType("missing_in_quickbooks") : row.st = st[i].id
    <3>1. i \notin Promise!Left(pairs) /\ i \notin Promise!Left(MismatchPairs)
      BY <2>1 DEF Promise!Left
    <3>2. PICK row \in rows : row.st = st[i].id
      BY <1>1, <3>1 DEF Accounts, StCovered, Over
    <3>3. row.type # "amount_mismatch"
      <4>1. SUFFICES ASSUME row.type = "amount_mismatch" PROVE FALSE
        OBVIOUS
      <4>2. PICK j \in DOMAIN qb : row.qb = qb[j].id
        BY <4>1, RowKinds
      <4>3. <<i, j>> \in MismatchPairs
        BY <3>2, <4>1, <4>2 DEF MismatchPairs
      <4>4. QED BY <3>1, <4>3 DEF Promise!Left
    <3>4. QED BY <1>2, <3>2, <3>3, RowKinds DEF RowsOfType
  <2>2. ASSUME NEW row \in RowsOfType("missing_in_quickbooks")
        PROVE  \E i \in (DOMAIN st) \ Promise!Left(explained) : row.st = st[i].id
    <3>1. PICK i \in DOMAIN st : row.st = st[i].id
      BY RowKinds DEF RowsOfType
    <3>2. i \notin Promise!Left(pairs)
      BY <1>1, <3>1, RowKinds DEF RowsOfType
    <3>3. ASSUME NEW x \in MismatchPairs, x[1] = i
          PROVE  FALSE
      <4>1. PICK a \in rows : a.type = "amount_mismatch" /\ a.st = st[i].id
        BY <3>3 DEF MismatchPairs
      <4>2. a = row
        BY <1>2, <3>1, <4>1 DEF Accounts, RowsUnique, RowsOfType
      <4>3. QED BY <4>1, <4>2 DEF RowsOfType
    <3>4. QED BY <3>1, <3>2, <3>3 DEF Promise!Left
  <2> HIDE DEF explained
  <2>3. QED BY <2>1, <2>2
<1>6. {qb[j].id : j \in (DOMAIN qb) \ Promise!Right(explained)}
          = {row.qb : row \in RowsOfType("missing_in_servicetitan")}
  <2>1. ASSUME NEW j \in (DOMAIN qb) \ Promise!Right(explained)
        PROVE  \E row \in RowsOfType("missing_in_servicetitan") : row.qb = qb[j].id
    <3>1. j \notin Promise!Right(pairs) /\ j \notin Promise!Right(MismatchPairs)
      BY <2>1 DEF Promise!Right
    <3>2. PICK row \in rows : row.qb = qb[j].id
      BY <1>1, <3>1 DEF Accounts, QbCovered, Over, Taken
    <3>3. row.type # "amount_mismatch"
      <4>1. SUFFICES ASSUME row.type = "amount_mismatch" PROVE FALSE
        OBVIOUS
      <4>2. PICK i \in DOMAIN st : row.st = st[i].id
        BY <4>1, RowKinds
      <4>3. <<i, j>> \in MismatchPairs
        BY <3>2, <4>1, <4>2 DEF MismatchPairs
      <4>4. QED BY <3>1, <4>3 DEF Promise!Right
    <3>4. QED BY <1>2, <3>2, <3>3, RowKinds DEF RowsOfType
  <2>2. ASSUME NEW row \in RowsOfType("missing_in_servicetitan")
        PROVE  \E j \in (DOMAIN qb) \ Promise!Right(explained) : row.qb = qb[j].id
    <3>1. PICK j \in DOMAIN qb : row.qb = qb[j].id
      BY RowKinds DEF RowsOfType
    <3>2. j \notin Promise!Right(pairs)
      BY <1>1, <3>1, RowKinds DEF RowsOfType
    <3>3. ASSUME NEW x \in MismatchPairs, x[2] = j
          PROVE  FALSE
      <4>1. PICK a \in rows : a.type = "amount_mismatch" /\ a.qb = qb[j].id
        BY <3>3 DEF MismatchPairs
      <4>2. a = row
        BY <1>2, <3>1, <4>1 DEF Accounts, RowsUnique, RowsOfType
      <4>3. QED BY <4>1, <4>2 DEF RowsOfType
    <3>4. QED BY <3>1, <3>2, <3>3 DEF Promise!Right
  <2> HIDE DEF explained
  <2>3. QED BY <2>1, <2>2
<1>7. QED BY <1>3, <1>4, <1>5, <1>6, OutcomeParts DEF RowsOutcome

(* At the end the outcome is a promised one.                               *)
OutcomeIsPromised ==
    Over => \E matches \in Promise!Maximal(Promise!Agreeing) :
               \E mismatches \in Promise!Maximal(Promise!Comparable(matches)) :
                  RowsOutcome = Promise!Outcome(matches, mismatches)

LEMMA NoneWasFreeAlways == Spec => []NoneWasFree
<1>1. Init => NoneWasFree
  BY DEF Init, Ready, NoneWasFree
<1>2. QED BY <1>1, NoneWasFreeStep, PTL DEF Spec

LEMMA OutcomeAlwaysPromised == Spec => []OutcomeIsPromised
<1>1. TypeOK /\ Accounts /\ NoneWasFree => OutcomeIsPromised
  <2> SUFFICES ASSUME TypeOK, Accounts, NoneWasFree, Over
               PROVE  \E matches \in Promise!Maximal(Promise!Agreeing) :
                         \E mismatches \in Promise!Maximal(Promise!Comparable(matches)) :
                            RowsOutcome = Promise!Outcome(matches, mismatches)
    BY DEF OutcomeIsPromised
  <2>1. PICK pairs \in SUBSET Promise!Agreeing : IsMatching(pairs)
    BY DEF Accounts, SomeMatching
  <2>2. /\ pairs \in Promise!Maximal(Promise!Agreeing)
        /\ MismatchPairs \in Promise!Maximal(Promise!Comparable(pairs))
        /\ RowsOutcome = Promise!Outcome(pairs, MismatchPairs)
    BY <2>1, MatchingMaximal, MismatchesMaximal, OutcomeOfRows
  <2>3. QED BY <2>2
<1>2. QED BY <1>1, TypeCorrect, AccountsKept, NoneWasFreeAlways, PTL

(* When loop 3 is over the outcome appears, and it is the promised one;    *)
(* before and after, no step changes it.                                   *)
LEMMA PromiseStep ==
    ASSUME TypeOK, [Next]_vars, OutcomeIsPromised'
    PROVE  [Promise!Reconcile]_(Promise!promiseVars)
<1>1. st' = st /\ qb' = qb
  BY ListsStay
<1>2. CASE Over
  <2>1. Over' /\ rows' = rows /\ matchedCount' = matchedCount
    BY <1>2, StepsOfPhase DEF Over, Summarise, vars
  <2>2. UNCHANGED Promise!promiseVars
    BY <1>1, <1>2, <2>1 DEF Over, Promise!promiseVars, RowsOfType
  <2>3. QED BY <2>2
<1>3. CASE ~Over /\ ~Over'
  BY <1>1, <1>3 DEF Over, Promise!promiseVars
<1>4. CASE ~Over /\ Over'
  <2>1. PICK matches, mismatches :
            /\ (matches \in Promise!Maximal(Promise!Agreeing))'
            /\ (mismatches \in Promise!Maximal(Promise!Comparable(matches)))'
            /\ (RowsOutcome = Promise!Outcome(matches, mismatches))'
    BY <1>4 DEF OutcomeIsPromised
  <2>2. /\ matches \in Promise!Maximal(Promise!Agreeing)
        /\ mismatches \in Promise!Maximal(Promise!Comparable(matches))
        /\ RowsOutcome' = Promise!Outcome(matches, mismatches)
    BY <1>1, <2>1 DEF Promise!Maximal, Promise!Agreeing, Promise!Comparable, Agree,
                      Promise!Outcome, Promise!Extensible, Promise!Injective
  <2>3. Promise!Reconcile
    BY <1>1, <1>4, <2>2 DEF Promise!Reconcile, RowsOutcome, Over
  <2>4. QED BY <2>3
<1>5. QED BY <1>2, <1>3, <1>4

(* For all lists, in any order, the discrepancies are those of an          *)
(* inextensible matching and of inextensible mismatches among the rest.    *)
THEOREM MatchingImplementsPromise == Spec => ImplementsPromise
<1>1. Init => Promise!PromiseInit
  BY DEF Init, Ready, Promise!PromiseInit
<1>2. QED BY <1>1, PromiseStep, TypeCorrect, OutcomeAlwaysPromised, PTL
          DEF Spec, ImplementsPromise, Promise!PromiseSpec

-----------------------------------------------------------------------------
(* What a stored run says of the source systems.                           *)

(* Only a run without a failed source is stored as succeeded, and the      *)
(* lists of a run are what its sources gave.                               *)
FetchesKept ==
    /\ failed \subseteq Sources
    /\ status = "succeeded" => failed = {} /\ phase = "done"
    /\ stRemote \in Seq(Invoices)
    /\ st = Delivered("servicetitan", FirstPage(stRemote))
    /\ qb = Delivered("quickbooks", qbRemote)

LEMMA FetchesStep ==
    ASSUME FetchesKept, [FetchedNext]_<<vars, fetchedVars>>
    PROVE  FetchesKept'
<1>1. CASE UNCHANGED <<vars, fetchedVars>>
  BY <1>1 DEF vars, fetchedVars, FetchesKept, Delivered
<1>2. CASE UNCHANGED fetchedVars /\ Loops
  <2>1. [Next]_vars
    BY <1>2 DEF Next
  <2>2. st' = st /\ qb' = qb
    BY <2>1, ListsStay
  <2>3. phase # "done"
    BY <1>2 DEF Loops, MatchNext, NoMatchNext, LoopEnds, SkipMatchedSt, ReportMismatch,
                ReportMissingInQb, SkipMatchedQb, ReportMissingInSt, InLoop
  <2>4. QED BY <1>2, <2>2, <2>3 DEF fetchedVars, FetchesKept, Delivered
<1>3. CASE StoreFigures
  BY <1>3 DEF StoreFigures, Summarise, Status, FetchesKept, Delivered
<1>4. QED BY <1>1, <1>2, <1>3 DEF FetchedNext, Finished

LEMMA FetchesKeptAlways == FetchedSpec => []FetchesKept
<1>1. FetchedInit => FetchesKept
  BY MatchingAssumption DEF FetchedInit, FetchesKept
<1>2. QED BY <1>1, FetchesStep, PTL DEF FetchedSpec

(* A list that fits its page is delivered whole.                           *)
LEMMA WholeLists ==
    ASSUME FetchesKept, status = "succeeded", Fits
    PROVE  st = stRemote /\ qb = qbRemote /\ phase = "done"
<1>1. failed = {} /\ phase = "done"
  BY DEF FetchesKept
<1>2. FirstPage(stRemote) = SubSeq(stRemote, 1, Len(stRemote))
  BY FetchedAssumption DEF FirstPage, Fits, NotFetched, FetchesKept
<1>3. SubSeq(stRemote, 1, Len(stRemote)) = stRemote
  BY DEF FetchesKept
<1>4. QED BY <1>1, <1>2, <1>3 DEF FetchesKept, Delivered

(* A ServiceTitan invoice of a customer that misses one there is matched   *)
(* or explained by a mismatch.                                             *)
LEMMA NoneUnexplained ==
    ASSUME TypeOK, Accounts, MissingOnOneSideOnly, Over,
           NEW row \in rows, row.type = "missing_in_servicetitan",
           NEW i \in DOMAIN st, st[i].customer = row.customer
    PROVE  st[i].id \in ExplainedSt
<1>1. CASE st[i].id \in matchedSt
  BY <1>1 DEF ExplainedSt
<1>2. CASE st[i].id \notin matchedSt
  <2>1. PICK a \in rows : a.st = st[i].id
    BY <1>2 DEF Accounts, StCovered, Over
  <2>2. a.st # NoId
    BY <2>1, Element, MatchingAssumption DEF TypeOK
  <2>3. a.type # "missing_in_servicetitan"
    BY <2>2, RowKinds
  <2>4. ASSUME a.type = "missing_in_quickbooks" PROVE FALSE
    <3>1. PICK k \in DOMAIN st : a.st = st[k].id /\ a.customer = st[k].customer
      BY <2>4, RowKinds
    <3>2. k = i
      BY <2>1, <3>1 DEF Accounts, Distinct, DistinctIds
    <3>3. QED BY <2>4, <3>1, <3>2 DEF MissingOnOneSideOnly
  <2>5. a.type = "amount_mismatch"
    BY <2>3, <2>4, RowKinds
  <2>6. QED BY <2>1, <2>5 DEF ExplainedSt, Mismatches
<1>3. QED BY <1>1, <1>2

(* Without a row, the pairing of loop 1 is one of all invoices.            *)
LEMMA AllPaired ==
    ASSUME TypeOK, Accounts, Over, rows = {}
    PROVE  /\ Len(st) = Len(qb)
           /\ \E f \in [DOMAIN st -> DOMAIN qb] :
                 \A i, k \in DOMAIN st : /\ Agree(st[i], qb[f[i]])
                                         /\ f[i] = f[k] => i = k
<1>1. matchedCount = Len(st) /\ matchedCount = Len(qb)
  BY NoRowsMeansAllMatched
<1>2. PICK pairs \in SUBSET Promise!Agreeing : IsMatching(pairs)
  BY DEF Accounts, SomeMatching
<1>3. \A i \in DOMAIN st : st[i].id \in matchedSt
  BY DEF Accounts, StCovered, Over
<1>4. \A i \in DOMAIN st : \E x \in pairs : x[1] = i
  BY <1>2, <1>3, MatchedPositions DEF Accounts
<1>5. \A x \in pairs : /\ x[2] \in DOMAIN qb
                       /\ Agree(st[x[1]], qb[x[2]])
  BY <1>2, MatchedPositions DEF Accounts
<1> DEFINE partner(i) == CHOOSE x \in pairs : x[1] = i
           f == [i \in DOMAIN st |-> partner(i)[2]]
<1>6. \A i \in DOMAIN st : partner(i) \in pairs /\ partner(i)[1] = i
  BY <1>4
<1> HIDE DEF partner
<1>7. f \in [DOMAIN st -> DOMAIN qb]
  BY <1>5, <1>6
<1>8. ASSUME NEW i \in DOMAIN st, NEW k \in DOMAIN st
      PROVE  Agree(st[i], qb[f[i]]) /\ (f[i] = f[k] => i = k)
  <2>1. Agree(st[i], qb[f[i]])
    BY <1>5, <1>6
  <2>2. ASSUME f[i] = f[k] PROVE i = k
    <3>1. partner(i)[2] = partner(k)[2]
      BY <2>2
    <3>2. partner(i) = partner(k)
      BY <1>2, <1>6, <3>1 DEF IsMatching, Promise!Injective
    <3>3. QED BY <1>6, <3>2
  <2>3. QED BY <2>1, <2>2
<1> HIDE DEF f
<1>9. QED BY <1>1, <1>7, <1>8

(* Each customer that is wrongly called missing has an invoice past the    *)
(* page, and no two have one.                                              *)
LEMMA MisreportedAreFew ==
    ASSUME TypeOK, Accounts, MissingOnOneSideOnly, Over, FetchesKept, failed = {}
    PROVE  Cardinality(Misreported) <= NotFetched
<1> DEFINE size == Len(stRemote)
           fetched == Len(FirstPage(stRemote))
           beyond == (fetched + 1)..size
<1>1. /\ size \in Nat /\ fetched \in Nat /\ fetched <= size
      /\ st = FirstPage(stRemote)
      /\ DOMAIN stRemote = 1..size /\ DOMAIN st = 1..fetched
      /\ \A i \in 1..fetched : st[i] = stRemote[i]
  BY FetchedAssumption DEF FetchesKept, Delivered, FirstPage
<1>2. ASSUME NEW customer \in Misreported
      PROVE  \E i \in beyond : stRemote[i].customer = customer
  <2>1. PICK row \in rows : /\ row.type = "missing_in_servicetitan"
                            /\ ~MissingInStIsTrue(row) /\ row.customer = customer
    BY DEF Misreported
  <2>2. PICK i \in DOMAIN stRemote : /\ stRemote[i].customer = customer
                                     /\ stRemote[i].id \notin ExplainedSt
    BY <2>1 DEF MissingInStIsTrue
  <2>3. i \notin 1..fetched
    <3>1. SUFFICES ASSUME i \in 1..fetched PROVE FALSE
      OBVIOUS
    <3>2. i \in DOMAIN st /\ st[i].customer = row.customer /\ st[i].id \notin ExplainedSt
      BY <1>1, <2>1, <2>2, <3>1
    <3>3. QED BY <2>1, <3>2, NoneUnexplained
  <2>4. i \in beyond
    BY <1>1, <2>2, <2>3
  <2>5. QED BY <2>2, <2>4
<1> DEFINE invoice == [customer \in Misreported |->
                         CHOOSE i \in beyond : stRemote[i].customer = customer]
<1>3. \A customer \in Misreported : /\ invoice[customer] \in beyond
                                     /\ stRemote[invoice[customer]].customer = customer
  BY <1>2
<1>4. invoice \in Injection(Misreported, beyond)
  <2>1. invoice \in [Misreported -> beyond]
    BY <1>3
  <2>2. \A a, b \in Misreported : invoice[a] = invoice[b] => a = b
    BY <1>3
  <2> HIDE DEF invoice, beyond
  <2>3. QED BY <2>1, <2>2 DEF Injection, IsInjective
<1>5. IsFiniteSet(beyond) /\ Cardinality(beyond) = size - fetched
  <2>1. fetched + 1 \in Int /\ size \in Int
    BY <1>1
  <2>2. /\ IsFiniteSet(beyond)
        /\ Cardinality(beyond) = IF fetched + 1 > size THEN 0 ELSE size - (fetched + 1) + 1
    <3> HIDE DEF fetched, size
    <3>1. QED BY <2>1, FS_Interval
  <2>3. QED BY <1>1, <2>2
<1>6. Cardinality(Misreported) <= Cardinality(beyond)
  <2> HIDE DEF invoice, beyond
  <2>1. QED BY <1>4, <1>5, FS_Injection
<1>7. QED BY <1>5, <1>6 DEF NotFetched

(* What a run stored as succeeded calls missing in QuickBooks is missing   *)
(* there, for all lists and whichever fetches fail.  What it calls missing *)
(* in ServiceTitan is missing there, but for no more customers than        *)
(* invoices were past the page.  If all were fetched, full health means    *)
(* that the two systems hold the same.                                     *)
THEOREM SucceededRunTrue == FetchedSpec => []SucceededRunTellsTheTruth
<1>1. /\ TypeOK /\ Accounts /\ NoneWasFree
      /\ MissingOnOneSideOnly /\ FiguresFollowTheRows /\ FetchesKept
      => SucceededRunTellsTheTruth
  <2> SUFFICES ASSUME TypeOK, Accounts, NoneWasFree, MissingOnOneSideOnly,
                      FiguresFollowTheRows, FetchesKept, status = "succeeded"
               PROVE  SucceededRunTellsTheTruth
    BY DEF SucceededRunTellsTheTruth
  <2>1. qb = qbRemote /\ phase = "done" /\ Over
    BY DEF FetchesKept, Delivered, Over
  <2>2. Fits => st = stRemote
    BY WholeLists
  <2>3. ASSUME NEW row \in rows, row.type = "missing_in_quickbooks"
        PROVE  MissingInQbIsTrue(row)
    BY <2>1, <2>3 DEF NoneWasFree, MissingInQbIsTrue
  <2>4. Cardinality(Misreported) <= NotFetched
    BY <2>1, MisreportedAreFew DEF FetchesKept
  <2>5. ASSUME Fits, run.matched = run.of
        PROVE  RemotesAgree
    <3>1. rows = {}
      BY <2>1, <2>5 DEF FiguresFollowTheRows
    <3>2. QED BY <2>1, <2>2, <2>5, <3>1, AllPaired DEF RemotesAgree
  <2>6. QED BY <2>3, <2>4, <2>5 DEF SucceededRunTellsTheTruth
<1>2. QED BY <1>1, FetchedImplementsMatching, TypeCorrect, AccountsKept, NoneWasFreeAlways,
             MissingOneSided, FiguresSound, FetchesKeptAlways, PTL
=============================================================================
