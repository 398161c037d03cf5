------------------------ MODULE ListingClientsProofs ------------------------
(***************************************************************************)
(* What the dashboard shows and what a walk of the pages delivers, for any *)
(* number of runs, rows and overlapping calls, any limit and page size.    *)
(*                                                                         *)
(* The walk's properties rest on the rank of a row, the number of rows     *)
(* before it: a page has the rows whose ranks it spans, and a commit only  *)
(* raises ranks.                                                           *)
(***************************************************************************)
EXTENDS ListingClients, FiniteSetTheorems, SequenceTheorems, TLAPS

(* PageInRange says nothing of the earlier pages prevPage goes back to:    *)
(* each of them must begin before the end of the rows shown.               *)
PagesBehind ==
    /\ page \in Nat
    /\ \A k \in 1..page : k * PageSize < Len(shown)

(* The dashboard stays on a page that has rows, or on the first one,       *)
(* whatever loads and filters come between: the page is reset whenever the *)
(* rows shown are replaced.                                                *)
THEOREM PagesInRange == Spec => []PageInRange
  <1>1. Init => PagesBehind
    BY DEF Init, PagesBehind
  <1>2. PagesBehind /\ [Next]_vars => PagesBehind'
    <2> SUFFICES ASSUME PagesBehind, [Next]_vars
                 PROVE  PagesBehind'
      OBVIOUS
    <2> USE DEF PagesBehind
    <2>1. CASE UNCHANGED dashboardVars
      BY <2>1 DEF dashboardVars
    <2>2. CASE (TableStep \/ CallStep) /\ UNCHANGED clientVars
      BY <2>1, <2>2 DEF clientVars, dashboardVars
    <2>3. CASE Walks
      BY <2>1, <2>3 DEF Walks, StartWalk, TakePage, WalkRefused
    <2>4. CASE Browses
      <3>1. ASSUME NEW c \in Callers, loadData(c)
            PROVE  PagesBehind'
        BY <3>1 DEF loadData
      <3>2. ASSUME NEW c \in Callers, LoadArrives(c)
            PROVE  PagesBehind'
        BY <3>2 DEF LoadArrives, Loaded
      <3>3. ASSUME NEW c \in Callers, LoadFails(c)
            PROVE  PagesBehind'
        BY <3>3, <2>1 DEF LoadFails
      <3>4. ASSUME NEW severity, applyFilters(severity)
            PROVE  PagesBehind'
        BY <3>4 DEF applyFilters
      <3>5. CASE nextPage
        <4>1. page' = page + 1 /\ shown' = shown /\ (page + 1) * PageSize < Len(shown)
          BY <3>5 DEF nextPage
        <4>2. ASSUME NEW k \in 1..(page + 1)
              PROVE  k * PageSize < Len(shown)
          <5>1. CASE k = page + 1
            BY <4>1, <5>1
          <5>2. CASE k # page + 1
            <6>1. k \in 1..page
              BY <5>2
            <6>2. QED
              BY <6>1
          <5>3. QED
            BY <5>1, <5>2
        <4>3. QED
          BY <4>1, <4>2
      <3>6. CASE prevPage
        <4>1. page' = page - 1 /\ shown' = shown /\ page > 0
          BY <3>6 DEF prevPage
        <4>2. page' \in Nat /\ 1..page' \subseteq 1..page
          BY <4>1
        <4>3. QED
          BY <4>1, <4>2
      <3>7. QED
        BY <2>4, <3>1, <3>2, <3>3, <3>4, <3>5, <3>6 DEF Browses
    <2>5. CASE UNCHANGED vars
      BY <2>1, <2>5 DEF vars, dashboardVars
    <2>6. QED
      BY <2>2, <2>3, <2>4, <2>5 DEF Next
  <1>3. PagesBehind => PageInRange
    <2> SUFFICES ASSUME PagesBehind, page # 0
                 PROVE  page * PageSize < Len(shown)
      BY DEF PageInRange
    <2>1. page \in 1..page
      BY DEF PagesBehind
    <2>2. QED
      BY <2>1 DEF PagesBehind
  <1>4. QED
    BY <1>1, <1>2, <1>3, PTL DEF Spec

(* The rows shown come from one load, however many loads overlap.          *)
THEOREM ShownOfOneLoad == Spec => []ShownIsOfOneLoad
  <1>1. Init => ShownIsOfOneLoad
    BY DEF Init, ShownIsOfOneLoad
  <1>2. ShownIsOfOneLoad /\ [Next]_vars => ShownIsOfOneLoad'
    <2> SUFFICES ASSUME ShownIsOfOneLoad, [Next]_vars
                 PROVE  ShownIsOfOneLoad'
      OBVIOUS
    <2> USE DEF ShownIsOfOneLoad
    <2>1. CASE UNCHANGED <<all, shown, box>>
      BY <2>1
    <2>2. ASSUME NEW c \in Callers, LoadArrives(c)
          PROVE  ShownIsOfOneLoad'
      BY <2>2 DEF LoadArrives, Loaded
    <2>3. ASSUME NEW severity, applyFilters(severity)
          PROVE  ShownIsOfOneLoad'
      BY <2>3 DEF applyFilters
    <2>5. CASE Walks \/ nextPage \/ prevPage
      BY <2>1, <2>5 DEF Walks, StartWalk, TakePage, WalkRefused, nextPage, prevPage,
                        dashboardVars
    <2>6. ASSUME NEW c \in Callers, loadData(c) \/ LoadFails(c)
          PROVE  ShownIsOfOneLoad'
      BY <2>1, <2>6 DEF loadData, LoadFails, dashboardVars
    <2>7. CASE UNCHANGED vars
      BY <2>1, <2>7 DEF vars
    <2>8. CASE UNCHANGED clientVars
      BY <2>1, <2>8 DEF clientVars
    <2>9. QED
      BY <2>2, <2>3, <2>5, <2>6, <2>7, <2>8 DEF Next, Browses
  <1>3. QED
    BY <1>1, <1>2, PTL DEF Spec

-----------------------------------------------------------------------------
(* The order of the rows.                                                  *)

(* Calls are records of their phases, queries and answers.                 *)
CallRecords ==
    [phase : {"find", "count", "page", "answered", "not_found"},
     query : Queries, total : Nat, items : Seq(Rows), present : Nat]
Types ==
    /\ status \in [Runs -> {"new", "flushed", "committed", "rolled_back"}]
    /\ detectedAt \in [Runs -> Nat]
    /\ call \in [Callers -> {NoCall} \cup CallRecords]
    /\ client \in {"walker", "dashboard"}
    /\ walk \in [phase : {"none", "walking", "done", "not_found"},
                 got : Seq(Rows), before : SUBSET Rows]
    /\ all \in Seq(Rows)

(* The clock runs: a run that flushes is newer than all that have.         *)
Stamps == {r \in Runs : detectedAt[r] > 0}
Stamped ==
    /\ \A r \in Runs : status[r] = "new" <=> detectedAt[r] = 0
    /\ \A r \in Runs : detectedAt[r] <= Cardinality(Stamps)
    /\ \A r, s \in Runs : detectedAt[r] = detectedAt[s] /\ detectedAt[r] > 0 => r = s

(* Rows that DetectedAfter puts in one order.                              *)
Ordered(rows) ==
    /\ rows \subseteq Rows
    /\ \A x, y \in rows : x[1] # y[1] => detectedAt[x[1]] # detectedAt[y[1]]
Rank(row, rows) == Cardinality(Newer(row, rows))

(* The table is finite.                                                    *)
LEMMA RowsFinite == IsFiniteSet(Rows)
<1> DEFINE rowsOf == [r \in Runs |-> {r} \X DOMAIN RowsOf[r]]
           tables == {{r} \X DOMAIN RowsOf[r] : r \in Runs}
<1>1. IsFiniteSet(tables)
  <2>1. rowsOf \in [Runs -> tables]
    OBVIOUS
  <2>2. \A T \in tables : \E r \in Runs : rowsOf[r] = T
    OBVIOUS
  <2> HIDE DEF rowsOf, tables
  <2>3. rowsOf \in Surjection(Runs, tables)
    BY <2>1, <2>2 DEF Surjection
  <2>4. QED BY <2>3, FS_Surjection, ListingAssumption
<1>2. ASSUME NEW r \in Runs PROVE IsFiniteSet({r} \X DOMAIN RowsOf[r])
  <2>1. IsFiniteSet(DOMAIN RowsOf[r])
    <3>1. RowsOf[r] \in Seq({"error", "warning"})
      BY ListingAssumption
    <3>2. DOMAIN RowsOf[r] = 1..Len(RowsOf[r]) /\ Len(RowsOf[r]) \in Nat
      BY <3>1
    <3>3. QED BY <3>2, FS_Interval
  <2>2. QED BY <2>1, FS_Singleton, FS_Product
<1>3. \A T \in tables : IsFiniteSet(T)
  BY <1>2
<1> HIDE DEF tables
<1>4. IsFiniteSet(UNION tables)
  BY <1>1, <1>3, FS_UNION
<1>5. QED BY <1>4 DEF Rows, tables

(* A row is a run and a position in it.                                    *)
LEMMA RowShape ==
    ASSUME NEW row \in Rows
    PROVE  row[1] \in Runs /\ row[2] \in Nat /\ row = <<row[1], row[2]>>
<1>1. PICK r \in Runs : row \in {r} \X DOMAIN RowsOf[r]
  BY DEF Rows
<1>2. RowsOf[r] \in Seq({"error", "warning"})
  BY ListingAssumption
<1>3. QED BY <1>1, <1>2

(* Sets of rows have a size.                                               *)
LEMMA Sized ==
    ASSUME NEW rows \in SUBSET Rows
    PROVE  /\ IsFiniteSet(rows)
           /\ Cardinality(rows) \in Nat
           /\ \A row : /\ IsFiniteSet(Newer(row, rows))
                       /\ Rank(row, rows) \in Nat
<1>1. IsFiniteSet(rows)
  BY RowsFinite, FS_Subset
<1>2. \A row : Newer(row, rows) \in SUBSET rows
  BY DEF Newer
<1>3. \A row : IsFiniteSet(Newer(row, rows))
  BY <1>1, <1>2, FS_Subset
<1>4. QED BY <1>1, <1>3, FS_CardinalityType DEF Rank

(* Of two rows one is newer.                                               *)
LEMMA OneIsNewer ==
    ASSUME Types, NEW rows, Ordered(rows), NEW x \in rows, NEW y \in rows
    PROVE  x = y \/ DetectedAfter(x, y) \/ DetectedAfter(y, x)
<1>1. /\ x[1] \in Runs /\ x[2] \in Nat /\ x = <<x[1], x[2]>>
      /\ y[1] \in Runs /\ y[2] \in Nat /\ y = <<y[1], y[2]>>
  BY RowShape DEF Ordered
<1>2. detectedAt[x[1]] \in Nat /\ detectedAt[y[1]] \in Nat
  BY <1>1 DEF Types
<1>3. CASE x[1] = y[1]
  <2>1. x[2] # y[2] => x[2] > y[2] \/ y[2] > x[2]
    BY <1>1
  <2>2. QED BY <1>1, <1>3, <2>1 DEF DetectedAfter
<1>4. CASE x[1] # y[1]
  <2>1. detectedAt[x[1]] # detectedAt[y[1]]
    BY <1>4 DEF Ordered
  <2>2. QED BY <1>2, <2>1 DEF DetectedAfter
<1>5. QED BY <1>3, <1>4

(* An older row has a higher rank than a newer one.                        *)
LEMMA RankGrows ==
    ASSUME Types, NEW rows, Ordered(rows), NEW x \in rows, NEW y \in rows,
           DetectedAfter(x, y)
    PROVE  Rank(x, rows) < Rank(y, rows)
<1>1. rows \in SUBSET Rows
  BY DEF Ordered
<1>2. x \notin Newer(x, rows)
  BY <1>1, RowShape DEF Newer, DetectedAfter, Types
<1>3. Newer(x, rows) \cup {x} \in SUBSET Newer(y, rows)
  <2>1. ASSUME NEW z \in rows, DetectedAfter(z, x) PROVE DetectedAfter(z, y)
    BY <1>1, <2>1, RowShape DEF DetectedAfter, Types
  <2>2. QED BY <2>1 DEF Newer
<1>4. Cardinality(Newer(x, rows) \cup {x}) = Rank(x, rows) + 1
  BY <1>1, <1>2, Sized, FS_AddElement DEF Rank
<1>5. Cardinality(Newer(x, rows) \cup {x}) <= Rank(y, rows)
  BY <1>1, <1>3, Sized, FS_Subset DEF Rank
<1>6. QED BY <1>1, <1>4, <1>5, Sized

(* The ranks of n rows are 0 to n - 1, each of one row.                    *)
LEMMA RankIsPosition ==
    ASSUME Types, NEW rows, Ordered(rows)
    PROVE  /\ \A x \in rows : Rank(x, rows) \in Nat /\ Rank(x, rows) < Cardinality(rows)
           /\ \A x, y \in rows : Rank(x, rows) = Rank(y, rows) => x = y
           /\ \A i \in 1..Cardinality(rows) : \E x \in rows : Rank(x, rows) = i - 1
<1>1. /\ rows \in SUBSET Rows /\ IsFiniteSet(rows) /\ Cardinality(rows) \in Nat
      /\ \A x \in rows : Rank(x, rows) \in Nat
  BY Sized DEF Ordered
<1>2. ASSUME NEW x \in rows PROVE Rank(x, rows) < Cardinality(rows)
  <2>1. Newer(x, rows) \in SUBSET rows /\ Newer(x, rows) # rows
    <3>1. ~DetectedAfter(x, x)
      BY <1>1, RowShape DEF DetectedAfter, Types
    <3>2. QED BY <3>1 DEF Newer
  <2>2. /\ Cardinality(Newer(x, rows)) <= Cardinality(rows)
        /\ Cardinality(Newer(x, rows)) # Cardinality(rows)
    BY <1>1, <2>1, FS_Subset
  <2>3. QED BY <1>1, <2>2 DEF Rank
<1>3. ASSUME NEW x \in rows, NEW y \in rows, Rank(x, rows) = Rank(y, rows)
      PROVE  x = y
  BY <1>1, <1>3, OneIsNewer, RankGrows
<1> DEFINE position == [x \in rows |-> Rank(x, rows) + 1]
<1>4. position \in Injection(rows, 1..Cardinality(rows))
  BY <1>1, <1>2, <1>3 DEF Injection, IsInjective
<1>5. position \in Surjection(rows, 1..Cardinality(rows))
  <2>1. /\ IsFiniteSet(1..Cardinality(rows))
        /\ Cardinality(1..Cardinality(rows)) = Cardinality(rows)
    BY <1>1, FS_Interval
  <2>2. QED BY <1>4, <2>1, FS_Injection
<1>6. ASSUME NEW i \in 1..Cardinality(rows) PROVE \E x \in rows : Rank(x, rows) = i - 1
  <2>1. PICK x \in rows : position[x] = i
    BY <1>5 DEF Surjection
  <2>2. QED BY <1>1, <2>1
<1>7. QED BY <1>1, <1>2, <1>3, <1>6

(* The sorted list has each row at the position of its rank.               *)
LEMMA SortedRows ==
    ASSUME Types, NEW rows, Ordered(rows)
    PROVE  /\ NewestFirst(rows) \in Seq(rows)
           /\ Len(NewestFirst(rows)) = Cardinality(rows)
           /\ \A i \in 1..Cardinality(rows) : /\ NewestFirst(rows)[i] \in rows
                                              /\ Rank(NewestFirst(rows)[i], rows) = i - 1
           /\ \A x \in rows : NewestFirst(rows)[Rank(x, rows) + 1] = x
<1> DEFINE sorted == NewestFirst(rows)
           size == Cardinality(rows)
<1>1. size \in Nat
  BY Sized DEF Ordered
<1>2. sorted = [i \in 1..size |-> CHOOSE x \in rows : Rank(x, rows) = i - 1]
  BY DEF NewestFirst, Rank
<1> HIDE DEF sorted, size
<1>3. \A i \in 1..size : sorted[i] \in rows /\ Rank(sorted[i], rows) = i - 1
  <2> SUFFICES ASSUME NEW i \in 1..size
               PROVE  sorted[i] \in rows /\ Rank(sorted[i], rows) = i - 1
    OBVIOUS
  <2>1. \E x \in rows : Rank(x, rows) = i - 1
    BY RankIsPosition DEF size
  <2>2. sorted[i] = CHOOSE x \in rows : Rank(x, rows) = i - 1
    BY <1>2
  <2>3. QED BY <2>1, <2>2
<1>4. sorted \in [1..size -> rows]
  BY <1>2, <1>3
<1>5. sorted \in Seq(rows) /\ Len(sorted) = size
  BY <1>1, <1>4
<1>6. ASSUME NEW x \in rows PROVE sorted[Rank(x, rows) + 1] = x
  <2>1. Rank(x, rows) + 1 \in 1..size
    BY <1>1, RankIsPosition DEF size
  <2>2. PICK i \in 1..size : i = Rank(x, rows) + 1
    BY <2>1
  <2>3. Rank(x, rows) = i - 1
    BY <2>2, RankIsPosition
  <2>4. sorted[i] \in rows /\ Rank(sorted[i], rows) = Rank(x, rows)
    BY <1>3, <2>3
  <2>5. sorted[i] = x
    BY <2>4, RankIsPosition
  <2>6. QED BY <2>2, <2>5
<1>7. QED BY <1>3, <1>5, <1>6 DEF sorted, size

(* There are n numbers up to n.                                            *)
LEMMA Counting ==
    ASSUME NEW n \in Nat
    PROVE  IsFiniteSet(1..n) /\ Cardinality(1..n) = n
<1>1. 1 \in Int /\ n \in Int
  OBVIOUS
<1>2. IsFiniteSet(1..n) /\ Cardinality(1..n) = IF 1 > n THEN 0 ELSE n - 1 + 1
  BY <1>1, FS_Interval
<1>3. QED BY <1>2

(* A list of rows has no more rows than places.                            *)
LEMMA SetOfList ==
    ASSUME NEW list \in Seq(Rows)
    PROVE  /\ ToSet(list) \in SUBSET Rows
           /\ IsFiniteSet(ToSet(list)) /\ Cardinality(ToSet(list)) \in Nat
           /\ Len(list) \in Nat
           /\ Cardinality(ToSet(list)) <= Len(list)
<1>1. DOMAIN list = 1..Len(list) /\ Len(list) \in Nat /\ \A i \in 1..Len(list) : list[i] \in Rows
  OBVIOUS
<1>2. ToSet(list) \in SUBSET Rows
  BY <1>1 DEF ToSet
<1>3. list \in Surjection(1..Len(list), ToSet(list))
  <2>1. list \in [1..Len(list) -> ToSet(list)]
    <3>1. \A i \in 1..Len(list) : list[i] \in ToSet(list)
      BY <1>1 DEF ToSet
    <3>2. list \in [1..Len(list) -> Rows]
      OBVIOUS
    <3>3. QED BY <3>1, <3>2
  <2>2. \A x \in ToSet(list) : \E i \in 1..Len(list) : list[i] = x
    BY <1>1 DEF ToSet
  <2>3. QED BY <2>1, <2>2 DEF Surjection
<1>4. IsFiniteSet(1..Len(list)) /\ Cardinality(1..Len(list)) = Len(list)
  BY <1>1, Counting
<1>5. Cardinality(ToSet(list)) <= Cardinality(1..Len(list))
  BY <1>3, <1>4, FS_Surjection
<1>6. QED BY <1>1, <1>2, <1>4, <1>5, Sized

(* A concatenation has the rows of both lists.                             *)
LEMMA SetOfBoth ==
    ASSUME NEW a \in Seq(Rows), NEW b \in Seq(Rows)
    PROVE  /\ a \o b \in Seq(Rows)
           /\ Len(a \o b) = Len(a) + Len(b)
           /\ ToSet(a \o b) = ToSet(a) \cup ToSet(b)
<1>1. /\ a \o b \in Seq(Rows)
      /\ Len(a \o b) = Len(a) + Len(b)
      /\ \A i \in 1..(Len(a) + Len(b)) :
            (a \o b)[i] = IF i <= Len(a) THEN a[i] ELSE b[i - Len(a)]
  BY ConcatProperties
<1>2. /\ Len(a) \in Nat /\ Len(b) \in Nat
      /\ DOMAIN a = 1..Len(a) /\ DOMAIN b = 1..Len(b) /\ DOMAIN (a \o b) = 1..(Len(a) + Len(b))
  BY <1>1
<1>3. ASSUME NEW x \in ToSet(a \o b) PROVE x \in ToSet(a) \cup ToSet(b)
  <2>1. PICK i \in 1..(Len(a) + Len(b)) : x = (a \o b)[i]
    BY <1>2 DEF ToSet
  <2>2. CASE i <= Len(a)
    BY <1>1, <1>2, <2>1, <2>2 DEF ToSet
  <2>3. CASE i > Len(a)
    <3>1. i - Len(a) \in DOMAIN b /\ x = b[i - Len(a)]
      BY <1>1, <1>2, <2>1, <2>3
    <3>2. QED BY <3>1 DEF ToSet
  <2>4. QED BY <1>2, <2>2, <2>3
<1>4. ASSUME NEW x \in ToSet(a) PROVE x \in ToSet(a \o b)
  <2>1. PICK i \in 1..Len(a) : x = a[i]
    BY <1>2 DEF ToSet
  <2>2. i \in DOMAIN (a \o b) /\ x = (a \o b)[i]
    BY <1>1, <1>2, <2>1
  <2>3. QED BY <2>2 DEF ToSet
<1>5. ASSUME NEW x \in ToSet(b) PROVE x \in ToSet(a \o b)
  <2>1. PICK i \in 1..Len(b) : x = b[i]
    BY <1>2 DEF ToSet
  <2>2. i + Len(a) \in DOMAIN (a \o b) /\ x = (a \o b)[i + Len(a)]
    BY <1>1, <1>2, <2>1
  <2>3. QED BY <2>2 DEF ToSet
<1>6. QED BY <1>1, <1>3, <1>4, <1>5

(* A page has the rows whose rank is between the offset and the limit, and *)
(* each of them once.                                                      *)
LEMMA PageRows ==
    ASSUME Types, NEW query \in Queries, Ordered(Matching(query))
    PROVE  LET found == Matching(query)
               granted == Smaller(query.limit, MaxLimit) IN
           /\ Page(query) \in Seq(Rows)
           /\ ToSet(Page(query)) \subseteq found
           /\ Cardinality(ToSet(Page(query))) = Len(Page(query))
           /\ query.offset <= Cardinality(found) =>
                 Len(Page(query)) = Smaller(query.offset + granted, Cardinality(found))
                                        - query.offset
           /\ \A x \in found : x \in ToSet(Page(query)) <=>
                 query.offset <= Rank(x, found) /\ Rank(x, found) < query.offset + granted
<1> DEFINE found == Matching(query)
           granted == Smaller(query.limit, MaxLimit)
           sorted == NewestFirst(found)
           size == Cardinality(found)
           last == Smaller(query.offset + granted, Len(sorted))
           rows == SubSeq(sorted, query.offset + 1, last)
<1>1. Page(query) = rows
  BY DEF Page
<1>2. query.offset \in Nat /\ query.limit \in Nat /\ granted \in Nat /\ size \in Nat
  BY ListingAssumption, Sized DEF Queries, Smaller, Ordered
<1>3. /\ sorted \in Seq(found) /\ Len(sorted) = size
      /\ \A i \in 1..size : sorted[i] \in found /\ Rank(sorted[i], found) = i - 1
      /\ \A x \in found : sorted[Rank(x, found) + 1] = x
  BY SortedRows
<1>4. \A x \in found : Rank(x, found) \in Nat /\ Rank(x, found) < size
  BY RankIsPosition
<1>5. last \in Nat /\ last <= size /\ last <= query.offset + granted
      /\ (last = size \/ last = query.offset + granted)
  BY <1>2, <1>3 DEF Smaller
<1>6. found \subseteq Rows
  BY DEF Ordered
<1> HIDE DEF found, granted, sorted, size, last
<1>7. /\ rows \in Seq(found)
      /\ Len(rows) = IF query.offset + 1 <= last THEN last - query.offset ELSE 0
      /\ \A i \in 1..(last - query.offset) : rows[i] = sorted[query.offset + i]
  <2>1. \A i \in (query.offset + 1)..last : sorted[i] \in found
    BY <1>2, <1>3, <1>5
  <2>2. /\ rows \in Seq(found)
        /\ Len(rows) = IF query.offset + 1 <= last THEN last - (query.offset + 1) + 1 ELSE 0
        /\ \A i \in 1..(last - (query.offset + 1) + 1) :
              rows[i] = sorted[(query.offset + 1) + i - 1]
    BY <1>2, <1>5, <2>1, SubSeqProperties
  <2>3. \A i \in 1..(last - query.offset) : rows[i] = sorted[query.offset + i]
    <3>1. ASSUME NEW i \in 1..(last - query.offset) PROVE rows[i] = sorted[query.offset + i]
      <4>1. i \in 1..(last - (query.offset + 1) + 1) /\ (query.offset + 1) + i - 1 = query.offset + i
        BY <1>2, <1>5
      <4>2. QED BY <2>2, <4>1
    <3>2. QED BY <3>1
  <2>4. QED BY <1>2, <1>5, <2>2, <2>3
<1> HIDE DEF rows
<1>8. /\ DOMAIN rows = 1..Len(rows) /\ Len(rows) \in Nat
      /\ \A i \in 1..Len(rows) : /\ query.offset + i \in 1..size
                                 /\ rows[i] = sorted[query.offset + i]
                                 /\ query.offset + i <= last
  <2>1. DOMAIN rows = 1..Len(rows) /\ Len(rows) \in Nat
    BY <1>7
  <2>2. ASSUME NEW i \in 1..Len(rows)
        PROVE  /\ query.offset + i \in 1..size /\ query.offset + i <= last
               /\ rows[i] = sorted[query.offset + i]
    <3>1. i \in 1..(last - query.offset)
      <4>1. PICK n \in Nat : n = Len(rows)
        BY <2>1
      <4>2. n = (IF query.offset + 1 <= last THEN last - query.offset ELSE 0)
        BY <1>7, <4>1
      <4>3. i \in 1..n
        BY <4>1
      <4>4. CASE query.offset + 1 <= last
        BY <4>2, <4>3, <4>4
      <4>5. CASE ~(query.offset + 1 <= last)
        <5>1. n = 0
          BY <4>2, <4>5
        <5>2. QED BY <4>3, <5>1
      <4>6. QED BY <4>4, <4>5
    <3>2. query.offset + i \in 1..size /\ query.offset + i <= last
      BY <1>2, <1>5, <3>1
    <3>3. rows[i] = sorted[query.offset + i]
      BY <1>7, <3>1
    <3>4. QED BY <3>2, <3>3
  <2>3. QED BY <2>1, <2>2
<1>9. rows \in Seq(Rows)
  BY <1>6, <1>7
<1>10. \A i \in 1..Len(rows) :
          rows[i] \in found /\ Rank(rows[i], found) = query.offset + i - 1
  <2> SUFFICES ASSUME NEW i \in 1..Len(rows)
               PROVE  rows[i] \in found /\ Rank(rows[i], found) = query.offset + i - 1
    OBVIOUS
  <2>1. PICK k \in 1..size : k = query.offset + i
    BY <1>8
  <2>2. rows[i] = sorted[k]
    BY <1>8, <2>1
  <2>3. sorted[k] \in found /\ Rank(sorted[k], found) = k - 1
    BY <1>3
  <2>4. Rank(rows[i], found) = k - 1
    BY <2>2, <2>3
  <2>5. rows[i] \in found
    BY <2>2, <2>3
  <2>6. k - 1 = query.offset + i - 1
    BY <1>2, <1>8, <2>1
  <2>7. QED BY <2>4, <2>5, <2>6
<1>11. ASSUME NEW x \in ToSet(rows)
       PROVE  /\ x \in found
              /\ query.offset <= Rank(x, found) /\ Rank(x, found) < query.offset + granted
  <2>1. PICK i \in 1..Len(rows) : x = rows[i]
    BY <1>8 DEF ToSet
  <2>2. x \in found /\ Rank(x, found) = query.offset + i - 1
    BY <1>10, <2>1
  <2>3. query.offset + i <= last /\ i \in Nat /\ i >= 1
    BY <1>8, <2>1
  <2>4. query.offset <= query.offset + i - 1 /\ query.offset + i - 1 < query.offset + granted
    BY <1>2, <1>5, <2>3
  <2>5. QED BY <2>2, <2>4
<1>12. ASSUME NEW x \in found,
              query.offset <= Rank(x, found), Rank(x, found) < query.offset + granted
       PROVE  x \in ToSet(rows)
  <2>1. PICK k \in Nat : k = Rank(x, found)
    BY <1>4
  <2>2. k + 1 <= last /\ query.offset <= k
    BY <1>2, <1>4, <1>5, <1>12, <2>1
  <2>3. (k + 1) - query.offset \in 1..Len(rows)
    <3>1. query.offset + 1 <= last /\ (k + 1) - query.offset \in 1..(last - query.offset)
      BY <1>2, <1>5, <2>1, <2>2
    <3>2. QED BY <1>7, <3>1
  <2>4. rows[(k + 1) - query.offset] = sorted[k + 1]
    <3>1. query.offset + ((k + 1) - query.offset) = k + 1
      BY <1>2, <2>1
    <3>2. QED BY <1>8, <2>3, <3>1
  <2>5. sorted[k + 1] = x
    BY <1>3, <2>1
  <2>6. QED BY <1>8, <2>3, <2>4, <2>5 DEF ToSet
<1>13. Cardinality(ToSet(rows)) = Len(rows)
  <2>1. rows \in Injection(1..Len(rows), ToSet(rows))
    <3>1. rows \in [1..Len(rows) -> ToSet(rows)]
      <4>1. \A i \in 1..Len(rows) : rows[i] \in ToSet(rows)
        BY <1>8 DEF ToSet
      <4>2. rows \in [1..Len(rows) -> found]
        BY <1>7
      <4>3. QED BY <4>1, <4>2
    <3>2. ASSUME NEW i \in 1..Len(rows), NEW j \in 1..Len(rows), rows[i] = rows[j]
          PROVE  i = j
      <4>1. query.offset + i - 1 = query.offset + j - 1
        BY <1>10, <3>2
      <4>2. QED BY <1>2, <1>8, <4>1
    <3>3. QED BY <1>8, <3>1, <3>2 DEF Injection, IsInjective
  <2>2. IsFiniteSet(ToSet(rows)) /\ Cardinality(ToSet(rows)) \in Nat
        /\ Cardinality(ToSet(rows)) <= Len(rows)
    BY <1>9, SetOfList
  <2>3. Cardinality(1..Len(rows)) = Len(rows)
    BY <1>8, Counting
  <2>4. Cardinality(1..Len(rows)) <= Cardinality(ToSet(rows))
    BY <2>1, <2>2, FS_Injection
  <2>5. QED BY <1>8, <2>2, <2>3, <2>4
<1>14. ASSUME query.offset <= size PROVE Len(rows) = last - query.offset
  BY <1>2, <1>5, <1>7, <1>14 DEF Smaller, last
<1>15. last = Smaller(query.offset + granted, size)
  BY <1>3 DEF last
<1>16. QED BY <1>1, <1>9, <1>11, <1>12, <1>13, <1>14, <1>15 DEF found, granted, size

-----------------------------------------------------------------------------
(* The walk.                                                               *)

Asked(c) == call[c] # NoCall
Limit(c) == call[c].query.limit
Found(c) == Matching(call[c].query)

(* A walk has one call, and a dashboard has no walk.                       *)
OneWalk ==
    /\ walk.phase = "none" => walk.got = <<>>
    /\ client = "dashboard" => walk.phase = "none"
    /\ client = "walker" => \A c \in Callers : Asked(c) =>
          /\ walk.phase # "none"
          /\ walk.phase = "done" => call[c].phase = "answered"
          /\ walk.phase = "not_found" => call[c].phase = "not_found"
          /\ \A d \in Callers : Asked(d) => c = d

(* What the walk has with the page that is answered but not yet taken, and *)
(* the offset it has come to.                                              *)
Answering(c) == call[c].phase = "answered" /\ walk.phase = "walking"
Taken(c) == IF Answering(c) THEN walk.got \o call[c].items ELSE walk.got
Reached(c) == IF call[c].phase = "answered" THEN call[c].query.offset + Limit(c)
              ELSE call[c].query.offset

(* The rows that were there when it began and are not taken, and those of  *)
(* them that the offset has passed.                                        *)
Untaken(c) == walk.before \ ToSet(Taken(c))
Passed(c) == {x \in Untaken(c) : Rank(x, Found(c)) < Reached(c)}
Ended(c) == /\ call[c].phase = "answered"
            /\ walk.phase = "done" \/ (walk.phase = "walking" /\ ~HasMore(c))

(* The offset is among the rows, and has passed a row for each one that is *)
(* taken and each one it missed.                                           *)
Covers(c) ==
    /\ call[c].phase \in {"page", "answered"} => call[c].total <= Cardinality(Found(c))
    /\ call[c].phase = "answered" => call[c].total <= call[c].present
    /\ walk.phase = "walking" =>
          /\ call[c].query.offset <= Cardinality(Found(c))
          /\ Cardinality(Passed(c)) + Len(Taken(c)) <= Reached(c)
    /\ Ended(c) => Cardinality(Untaken(c)) + Len(Taken(c)) <= call[c].present

(* With a limit the server grants, the pages are full.                     *)
Filled(c) ==
    /\ walk.phase = "walking" =>
          Len(Taken(c)) >= IF call[c].phase = "answered"
                           THEN Smaller(Reached(c), call[c].present) ELSE Reached(c)
    /\ Ended(c) => Len(Taken(c)) >= call[c].total

(* Rows behind the offset that will be taken once more are as many as were *)
(* added and have not yet led to a repeat.                                 *)
Repeats(list) == Len(list) - Cardinality(ToSet(list))
Shifts(c) == Cardinality(Found(c) \ walk.before)
Repeating(c) ==
    /\ Repeats(Taken(c)) <= Shifts(c)
    /\ walk.phase = "walking" =>
          \E reach \in Nat :
             /\ \A x \in ToSet(Taken(c)) : Rank(x, Found(c)) < reach
             /\ Repeats(Taken(c)) + reach <= Shifts(c) + Reached(c)

(* The rows of a run: those of its severity, and as far as they are taken. *)
OfRun(query) ==
    {row \in Rows : /\ row[1] = query.scope
                    /\ query.severity \in {AnySeverity, Severity(row)}}
Exact(c) ==
    LET rows == OfRun(call[c].query) IN
    /\ call[c].phase \in {"count", "page", "answered"} =>
          status[call[c].query.scope] = "committed"
    /\ call[c].phase \in {"page", "answered"} => call[c].total = Cardinality(rows)
    /\ walk.phase = "walking" =>
          Taken(c) = SubSeq(NewestFirst(rows), 1, Smaller(Reached(c), Cardinality(rows)))
    /\ walk.phase = "done" => walk.got = NewestFirst(rows)

Sound(c) ==
    Asked(c) /\ walk.phase # "none" =>
        /\ walk.before \subseteq Found(c)
        /\ ToSet(Taken(c)) \subseteq Found(c)
        /\ Covers(c)
        /\ Limit(c) <= MaxLimit => Filled(c)
        /\ Repeating(c)
        /\ call[c].query.scope # AllRuns /\ Limit(c) <= MaxLimit => Exact(c)
WalkSound == \A c \in Callers : Sound(c)

-----------------------------------------------------------------------------
(* The loads of the dashboard: the rows it has are committed; a load that  *)
(* nothing overtook has them all, and every load all of those it read,     *)
(* but for the rows past the server's page.                                *)

OnPage(row) == Rank(row, Visible) < MaxLimit
HasOf(c, rows) == \A row \in rows : OnPage(row) => row \in ToSet(call[c].items)
Loading(c) ==
    Asked(c) =>
       /\ call[c].query = FirstPage(AllRuns, AnySeverity, DashboardLimit)
       /\ call[c].phase = "answered" =>
             /\ ToSet(call[c].items) \subseteq Visible
             /\ c \notin late => HasOf(c, ToSet(all))
             /\ \E read \in SUBSET Visible :
                   Cardinality(read) = call[c].present /\ HasOf(c, read)
LoadsGrow ==
    client = "dashboard" =>
        ToSet(all) \subseteq Visible /\ \A c \in Callers : Loading(c)

-----------------------------------------------------------------------------
(* Types and stamps are kept.                                              *)

(* The rows a query matches are stamped, and so in one order.              *)
LEMMA FoundIsOrdered ==
    ASSUME Types, Stamped, NEW query
    PROVE  Ordered(Matching(query))
<1>1. Matching(query) \subseteq Rows
  BY DEF Matching, Visible
<1>2. ASSUME NEW x \in Matching(query), NEW y \in Matching(query), x[1] # y[1]
      PROVE  detectedAt[x[1]] # detectedAt[y[1]]
  <2>1. x[1] \in Runs /\ y[1] \in Runs /\ status[x[1]] = "committed"
    BY <1>1, RowShape DEF Matching, Visible
  <2>2. detectedAt[x[1]] \in Nat /\ detectedAt[x[1]] # 0
    BY <2>1 DEF Types, Stamped
  <2>3. QED BY <1>2, <2>1, <2>2 DEF Stamped
<1>3. QED BY <1>1, <1>2 DEF Ordered

(* A call begins with a query and without rows.                            *)
LEMMA CalledTyped ==
    ASSUME Types, NEW c \in Callers, NEW query \in Queries, Called(c, query)
    PROVE  /\ call' \in [Callers -> {NoCall} \cup CallRecords]
           /\ call'[c].query = query
           /\ call'[c].phase = IF query.scope = AllRuns THEN "count" ELSE "find"
           /\ call'[c] # NoCall
           /\ \A d \in Callers \ {c} : call'[d] = call[d]
<1> DEFINE new == [phase |-> IF query.scope = AllRuns THEN "count" ELSE "find",
                   query |-> query, total |-> 0, items |-> <<>>, present |-> 0]
<1>1. new \in CallRecords
  BY DEF CallRecords
<1>2. call' = [call EXCEPT ![c] = new]
  BY DEF Called
<1>3. new.phase # "idle" /\ NoCall.phase = "idle"
  BY DEF NoCall
<1>4. new.query = query /\ new.phase = IF query.scope = AllRuns THEN "count" ELSE "find"
  OBVIOUS
<1> HIDE DEF new
<1>5. QED BY <1>1, <1>2, <1>3, <1>4 DEF Types

(* A call that was asked is a record, one that was not is idle.            *)
LEMMA AskedTyped ==
    ASSUME Types, NEW c \in Callers
    PROVE  /\ Asked(c) => call[c] \in CallRecords
           /\ Asked(c) <=> call[c].phase # "idle"
<1>1. call[c] \in {NoCall} \cup CallRecords
  BY DEF Types
<1>2. \A answer \in CallRecords : answer.phase # "idle"
  BY DEF CallRecords
<1>3. NoCall.phase = "idle"
  BY DEF NoCall
<1>4. QED BY <1>1, <1>2, <1>3 DEF Asked

(* A walk begins with the first rows, and asks for some.                   *)
LEMMA FirstPagesTyped ==
    \A query \in FirstPages : query \in Queries /\ query.offset = 0 /\ query.limit >= 1
BY ClientsAssumption DEF FirstPages, FirstPage, Queries

(* What each SELECT leaves of its call.                                    *)
LEMMA FoundTyped ==
    ASSUME Types, NEW c \in Callers, FindRun(c)
    PROVE  /\ call[c] \in CallRecords /\ call[c].phase = "find"
           /\ call'[c] = [call[c] EXCEPT !.phase = call'[c].phase]
           /\ call'[c].phase = IF status[call[c].query.scope] = "committed"
                               THEN "count" ELSE "not_found"
           /\ call'[c] \in CallRecords
           /\ \A d \in Callers \ {c} : call'[d] = call[d]
           /\ call' \in [Callers -> {NoCall} \cup CallRecords]
<1>1. call[c] \in CallRecords /\ call \in [Callers -> {NoCall} \cup CallRecords]
  BY AskedTyped DEF FindRun, Types
<1> DEFINE new == [call[c] EXCEPT
                     !.phase = IF status[call[c].query.scope] = "committed"
                               THEN "count" ELSE "not_found"]
<1>2. call' = [call EXCEPT ![c] = new]
  BY DEF FindRun
<1>3. new \in CallRecords
  BY <1>1 DEF CallRecords
<1>4. new.phase = IF status[call[c].query.scope] = "committed"
                  THEN "count" ELSE "not_found"
  BY <1>1 DEF CallRecords
<1>5. call'[c] = new
  BY <1>1, <1>2
<1>6. QED BY <1>1, <1>2, <1>3, <1>4, <1>5 DEF FindRun

(* The count notes how many rows it saw.                                   *)
LEMMA CountTyped ==
    ASSUME Types, NEW c \in Callers, CountRows(c)
    PROVE  /\ call[c] \in CallRecords /\ call[c].phase = "count"
           /\ call'[c] = [call[c] EXCEPT
                 !.phase = "page", !.total = Cardinality(Matching(call[c].query))]
           /\ call'[c] \in CallRecords
           /\ \A d \in Callers \ {c} : call'[d] = call[d]
           /\ call' \in [Callers -> {NoCall} \cup CallRecords]
<1>1. call[c] \in CallRecords /\ call \in [Callers -> {NoCall} \cup CallRecords]
  BY AskedTyped DEF CountRows, Types
<1> DEFINE total == Cardinality(Matching(call[c].query))
<1>2. total \in Nat
  BY Sized DEF Matching, Visible
<1> HIDE DEF total
<1> DEFINE new == [call[c] EXCEPT !.phase = "page", !.total = total]
<1>3. call' = [call EXCEPT ![c] = new]
  BY DEF CountRows, total
<1>4. new \in CallRecords
  BY <1>1, <1>2 DEF CallRecords
<1>5. QED BY <1>1, <1>3, <1>4 DEF CountRows, total

(* The page notes its rows, and how many there are.                        *)
LEMMA PageTyped ==
    ASSUME Types, Stamped, NEW c \in Callers, SelectPage(c)
    PROVE  /\ call[c] \in CallRecords /\ call[c].phase = "page"
           /\ call'[c] = [call[c] EXCEPT
                 !.phase = "answered",
                 !.items = Page(call[c].query),
                 !.present = Cardinality(Matching(call[c].query))]
           /\ call'[c] \in CallRecords
           /\ \A d \in Callers \ {c} : call'[d] = call[d]
           /\ call' \in [Callers -> {NoCall} \cup CallRecords]
<1>1. call[c] \in CallRecords /\ call \in [Callers -> {NoCall} \cup CallRecords]
  BY AskedTyped DEF SelectPage, Types
<1>2. Page(call[c].query) \in Seq(Rows)
  <2>1. call[c].query \in Queries
    BY <1>1 DEF CallRecords
  <2>2. QED BY <2>1, FoundIsOrdered, PageRows
<1> DEFINE items == Page(call[c].query)
           present == Cardinality(Matching(call[c].query))
<1>3. items \in Seq(Rows) /\ present \in Nat
  BY <1>2, Sized DEF Matching, Visible
<1>4. call' = [call EXCEPT ![c] = [call[c] EXCEPT
                  !.phase = "answered", !.items = items, !.present = present]]
  BY DEF SelectPage
<1> HIDE DEF items, present
<1>5. [call[c] EXCEPT !.phase = "answered", !.items = items, !.present = present] \in CallRecords
  BY <1>1, <1>3 DEF CallRecords
<1>6. QED BY <1>1, <1>4, <1>5 DEF SelectPage, items, present

(* A run is stamped when it flushes, later than every other run.           *)
LEMMA StampsKept ==
    ASSUME Types, Stamped, TableStep
    PROVE  /\ status' \in [Runs -> {"new", "flushed", "committed", "rolled_back"}]
           /\ detectedAt' \in [Runs -> Nat]
           /\ Stamped'
<1>1. Stamps \in SUBSET Runs /\ IsFiniteSet(Stamps) /\ Cardinality(Stamps) \in Nat
  BY ListingAssumption, FS_Subset, FS_CardinalityType DEF Stamps
<1>2. ASSUME NEW r \in Runs, Flush(r)
      PROVE  /\ status' \in [Runs -> {"new", "flushed", "committed", "rolled_back"}]
             /\ detectedAt' \in [Runs -> Nat]
             /\ Stamped'
  <2>1. /\ status[r] = "new" /\ status' = [status EXCEPT ![r] = "flushed"]
        /\ detectedAt' = [detectedAt EXCEPT ![r] = 1 + Cardinality(Stamps)]
    BY <1>2 DEF Flush, Stamps
  <2>2. r \notin Stamps
    BY <2>1 DEF Stamped, Stamps
  <2>3. Stamps' = Stamps \cup {r}
    <3>1. detectedAt'[r] > 0 /\ \A s \in Runs : s # r => detectedAt'[s] = detectedAt[s]
      BY <1>1, <2>1 DEF Types
    <3>2. QED BY <3>1 DEF Stamps
  <2>4. Cardinality(Stamps') = Cardinality(Stamps) + 1
    BY <1>1, <2>2, <2>3, FS_AddElement
  <2>5. \A s \in Runs : detectedAt[s] \in Nat /\ detectedAt[s] <= Cardinality(Stamps)
    BY DEF Types, Stamped
  <2>6. \A s \in Runs : /\ status'[s] = IF s = r THEN "flushed" ELSE status[s]
                        /\ detectedAt'[s] = IF s = r THEN 1 + Cardinality(Stamps)
                                            ELSE detectedAt[s]
    BY <2>1 DEF Types
  <2>7. /\ status' \in [Runs -> {"new", "flushed", "committed", "rolled_back"}]
        /\ detectedAt' \in [Runs -> Nat]
    BY <1>1, <2>1 DEF Types
  <2>8. \A s \in Runs : status'[s] = "new" <=> detectedAt'[s] = 0
    BY <1>1, <2>6 DEF Stamped
  <2>9. \A s \in Runs : detectedAt'[s] <= Cardinality(Stamps')
    BY <1>1, <2>4, <2>5, <2>6
  <2>10. \A s, t \in Runs : detectedAt'[s] = detectedAt'[t] /\ detectedAt'[s] > 0 => s = t
    BY <1>1, <2>5, <2>6 DEF Stamped
  <2>11. QED BY <2>7, <2>8, <2>9, <2>10 DEF Stamped
<1>3. ASSUME NEW r \in Runs, Commit(r) \/ Rollback(r)
      PROVE  /\ status' \in [Runs -> {"new", "flushed", "committed", "rolled_back"}]
             /\ detectedAt' \in [Runs -> Nat]
             /\ Stamped'
  <2>1. /\ status[r] = "flushed" /\ detectedAt' = detectedAt
        /\ \A s \in Runs : s # r => status'[s] = status[s]
        /\ status'[r] \in {"committed", "rolled_back"}
        /\ status' \in [Runs -> {"new", "flushed", "committed", "rolled_back"}]
    BY <1>3 DEF Commit, Rollback, Types
  <2>2. Stamps' = Stamps
    BY <2>1 DEF Stamps
  <2>3. QED BY <2>1, <2>2 DEF Types, Stamped
<1>4. QED BY <1>2, <1>3 DEF TableStep

(* Every step keeps the types and the stamps.                              *)
LEMMA TypesKept ==
    ASSUME Types, Stamped, [Next]_vars
    PROVE  Types' /\ Stamped'
<1>1. CASE UNCHANGED vars
  BY <1>1 DEF vars, Types, Stamped, Stamps
<1>2. CASE TableStep /\ UNCHANGED clientVars
  <2>1. UNCHANGED <<call, client, walk, all>>
    BY <1>2 DEF TableStep, Flush, Commit, Rollback, clientVars, dashboardVars
  <2>2. QED BY <1>2, <2>1, StampsKept DEF Types
<1>3. ASSUME call' \in [Callers -> {NoCall} \cup CallRecords],
             walk' \in [phase : {"none", "walking", "done", "not_found"},
                        got : Seq(Rows), before : SUBSET Rows],
             all' \in Seq(Rows),
             UNCHANGED <<status, detectedAt, client>>
      PROVE  Types' /\ Stamped'
  BY <1>3 DEF Types, Stamped, Stamps
<1>4. CASE CallStep /\ UNCHANGED clientVars
  <2>1. PICK c \in Callers : FindRun(c) \/ CountRows(c) \/ SelectPage(c)
    BY <1>4 DEF CallStep
  <2>2. call' \in [Callers -> {NoCall} \cup CallRecords]
    BY <2>1, FoundTyped, CountTyped, PageTyped
  <2>3. UNCHANGED <<status, detectedAt, client, walk, all>>
    BY <1>4, <2>1 DEF FindRun, CountRows, SelectPage, clientVars, dashboardVars
  <2>4. QED BY <1>3, <2>2, <2>3 DEF Types
<1>5. ASSUME NEW c \in Callers, NEW query \in Queries, StartWalk(c, query)
      PROVE  Types' /\ Stamped'
  <2>1. call' \in [Callers -> {NoCall} \cup CallRecords]
    BY <1>5, CalledTyped DEF StartWalk
  <2>2. Matching(query) \in SUBSET Rows
    BY DEF Matching, Visible
  <2>3. walk' = [walk EXCEPT !.phase = "walking", !.before = Matching(query)]
    BY <1>5 DEF StartWalk
  <2>4. walk' \in [phase : {"none", "walking", "done", "not_found"},
                   got : Seq(Rows), before : SUBSET Rows]
    BY <2>2, <2>3 DEF Types
  <2>5. UNCHANGED <<status, detectedAt, client, all>>
    BY <1>5 DEF StartWalk, dashboardVars
  <2>6. QED BY <1>3, <2>1, <2>4, <2>5 DEF Types
<1>6. ASSUME NEW c \in Callers, TakePage(c)
      PROVE  Types' /\ Stamped'
  <2>1. call[c] \in CallRecords
    BY <1>6, AskedTyped DEF TakePage
  <2>2. call' \in [Callers -> {NoCall} \cup CallRecords]
    <3>1. CASE HasMore(c)
      <4>1. [call[c].query EXCEPT !.offset = @ + call[c].query.limit] \in Queries
        BY <2>1 DEF CallRecords, Queries
      <4>2. QED BY <1>6, <3>1, <4>1, CalledTyped DEF TakePage
    <3>2. CASE ~HasMore(c)
      BY <1>6, <3>2 DEF TakePage, Types
    <3>3. QED BY <3>1, <3>2
  <2>3. walk' \in [phase : {"none", "walking", "done", "not_found"},
                   got : Seq(Rows), before : SUBSET Rows]
    <3>1. walk.got \o call[c].items \in Seq(Rows)
      BY <2>1, ConcatProperties DEF Types, CallRecords
    <3> DEFINE taken == walk.got \o call[c].items
               phase == IF HasMore(c) THEN walk.phase ELSE "done"
    <3>2. phase \in {"none", "walking", "done", "not_found"}
      BY DEF Types
    <3>3. walk' = [walk EXCEPT !.got = taken, !.phase = phase]
      BY <1>6 DEF TakePage
    <3> HIDE DEF taken, phase
    <3>4. taken \in Seq(Rows)
      BY <3>1 DEF taken
    <3>5. QED BY <3>2, <3>3, <3>4 DEF Types
  <2>4. UNCHANGED <<status, detectedAt, client, all>>
    BY <1>6 DEF TakePage, dashboardVars
  <2>5. QED BY <1>3, <2>2, <2>3, <2>4 DEF Types
<1>7. ASSUME NEW c \in Callers, WalkRefused(c)
      PROVE  Types' /\ Stamped'
  <2>1. /\ walk' = [walk EXCEPT !.phase = "not_found"]
        /\ UNCHANGED <<status, detectedAt, call, client, all>>
    BY <1>7 DEF WalkRefused, dashboardVars
  <2>2. walk' \in [phase : {"none", "walking", "done", "not_found"},
                   got : Seq(Rows), before : SUBSET Rows]
    BY <2>1 DEF Types
  <2>3. QED BY <1>3, <2>1, <2>2 DEF Types
<1>8. CASE Walks
  BY <1>5, <1>6, <1>7, <1>8, FirstPagesTyped DEF Walks
<1>9. ASSUME NEW c \in Callers, loadData(c)
      PROVE  Types' /\ Stamped'
  <2>1. FirstPage(AllRuns, AnySeverity, DashboardLimit) \in Queries
    BY ClientsAssumption DEF FirstPage, Queries
  <2>2. call' \in [Callers -> {NoCall} \cup CallRecords]
    BY <1>9, <2>1, CalledTyped DEF loadData
  <2>3. UNCHANGED <<status, detectedAt, client, walk, all>>
    BY <1>9 DEF loadData
  <2>4. QED BY <1>3, <2>2, <2>3 DEF Types
<1>10. ASSUME NEW c \in Callers, LoadArrives(c) \/ LoadFails(c)
       PROVE  Types' /\ Stamped'
  <2>1. call[c] \in CallRecords
    BY <1>10, AskedTyped DEF LoadArrives, Loaded, LoadFails
  <2>2. /\ call' = [call EXCEPT ![c] = NoCall]
        /\ all' \in {all, call[c].items}
        /\ UNCHANGED <<status, detectedAt, client, walk>>
    BY <1>10 DEF LoadArrives, Loaded, LoadFails, dashboardVars
  <2>3. call' \in [Callers -> {NoCall} \cup CallRecords] /\ all' \in Seq(Rows)
    BY <2>1, <2>2 DEF Types, CallRecords
  <2>4. QED BY <1>3, <2>2, <2>3 DEF Types
<1>11. ASSUME (\E severity : applyFilters(severity)) \/ nextPage \/ prevPage
       PROVE  Types' /\ Stamped'
  <2>1. UNCHANGED <<status, detectedAt, call, client, walk, all>>
    BY <1>11 DEF applyFilters, nextPage, prevPage
  <2>2. QED BY <1>3, <2>1 DEF Types
<1>12. CASE Browses
  BY <1>9, <1>10, <1>11, <1>12 DEF Browses
<1>13. QED BY <1>1, <1>2, <1>4, <1>8, <1>12 DEF Next

(* Every step leaves the walk with one call.                               *)
LEMMA OneWalkKept ==
    ASSUME Types, OneWalk, [Next]_vars
    PROVE  OneWalk'
<1>1. ASSUME UNCHANGED <<client, walk, call>> PROVE OneWalk'
  BY <1>1 DEF OneWalk, Asked
<1>2. CASE CallStep /\ UNCHANGED clientVars
  <2>1. PICK c \in Callers : FindRun(c) \/ CountRows(c) \/ SelectPage(c)
    BY <1>2 DEF CallStep
  <2>2. UNCHANGED <<client, walk>>
    BY <1>2 DEF clientVars
  <2>3. /\ call[c].phase \in {"find", "count", "page"}
        /\ \A d \in Callers \ {c} : call'[d] = call[d]
    BY <2>1 DEF FindRun, CountRows, SelectPage, Types
  <2>4. Asked(c) /\ \A d \in Callers : Asked(d)' => Asked(d)
    BY <2>3, AskedTyped DEF Asked
  <2>5. client = "walker" => walk.phase \notin {"done", "not_found"}
    BY <2>3, <2>4 DEF OneWalk
  <2>6. QED BY <2>2, <2>4, <2>5 DEF OneWalk
<1>3. ASSUME NEW c \in Callers, NEW query \in Queries, StartWalk(c, query)
      PROVE  OneWalk'
  <2>1. /\ client = "walker" /\ client' = client /\ walk.phase = "none"
        /\ walk'.phase = "walking"
    BY <1>3 DEF StartWalk, Types
  <2>2. \A d \in Callers : Asked(d)' => d = c
    BY <1>3, <2>1, CalledTyped DEF StartWalk, OneWalk, Asked
  <2>3. QED BY <2>1, <2>2 DEF OneWalk
<1>4. ASSUME NEW c \in Callers, TakePage(c)
      PROVE  OneWalk'
  <2>1. /\ walk.phase = "walking" /\ call[c].phase = "answered" /\ client' = client
        /\ walk'.phase = IF HasMore(c) THEN "walking" ELSE "done"
    BY <1>4 DEF TakePage, Types
  <2>2. Asked(c) /\ client = "walker" /\ \A d \in Callers : Asked(d) => d = c
    BY <2>1, AskedTyped DEF OneWalk, Types
  <2>3. CASE HasMore(c)
    <3>1. call[c] \in CallRecords
      BY <2>2, AskedTyped
    <3>2. [call[c].query EXCEPT !.offset = @ + call[c].query.limit] \in Queries
      BY <3>1 DEF CallRecords, Queries
    <3>3. \A d \in Callers : Asked(d)' => d = c
      BY <1>4, <2>2, <2>3, <3>2, CalledTyped DEF TakePage, Asked
    <3>4. QED BY <2>1, <2>3, <3>3 DEF OneWalk
  <2>4. CASE ~HasMore(c)
    <3>1. call' = call
      BY <1>4, <2>4 DEF TakePage
    <3>2. QED BY <2>1, <2>2, <2>4, <3>1 DEF OneWalk, Asked
  <2>5. QED BY <2>3, <2>4
<1>5. ASSUME NEW c \in Callers, WalkRefused(c)
      PROVE  OneWalk'
  <2>1. /\ walk.phase = "walking" /\ call[c].phase = "not_found"
        /\ client' = client /\ call' = call /\ walk'.phase = "not_found"
    BY <1>5 DEF WalkRefused, Types
  <2>2. Asked(c) /\ client = "walker" /\ \A d \in Callers : Asked(d) => d = c
    BY <2>1, AskedTyped DEF OneWalk, Types
  <2>3. QED BY <2>1, <2>2 DEF OneWalk, Asked
<1>6. CASE Walks
  BY <1>3, <1>4, <1>5, <1>6, FirstPagesTyped DEF Walks
<1>7. CASE client = "dashboard" /\ client' = client /\ walk' = walk
  BY <1>7 DEF OneWalk
<1>8. CASE Browses
  BY <1>7, <1>8 DEF Browses, loadData, LoadArrives, Loaded, LoadFails, applyFilters,
                    nextPage, prevPage
<1>9. CASE TableStep /\ UNCHANGED clientVars
  BY <1>1, <1>9 DEF TableStep, Flush, Commit, Rollback, clientVars
<1>10. CASE UNCHANGED vars
  BY <1>1, <1>10 DEF vars
<1>11. QED BY <1>2, <1>6, <1>8, <1>9, <1>10 DEF Next

-----------------------------------------------------------------------------
(* What a table step does to a walk.                                       *)

(* There are no more rows than ranks.                                      *)
LEMMA RanksBetween ==
    ASSUME Types, NEW rows, Ordered(rows), NEW some \in SUBSET rows,
           NEW low \in Nat, NEW high \in Nat, low <= high,
           \A x \in some : low <= Rank(x, rows) /\ Rank(x, rows) < high
    PROVE  Cardinality(some) <= high - low
<1> DEFINE position == [x \in some |-> Rank(x, rows) - low + 1]
           size == high - low
<1>1. IsFiniteSet(some) /\ Cardinality(some) \in Nat /\ size \in Nat
  BY Sized DEF Ordered
<1>2. \A x \in some : Rank(x, rows) \in Nat
  BY RankIsPosition
<1>3. position \in Injection(some, 1..size)
  <2>1. position \in [some -> 1..size]
    BY <1>2
  <2>2. ASSUME NEW x \in some, NEW y \in some, position[x] = position[y]
        PROVE  x = y
    <3>1. Rank(x, rows) = Rank(y, rows)
      BY <1>2, <2>2
    <3>2. QED BY <3>1, RankIsPosition
  <2> HIDE DEF position, size
  <2>3. QED BY <2>1, <2>2 DEF Injection, IsInjective
<1>4. IsFiniteSet(1..size) /\ Cardinality(1..size) = size
  BY <1>1, Counting
<1> HIDE DEF position, size
<1>5. Cardinality(some) <= Cardinality(1..size)
  BY <1>3, <1>4, FS_Injection
<1>6. QED BY <1>4, <1>5 DEF size

(* A longer list has no fewer repeats.                                     *)
LEMMA RepeatsGrow ==
    ASSUME NEW a \in Seq(Rows), NEW b \in Seq(Rows)
    PROVE  /\ Repeats(a) \in Nat
           /\ Repeats(a \o b) = Repeats(a) + Len(b) - Cardinality(ToSet(b) \ ToSet(a))
           /\ Repeats(a) <= Repeats(a \o b)
<1>1. /\ IsFiniteSet(ToSet(a)) /\ Cardinality(ToSet(a)) \in Nat
      /\ Cardinality(ToSet(a)) <= Len(a) /\ Len(a) \in Nat
      /\ IsFiniteSet(ToSet(b)) /\ Cardinality(ToSet(b)) \in Nat
      /\ Cardinality(ToSet(b)) <= Len(b) /\ Len(b) \in Nat
  BY SetOfList
<1>2. ToSet(a \o b) = ToSet(a) \cup (ToSet(b) \ ToSet(a)) /\ Len(a \o b) = Len(a) + Len(b)
  BY SetOfBoth
<1>3. /\ IsFiniteSet(ToSet(b) \ ToSet(a))
      /\ Cardinality(ToSet(b) \ ToSet(a)) \in Nat
      /\ Cardinality(ToSet(b) \ ToSet(a)) <= Cardinality(ToSet(b))
  BY <1>1, FS_Subset, FS_CardinalityType
<1>4. ToSet(a) \cap (ToSet(b) \ ToSet(a)) = {}
  OBVIOUS
<1>5. Cardinality(ToSet(a \o b)) =
          Cardinality(ToSet(a)) + Cardinality(ToSet(b) \ ToSet(a))
  <2> DEFINE more == ToSet(b) \ ToSet(a)
  <2> HIDE DEF more
  <2>1. Cardinality(ToSet(a) \cup more) =
            Cardinality(ToSet(a)) + Cardinality(more) - Cardinality(ToSet(a) \cap more)
    BY <1>1, <1>3, FS_Union DEF more
  <2>2. Cardinality(ToSet(a) \cap more) = 0
    BY <1>4, FS_EmptySet DEF more
  <2>3. Cardinality(ToSet(a)) \in Nat /\ Cardinality(more) \in Nat
    BY <1>1, <1>3 DEF more
  <2>4. Cardinality(ToSet(a) \cup more) = Cardinality(ToSet(a)) + Cardinality(more)
    BY <2>1, <2>2, <2>3
  <2>5. QED BY <1>2, <2>4 DEF more
<1>6. QED BY <1>1, <1>2, <1>3, <1>5 DEF Repeats

(* Rows are added, and the order of the rows that were there stays.        *)
LEMMA TableGrows ==
    ASSUME Types, Stamped, TableStep
    PROVE  /\ call' = call
           /\ \A r \in Runs : status[r] = "committed" =>
                 status'[r] = "committed" /\ detectedAt'[r] = detectedAt[r]
<1>1. ASSUME NEW r \in Runs, Flush(r) \/ Commit(r) \/ Rollback(r)
      PROVE  /\ call' = call
             /\ \A s \in Runs : status[s] = "committed" =>
                   status'[s] = "committed" /\ detectedAt'[s] = detectedAt[s]
  BY <1>1 DEF Flush, Commit, Rollback, Types
<1>2. QED BY <1>1 DEF TableStep

(* A row moves back by no more places than rows were added.                *)
LEMMA RanksMove ==
    ASSUME Types, Stamped, TableStep, NEW query
    PROVE  LET found == Matching(query)
               added == Matching(query)' \ found IN
           /\ found \subseteq Matching(query)'
           /\ Matching(query)' \subseteq Rows
           /\ \A x, y \in found : DetectedAfter(x, y)' <=> DetectedAfter(x, y)
           /\ \A x \in found : /\ Rank(x, found) <= Rank(x, Matching(query))'
                               /\ Rank(x, Matching(query))' <= Rank(x, found) + Cardinality(added)
                               /\ Rank(x, Matching(query))' \in Nat
<1> DEFINE found == Matching(query)
           later == Matching(query)'
           added == later \ found
<1>1. found \subseteq Rows /\ later \subseteq Rows
  BY DEF Matching, Visible
<1>2. \A x \in found : /\ x[1] \in Runs /\ status[x[1]] = "committed"
                       /\ status'[x[1]] = "committed" /\ detectedAt'[x[1]] = detectedAt[x[1]]
  BY <1>1, RowShape, TableGrows DEF Matching, Visible
<1>3. found \subseteq later
  BY <1>1, <1>2 DEF Matching, Visible
<1>4. ASSUME NEW x \in found, NEW y \in found
      PROVE  DetectedAfter(x, y)' <=> DetectedAfter(x, y)
  BY <1>2 DEF DetectedAfter
<1>5. IsFiniteSet(found) /\ IsFiniteSet(later) /\ IsFiniteSet(added) /\ Cardinality(added) \in Nat
  BY <1>1, RowsFinite, FS_Subset, FS_CardinalityType
<1>6. ASSUME NEW x \in found
      PROVE  /\ Rank(x, found) <= Rank(x, Matching(query))'
             /\ Rank(x, Matching(query))' <= Rank(x, found) + Cardinality(added)
             /\ Rank(x, Matching(query))' \in Nat
  <2> DEFINE newer == Newer(x, found)
             newerLater == {other \in later : DetectedAfter(other, x)'}
  <2>1. Rank(x, Matching(query))' = Cardinality(newerLater) /\ Rank(x, found) = Cardinality(newer)
    BY DEF Rank, Newer
  <2>2. newer \subseteq newerLater /\ newerLater \subseteq newer \cup added
    BY <1>3, <1>4 DEF Newer
  <2>3. newer \subseteq found /\ newerLater \subseteq later
    BY DEF Newer
  <2> HIDE DEF newer, newerLater, added, found, later
  <2>4. IsFiniteSet(newer) /\ IsFiniteSet(newerLater) /\ IsFiniteSet(newer \cup added)
    BY <1>5, <2>3, FS_Subset, FS_Union
  <2>5. /\ Cardinality(newer) <= Cardinality(newerLater)
        /\ Cardinality(newerLater) <= Cardinality(newer \cup added)
        /\ Cardinality(newer) \in Nat /\ Cardinality(newerLater) \in Nat
    BY <2>2, <2>4, FS_Subset, FS_CardinalityType
  <2>6. Cardinality(newer \cup added) <= Cardinality(newer) + Cardinality(added)
    <3>1. /\ Cardinality(newer \cup added) =
                Cardinality(newer) + Cardinality(added) - Cardinality(newer \cap added)
      BY <1>5, <2>4, FS_Union
    <3>2. Cardinality(newer \cap added) \in Nat
      BY <2>4, FS_Intersection, FS_CardinalityType
    <3>3. QED BY <1>5, <2>5, <3>1, <3>2
  <2>7. Cardinality(newer \cup added) \in Nat
    BY <2>4, FS_CardinalityType
  <2>8. QED BY <1>5, <2>1, <2>5, <2>6, <2>7
<1>7. QED BY <1>1, <1>3, <1>4, <1>6 DEF found, later, added

(* A run's rows are in the order they were added, whatever its stamp.      *)
LEMMA OfRunRows ==
    ASSUME Types, NEW query
    PROVE  Ordered(OfRun(query)) /\ OfRun(query) \in SUBSET Rows
BY DEF Ordered, OfRun

(* Whatever is stamped, the rows of one run keep their order.              *)
LEMMA NewestOfRunStays ==
    ASSUME Types, NEW query, detectedAt' \in [Runs -> Nat]
    PROVE  NewestFirst(OfRun(query))' = NewestFirst(OfRun(query))
<1> DEFINE rows == OfRun(query)
           size == Cardinality(rows)
           sorted == NewestFirst(rows)
           newer(x) == {y \in rows : \/ detectedAt'[y[1]] > detectedAt'[x[1]]
                                     \/ y[1] = x[1] /\ y[2] > x[2]}
<1>1. OfRun(query)' = rows
  BY DEF OfRun, Rows, Severity
<1>2. \A x \in rows : x[1] = query.scope /\ x[1] \in Runs
  BY RowShape DEF OfRun
<1>3. ASSUME NEW x \in rows PROVE newer(x) = Newer(x, rows)
  <2>1. \A y \in rows : /\ x[1] = y[1]
                        /\ detectedAt[x[1]] \in Nat /\ detectedAt'[x[1]] \in Nat
    BY <1>2 DEF Types
  <2>2. QED BY <2>1 DEF Newer, DetectedAfter
<1>5. NewestFirst(OfRun(query))' =
          [i \in 1..size |-> CHOOSE x \in rows :
              Cardinality(newer(x)) = i - 1]
  BY <1>1 DEF NewestFirst, Newer, DetectedAfter
<1>6. \A i \in 1..size : NewestFirst(OfRun(query))'[i] = sorted[i]
  <2> SUFFICES ASSUME NEW i \in 1..size
               PROVE  NewestFirst(OfRun(query))'[i] = sorted[i]
    OBVIOUS
  <2> DEFINE first == CHOOSE x \in rows :
                         Cardinality(newer(x)) = i - 1
  <2>1. NewestFirst(OfRun(query))'[i] = first
    BY <1>5
  <2>2. sorted[i] \in rows /\ Rank(sorted[i], rows) = i - 1
    BY OfRunRows, SortedRows
  <2> HIDE DEF sorted, rows, newer
  <2>3. Cardinality(newer(sorted[i])) = i - 1
    BY <1>3, <2>2 DEF Rank
  <2>4. first \in rows /\ Cardinality(newer(first)) = i - 1
    BY <2>2, <2>3
  <2> HIDE DEF first
  <2>5. Rank(first, rows) = i - 1
    BY <1>3, <2>4 DEF Rank
  <2>6. first = sorted[i]
    BY <2>2, <2>4, <2>5, OfRunRows, RankIsPosition DEF rows
  <2>7. QED BY <2>1, <2>6
<1>7. sorted = [i \in 1..size |-> CHOOSE x \in rows : Cardinality(Newer(x, rows)) = i - 1]
  BY DEF NewestFirst
<1> HIDE DEF rows, size
<1>8. QED BY <1>5, <1>6, <1>7 DEF rows

(* Commits leave what is said of a walk: rows added ahead of the offset    *)
(* come to be taken, rows added behind it shift one each.                  *)
LEMMA TableKeepsWalk ==
    ASSUME Types, Stamped, NEW c \in Callers, Sound(c), TableStep, UNCHANGED clientVars
    PROVE  Sound(c)'
<1> SUFFICES ASSUME Asked(c), walk.phase # "none"
             PROVE  /\ walk.before \subseteq Found(c)'
                    /\ ToSet(Taken(c))' \subseteq Found(c)'
                    /\ Covers(c)'
                    /\ Limit(c) <= MaxLimit => Filled(c)'
                    /\ Repeating(c)'
                    /\ call[c].query.scope # AllRuns /\ Limit(c) <= MaxLimit => Exact(c)'
  BY TableGrows DEF Sound, Asked, Limit, clientVars
<1> DEFINE query == call[c].query
           added == Found(c)' \ Found(c)
<1>1. /\ call' = call /\ walk' = walk
      /\ Taken(c)' = Taken(c) /\ Reached(c)' = Reached(c)
      /\ Found(c)' = Matching(query)'
  BY TableGrows DEF clientVars, Taken, Reached, Answering, Limit, Found
<1>2. /\ Found(c) \subseteq Found(c)' /\ Found(c)' \subseteq Rows
      /\ \A x \in Found(c) : /\ Rank(x, Found(c)) <= Rank(x, Found(c))'
                             /\ Rank(x, Found(c))' <= Rank(x, Found(c)) + Cardinality(added)
                             /\ Rank(x, Found(c))' \in Nat
  BY <1>1, RanksMove DEF Found
<1>3. /\ walk.before \subseteq Found(c) /\ ToSet(Taken(c)) \subseteq Found(c)
      /\ Repeating(c)
  BY DEF Sound
<1>4. /\ IsFiniteSet(added) /\ Cardinality(added) \in Nat
      /\ \A x \in Found(c) : Rank(x, Found(c)) \in Nat
  BY <1>2, RowsFinite, FS_Subset, FS_CardinalityType, Sized
<1>5. Shifts(c)' = Shifts(c) + Cardinality(added) /\ Shifts(c) \in Nat
  <2>1. Shifts(c)' = Cardinality((Found(c) \ walk.before) \cup added)
    <3>1. Found(c)' \ walk.before = (Found(c) \ walk.before) \cup added
      BY <1>2, <1>3
    <3>2. QED BY <1>1, <3>1 DEF Shifts
  <2>2. IsFiniteSet(Found(c) \ walk.before) /\ Shifts(c) \in Nat
    BY <1>2, RowsFinite, FS_Subset, FS_CardinalityType DEF Shifts
  <2>3. (Found(c) \ walk.before) \cap added = {}
    OBVIOUS
  <2> HIDE DEF added
  <2>4. Cardinality((Found(c) \ walk.before) \cap added) = 0
    BY <2>3, FS_EmptySet
  <2>5. Cardinality((Found(c) \ walk.before) \cup added) =
            Shifts(c) + Cardinality(added) - Cardinality((Found(c) \ walk.before) \cap added)
    BY <1>4, <2>2, FS_Union DEF Shifts
  <2>6. QED BY <1>4, <2>1, <2>2, <2>4, <2>5
<1>6. call[c] \in CallRecords /\ query \in Queries
      /\ Reached(c) \in Nat /\ Taken(c) \in Seq(Rows)
  <2>1. call[c] \in CallRecords
    BY AskedTyped
  <2>2. query \in Queries /\ query.offset \in Nat /\ query.limit \in Nat
    BY <2>1 DEF CallRecords, Queries
  <2>3. walk.got \in Seq(Rows) /\ call[c].items \in Seq(Rows)
    BY <2>1 DEF CallRecords, Types
  <2>4. QED BY <2>1, <2>2, <2>3, ConcatProperties DEF Reached, Taken, Limit
<1>7. Covers(c)' /\ (Filled(c) => Filled(c)')
  <2>1. Covers(c)
    BY DEF Sound
  <2>2. /\ Untaken(c)' = Untaken(c) /\ HasMore(c)' = HasMore(c) /\ Ended(c)' = Ended(c)
        /\ Len(Taken(c))' = Len(Taken(c))
    BY <1>1 DEF Untaken, ToSet, HasMore, Ended
  <2>3. Passed(c)' = {x \in Untaken(c) : Rank(x, Found(c))' < Reached(c)}
    BY <1>1, <2>2 DEF Passed
  <2>4. Passed(c)' \subseteq Passed(c)
    BY <1>2, <1>3, <1>4, <1>6, <2>3 DEF Passed, Untaken
  <2>5. IsFiniteSet(Found(c)') /\ IsFiniteSet(Passed(c)) /\ IsFiniteSet(Found(c))
    BY <1>2, <1>3, RowsFinite, FS_Subset DEF Passed, Untaken
  <2>6. /\ Cardinality(Passed(c)') <= Cardinality(Passed(c))
        /\ Cardinality(Found(c)) <= Cardinality(Found(c)')
        /\ Cardinality(Passed(c)) \in Nat /\ Cardinality(Passed(c)') \in Nat
        /\ Cardinality(Found(c)) \in Nat /\ Cardinality(Found(c)') \in Nat
    BY <1>2, <2>4, <2>5, FS_Subset, FS_CardinalityType
  <2>7. call[c].total \in Nat /\ query.offset \in Nat /\ Len(Taken(c)) \in Nat
    BY <1>6 DEF CallRecords, Queries
  <2>8. /\ Cardinality(Passed(c))' = Cardinality(Passed(c)')
        /\ Cardinality(Found(c))' = Cardinality(Found(c)')
        /\ Cardinality(Untaken(c))' = Cardinality(Untaken(c))
    BY <2>2
  <2>9. Covers(c)'
    <3>1. call[c].phase \in {"page", "answered"} => call[c].total <= Cardinality(Found(c)')
      BY <2>1, <2>6, <2>7 DEF Covers
    <3>2. walk.phase = "walking" =>
             /\ query.offset <= Cardinality(Found(c)')
             /\ Cardinality(Passed(c)') + Len(Taken(c)) <= Reached(c)
      BY <1>6, <2>1, <2>6, <2>7 DEF Covers
    <3>3. QED BY <1>1, <2>1, <2>2, <2>8, <3>1, <3>2 DEF Covers
  <2>10. Filled(c) => Filled(c)'
    BY <1>1, <2>2 DEF Filled, Smaller
  <2>11. QED BY <2>9, <2>10
<1>8. Repeating(c)'
  <2>1. Repeats(Taken(c)) <= Shifts(c) /\ Repeats(Taken(c)) \in Nat
    BY <1>3, <1>6, RepeatsGrow DEF Repeating
  <2>2. ASSUME walk.phase = "walking"
        PROVE  \E reach \in Nat :
                  /\ \A x \in ToSet(Taken(c)) : Rank(x, Found(c))' < reach
                  /\ Repeats(Taken(c)) + reach <= Shifts(c)' + Reached(c)
    <3>1. PICK reach \in Nat :
                  /\ \A x \in ToSet(Taken(c)) : Rank(x, Found(c)) < reach
                  /\ Repeats(Taken(c)) + reach <= Shifts(c) + Reached(c)
      BY <1>3, <2>2 DEF Repeating
    <3> DEFINE more == Cardinality(added)
    <3>2. more \in Nat /\ Shifts(c)' = Shifts(c) + more
      BY <1>4, <1>5
    <3>3. \A x \in ToSet(Taken(c)) : Rank(x, Found(c))' < reach + more
      BY <1>2, <1>3, <1>4, <3>1
    <3> HIDE DEF more
    <3>4. /\ reach + more \in Nat
          /\ Repeats(Taken(c)) + (reach + more) <= Shifts(c)' + Reached(c)
      BY <1>5, <1>6, <2>1, <3>1, <3>2
    <3>5. QED BY <3>3, <3>4
  <2>3. Repeats(Taken(c))' = Repeats(Taken(c))
    BY <1>1 DEF Repeats, ToSet
  <2>4. Repeats(Taken(c)) <= Shifts(c)'
    BY <1>4, <1>5, <2>1
  <2>5. Repeating(c)' <=>
          /\ Repeats(Taken(c)) <= Shifts(c)'
          /\ walk.phase = "walking" =>
                \E reach \in Nat :
                   /\ \A x \in ToSet(Taken(c)) : Rank(x, Found(c))' < reach
                   /\ Repeats(Taken(c)) + reach <= Shifts(c)' + Reached(c)
    BY <1>1, <2>3 DEF Repeating, ToSet
  <2>6. QED BY <2>2, <2>4, <2>5
<1>9. query.scope # AllRuns /\ Limit(c) <= MaxLimit => Exact(c)'
  <2> SUFFICES ASSUME query.scope # AllRuns, Exact(c) PROVE Exact(c)'
    BY DEF Sound
  <2>1. query.scope \in Runs
    BY <1>6 DEF Queries
  <2>2. status[query.scope] = "committed" => status'[query.scope] = "committed"
    BY <2>1, TableGrows
  <2>3. PICK asked : asked = query
    OBVIOUS
  <2>4. OfRun(call[c].query)' = OfRun(query)
    BY <1>1 DEF OfRun, Rows, Severity
  <2>5. NewestFirst(OfRun(call[c].query))' = NewestFirst(OfRun(query))
    <3>1. NewestFirst(OfRun(asked))' = NewestFirst(OfRun(asked))
      BY StampsKept, NewestOfRunStays
    <3>2. OfRun(asked)' = OfRun(asked) /\ OfRun(call[c].query)' = OfRun(asked)
      BY <2>3, <2>4 DEF OfRun, Rows, Severity
    <3>3. NewestFirst(OfRun(call[c].query))' = NewestFirst(OfRun(asked))'
      BY <3>2 DEF NewestFirst, Newer, DetectedAfter
    <3>4. QED BY <2>3, <3>1, <3>3
  <2>6. QED BY <1>1, <2>2, <2>4, <2>5 DEF Exact
<1>10. ToSet(Taken(c))' = ToSet(Taken(c))
  BY <1>1 DEF ToSet
<1>11. QED BY <1>2, <1>3, <1>7, <1>8, <1>9, <1>10 DEF Sound

-----------------------------------------------------------------------------
(* What the steps of the walk's own calls do to it.                        *)

(* The rows of a committed run are those its query finds.                  *)
LEMMA OfRunFound ==
    ASSUME NEW query, query.scope \in Runs, status[query.scope] = "committed"
    PROVE  Matching(query) = OfRun(query)
<1>1. query.scope # AllRuns
  BY ListingAssumption
<1>2. QED BY <1>1 DEF Matching, Visible, OfRun

(* A call that is asked in a walk is the walk's.                           *)
LEMMA WalkersCall ==
    ASSUME Types, OneWalk, NEW c \in Callers, Asked(c), walk.phase # "none"
    PROVE  /\ call[c] \in CallRecords /\ call[c].query \in Queries
           /\ call[c].query.offset \in Nat /\ Limit(c) \in Nat
           /\ call[c].items \in Seq(Rows)
           /\ Taken(c) \in Seq(Rows) /\ Reached(c) \in Nat
           /\ Found(c) \subseteq Rows
           /\ client = "walker"
           /\ walk.phase = "done" => call[c].phase = "answered"
           /\ walk.phase = "not_found" => call[c].phase = "not_found"
           /\ \A d \in Callers : Asked(d) => d = c
<1>1. call[c] \in CallRecords
  BY AskedTyped
<1>2. /\ call[c].query \in Queries /\ call[c].query.offset \in Nat /\ Limit(c) \in Nat
      /\ call[c].items \in Seq(Rows)
  BY <1>1 DEF CallRecords, Queries, Limit
<1>3. walk.got \in Seq(Rows)
  BY DEF Types
<1>4. Taken(c) \in Seq(Rows) /\ Reached(c) \in Nat
  BY <1>2, <1>3, ConcatProperties DEF Taken, Reached
<1>5. client = "walker"
  BY DEF Types, OneWalk
<1>6. QED BY <1>1, <1>2, <1>4, <1>5 DEF OneWalk, Found, Matching, Visible

(* The table and the question stay: so do the rows found and their order.  *)
LEMMA FoundStays ==
    ASSUME NEW c \in Callers, UNCHANGED <<status, detectedAt>>,
           call'[c].query.scope = call[c].query.scope,
           call'[c].query.severity = call[c].query.severity
    PROVE  /\ Found(c)' = Found(c)
           /\ \A x : Rank(x, Found(c))' = Rank(x, Found(c))
           /\ OfRun(call[c].query)' = OfRun(call[c].query)
           /\ NewestFirst(OfRun(call[c].query))' = NewestFirst(OfRun(call[c].query))
<1>1. Found(c)' = Found(c)
  BY DEF Found, Matching, Visible, Rows, Severity
<1>2. \A x : Rank(x, Found(c))' = Rank(x, Found(c))
  BY <1>1 DEF Rank, Newer, DetectedAfter
<1>3. OfRun(call[c].query)' = OfRun(call[c].query)
  BY DEF OfRun, Rows, Severity
<1>4. NewestFirst(OfRun(call[c].query))' = NewestFirst(OfRun(call[c].query))
  BY <1>3 DEF NewestFirst, Newer, DetectedAfter
<1>5. QED BY <1>1, <1>2, <1>3, <1>4

(* A step that takes no row and comes no further passes over none.         *)
LEMMA NothingPassed ==
    ASSUME NEW c \in Callers, UNCHANGED <<status, detectedAt>>,
           call'[c].query.scope = call[c].query.scope,
           call'[c].query.severity = call[c].query.severity,
           walk'.before = walk.before,
           Taken(c)' = Taken(c), Reached(c)' = Reached(c)
    PROVE  /\ Cardinality(Found(c))' = Cardinality(Found(c))
           /\ Cardinality(Untaken(c))' = Cardinality(Untaken(c))
           /\ Cardinality(Passed(c))' = Cardinality(Passed(c))
           /\ Len(Taken(c))' = Len(Taken(c))
<1>1. /\ Found(c)' = Found(c)
      /\ \A x : Rank(x, Found(c))' = Rank(x, Found(c))
  BY FoundStays
<1>2. Untaken(c)' = Untaken(c)
  BY DEF Untaken, ToSet
<1>3. Passed(c)' = Passed(c)
  BY <1>1, <1>2 DEF Passed
<1>4. QED BY <1>1, <1>2, <1>3

(* It leaves what is said of the repeats; the rest is still to show.       *)
LEMMA SoundWithoutRows ==
    ASSUME NEW c \in Callers, Sound(c), Asked(c), walk.phase # "none",
           UNCHANGED <<status, detectedAt>>,
           call'[c].query.scope = call[c].query.scope,
           call'[c].query.severity = call[c].query.severity,
           call'[c].query.limit = call[c].query.limit,
           walk'.before = walk.before, walk'.phase = "walking" => walk.phase = "walking",
           Taken(c)' = Taken(c), Reached(c)' = Reached(c),
           Covers(c) => Covers(c)',
           Filled(c) /\ Covers(c) => Filled(c)',
           Exact(c) /\ call[c].query.scope # AllRuns => Exact(c)'
    PROVE  Sound(c)'
<1>1. /\ Found(c)' = Found(c)
      /\ \A x : Rank(x, Found(c))' = Rank(x, Found(c))
  BY FoundStays
<1>2. Limit(c)' = Limit(c) /\ ToSet(Taken(c))' = ToSet(Taken(c))
      /\ Repeats(Taken(c))' = Repeats(Taken(c)) /\ Shifts(c)' = Shifts(c)
  BY <1>1 DEF Limit, ToSet, Repeats, Shifts
<1>3. ASSUME Repeating(c) PROVE Repeating(c)'
  <2>1. ASSUME walk'.phase = "walking"
        PROVE  \E reach \in Nat :
                  /\ \A x \in ToSet(Taken(c))' : Rank(x, Found(c))' < reach
                  /\ Repeats(Taken(c))' + reach <= Shifts(c)' + Reached(c)'
    <3>1. PICK reach \in Nat :
                  /\ \A x \in ToSet(Taken(c)) : Rank(x, Found(c)) < reach
                  /\ Repeats(Taken(c)) + reach <= Shifts(c) + Reached(c)
      BY <1>3, <2>1 DEF Repeating
    <3>2. QED BY <1>1, <1>2, <3>1
  <2>2. Repeats(Taken(c))' <= Shifts(c)'
    BY <1>2, <1>3 DEF Repeating
  <2>3. QED BY <2>1, <2>2 DEF Repeating
<1>4. Sound(c)' <=> (Asked(c)' /\ walk'.phase # "none" =>
        /\ walk'.before \subseteq Found(c)'
        /\ ToSet(Taken(c))' \subseteq Found(c)'
        /\ Covers(c)'
        /\ Limit(c)' <= MaxLimit => Filled(c)'
        /\ Repeating(c)'
        /\ call'[c].query.scope # AllRuns /\ Limit(c)' <= MaxLimit => Exact(c)')
  BY DEF Sound
<1>5. QED BY <1>1, <1>2, <1>3, <1>4 DEF Sound

(* The look-up of the run leaves what is said of a walk.                   *)
LEMMA FindKeepsWalk ==
    ASSUME Types, OneWalk, NEW c \in Callers, Sound(c), Asked(c), walk.phase # "none",
           FindRun(c), UNCHANGED clientVars
    PROVE  Sound(c)'
<1>1. /\ call[c] \in CallRecords /\ call[c].phase = "find"
      /\ call'[c] = [call[c] EXCEPT !.phase = call'[c].phase]
      /\ call'[c].phase = IF status[call[c].query.scope] = "committed"
                          THEN "count" ELSE "not_found"
  BY FoundTyped
<1>2. /\ call'[c].query = call[c].query /\ walk' = walk /\ UNCHANGED <<status, detectedAt>>
  BY <1>1 DEF CallRecords, FindRun, clientVars
<1>3. Taken(c)' = Taken(c) /\ Reached(c)' = Reached(c)
  BY <1>1, <1>2 DEF Taken, Reached, Answering
<1>4. ASSUME Exact(c) PROVE Exact(c)'
  <2>1. /\ OfRun(call[c].query)' = OfRun(call[c].query)
        /\ NewestFirst(OfRun(call[c].query))' = NewestFirst(OfRun(call[c].query))
    BY <1>2, FoundStays
  <2>2. QED BY <1>1, <1>2, <1>3, <1>4, <2>1 DEF Exact
<1>5. (Covers(c) => Covers(c)') /\ (Filled(c) => Filled(c)')
  BY <1>1, <1>2, <1>3, NothingPassed DEF Covers, Filled, Ended, clientVars
<1>6. QED BY <1>1, <1>2, <1>3, <1>4, <1>5, SoundWithoutRows

(* So does the count, which is exact for the rows of one run.              *)
LEMMA CountKeepsWalk ==
    ASSUME Types, OneWalk, NEW c \in Callers, Sound(c), Asked(c), walk.phase # "none",
           CountRows(c), UNCHANGED clientVars
    PROVE  Sound(c)'
<1> DEFINE total == Cardinality(Found(c))
<1>1. /\ call[c] \in CallRecords /\ call[c].phase = "count"
      /\ call'[c] = [call[c] EXCEPT !.phase = "page", !.total = total]
  BY CountTyped DEF Found
<1>2. /\ call'[c].query = call[c].query /\ walk' = walk /\ UNCHANGED <<status, detectedAt>>
      /\ call'[c].phase = "page" /\ call'[c].total = total
  <2>1. walk' = walk /\ UNCHANGED <<status, detectedAt>>
    BY DEF CountRows, clientVars
  <2> HIDE DEF total
  <2>2. call'[c].query = call[c].query /\ call'[c].phase = "page" /\ call'[c].total = total
    BY <1>1 DEF CallRecords
  <2>3. QED BY <2>1, <2>2
<1>3. Taken(c)' = Taken(c) /\ Reached(c)' = Reached(c)
  BY <1>1, <1>2 DEF Taken, Reached, Answering
<1>4. ASSUME Exact(c), call[c].query.scope # AllRuns PROVE Exact(c)'
  <2>1. /\ OfRun(call[c].query)' = OfRun(call[c].query)
        /\ NewestFirst(OfRun(call[c].query))' = NewestFirst(OfRun(call[c].query))
    BY <1>2, FoundStays
  <2>2. status[call[c].query.scope] = "committed"
    BY <1>1, <1>4 DEF Exact
  <2>3. total = Cardinality(OfRun(call[c].query))
    <3>1. call[c].query.scope \in Runs
      BY <1>4, WalkersCall DEF Queries
    <3>2. QED BY <2>2, <3>1, OfRunFound DEF Found
  <2>4. QED BY <1>1, <1>2, <1>3, <1>4, <2>1, <2>2, <2>3 DEF Exact
<1>5. (Covers(c) => Covers(c)') /\ (Filled(c) => Filled(c)')
  <2>1. total \in Nat
    BY Sized, WalkersCall
  <2> HIDE DEF total
  <2>2. Cardinality(Found(c)) = total
    BY DEF total
  <2>3. /\ Cardinality(Found(c))' = Cardinality(Found(c))
        /\ Cardinality(Passed(c))' = Cardinality(Passed(c))
        /\ Len(Taken(c))' = Len(Taken(c))
    BY <1>2, <1>3, NothingPassed
  <2>4. call'[c].total <= Cardinality(Found(c))'
    BY <1>2, <2>1, <2>2, <2>3
  <2>5. ~Ended(c)' /\ call'[c].phase # "answered"
    BY <1>2 DEF Ended
  <2>6. Covers(c) => Covers(c)'
    BY <1>2, <1>3, <2>3, <2>4, <2>5 DEF Covers
  <2>7. Filled(c) => Filled(c)'
    BY <1>1, <1>2, <1>3, <2>3, <2>5 DEF Filled
  <2>8. QED BY <2>6, <2>7
<1>6. QED BY <1>1, <1>2, <1>3, <1>4, <1>5, SoundWithoutRows

(* So does a walk that ends with a 404.                                    *)
LEMMA RefusalKeepsWalk ==
    ASSUME Types, OneWalk, NEW c \in Callers, Sound(c), Asked(c), WalkRefused(c)
    PROVE  Sound(c)'
<1>1. /\ walk.phase = "walking" /\ call[c].phase = "not_found"
      /\ call' = call /\ UNCHANGED <<status, detectedAt>>
      /\ walk'.phase = "not_found" /\ walk'.got = walk.got /\ walk'.before = walk.before
  BY DEF WalkRefused, Types
<1>2. Taken(c)' = Taken(c) /\ Reached(c)' = Reached(c)
  BY <1>1 DEF Taken, Reached, Answering, Limit
<1>3. ASSUME Exact(c) PROVE Exact(c)'
  BY <1>1 DEF Exact
<1>4. (Covers(c) => Covers(c)') /\ (Filled(c) => Filled(c)')
  BY <1>1, <1>2, NothingPassed DEF Covers, Filled, Ended
<1>5. QED BY <1>1, <1>2, <1>3, <1>4, SoundWithoutRows

(* So does taking a page: the rows it adds were answered before.           *)
LEMMA TakingKeepsWalk ==
    ASSUME Types, OneWalk, NEW c \in Callers, Sound(c), Asked(c), TakePage(c)
    PROVE  Sound(c)'
<1>1. /\ walk.phase = "walking" /\ call[c].phase = "answered"
      /\ UNCHANGED <<status, detectedAt>>
      /\ walk'.phase = IF HasMore(c) THEN "walking" ELSE "done"
      /\ walk'.got = walk.got \o call[c].items /\ walk'.before = walk.before
  BY DEF TakePage, Types
<1>2. /\ Taken(c) = walk.got \o call[c].items
      /\ Reached(c) = call[c].query.offset + Limit(c)
      /\ Reached(c) \in Nat
      /\ call[c] \in CallRecords /\ call[c].query \in Queries
  BY <1>1, WalkersCall DEF Taken, Reached, Answering
<1>3. CASE HasMore(c)
  <2> DEFINE next == [call[c].query EXCEPT !.offset = @ + call[c].query.limit]
  <2>1. /\ next \in Queries
        /\ next.scope = call[c].query.scope /\ next.severity = call[c].query.severity
        /\ next.limit = call[c].query.limit /\ next.offset = Reached(c)
    BY <1>2 DEF Queries, Limit
  <2>2. Called(c, next)
    BY <1>3 DEF TakePage
  <2> HIDE DEF next
  <2>3. /\ call'[c].query = next
        /\ call'[c].phase = IF call[c].query.scope = AllRuns THEN "count" ELSE "find"
    BY <2>1, <2>2, CalledTyped
  <2>4. Taken(c)' = Taken(c) /\ Reached(c)' = Reached(c)
    BY <1>1, <1>2, <2>1, <2>3 DEF Taken, Reached, Answering
  <2>5. ASSUME Exact(c), call[c].query.scope # AllRuns PROVE Exact(c)'
    <3>1. /\ OfRun(call[c].query)' = OfRun(call[c].query)
          /\ NewestFirst(OfRun(call[c].query))' = NewestFirst(OfRun(call[c].query))
      BY <1>1, <2>1, <2>3, FoundStays
    <3>2. Taken(c) = SubSeq(NewestFirst(OfRun(call[c].query)), 1,
                            Smaller(Reached(c), Cardinality(OfRun(call[c].query))))
      BY <1>1, <2>5 DEF Exact
    <3>3. QED BY <1>1, <1>3, <2>3, <2>4, <2>5, <3>1, <3>2 DEF Exact, Smaller
  <2>6. ASSUME Covers(c)
        PROVE  Covers(c)' /\ (Filled(c) => Filled(c)')
    <3>1. /\ Reached(c) < call[c].total
          /\ call[c].total <= Cardinality(Found(c)) /\ call[c].total <= call[c].present
          /\ Cardinality(Passed(c)) + Len(Taken(c)) <= Reached(c)
      <4>1. Reached(c) < call[c].total
        BY <1>2, <1>3 DEF HasMore, Limit
      <4>2. QED BY <1>1, <2>6, <4>1 DEF Covers
    <3>2. call[c].total \in Nat /\ call[c].present \in Nat /\ Cardinality(Found(c)) \in Nat
      BY <1>1, <1>2, Sized, WalkersCall DEF CallRecords
    <3>3. /\ call'[c].phase \notin {"page", "answered"} /\ ~Ended(c)'
          /\ call'[c].query.offset = Reached(c)
      BY <2>1, <2>3 DEF Ended
    <3>4. Reached(c) <= Cardinality(Found(c)) /\ Reached(c) < call[c].present
      BY <1>2, <3>1, <3>2
    <3>5. Covers(c)'
      BY <1>1, <2>1, <2>3, <2>4, <3>1, <3>3, <3>4, NothingPassed DEF Covers
    <3>6. ASSUME Filled(c) PROVE Filled(c)'
      <4>1. Len(Taken(c)) >= Reached(c)
        BY <1>1, <1>2, <3>2, <3>4, <3>6 DEF Filled, Smaller
      <4>2. Len(Taken(c))' >= Reached(c)'
        BY <1>1, <2>1, <2>3, <2>4, <4>1, NothingPassed
      <4>3. QED BY <3>3, <4>2 DEF Filled
    <3>7. QED BY <3>5, <3>6
  <2>7. QED BY <1>1, <2>1, <2>3, <2>4, <2>5, <2>6, SoundWithoutRows
<1>4. CASE ~HasMore(c)
  <2>1. call' = call /\ walk'.phase = "done"
    BY <1>1, <1>4 DEF TakePage
  <2>2. Taken(c)' = Taken(c) /\ Reached(c)' = Reached(c)
    BY <1>1, <1>2, <2>1 DEF Taken, Reached, Answering, Limit
  <2>3. (Covers(c) => Covers(c)') /\ (Filled(c) => Filled(c)')
    BY <1>1, <1>4, <2>1, <2>2, NothingPassed DEF Covers, Filled, Ended
  <2>4. ASSUME Exact(c), call[c].query.scope # AllRuns PROVE Exact(c)'
    <3> DEFINE rows == OfRun(call[c].query)
               sorted == NewestFirst(rows)
               size == Cardinality(rows)
    <3>1. rows' = rows /\ sorted' = sorted
      BY <1>1, <2>1, FoundStays
    <3>2. /\ Taken(c) = SubSeq(sorted, 1, Smaller(Reached(c), size))
          /\ call[c].total = size /\ status[call[c].query.scope] = "committed"
      BY <1>1, <2>4 DEF Exact
    <3>3. sorted \in Seq(rows) /\ Len(sorted) = size /\ size \in Nat
      BY OfRunRows, SortedRows, Sized
    <3>4. Smaller(Reached(c), size) = size
      BY <1>2, <1>4, <3>2, <3>3 DEF HasMore, Smaller, Limit
    <3>5. walk'.got = sorted
      <4>1. walk'.got = SubSeq(sorted, 1, Len(sorted))
        BY <1>1, <1>2, <3>2, <3>3, <3>4
      <4> HIDE DEF sorted, rows
      <4>2. QED BY <3>3, <4>1, SubSeqFull
    <3>6. QED BY <1>1, <2>1, <3>1, <3>2, <3>5 DEF Exact
  <2>5. QED BY <1>1, <2>1, <2>2, <2>3, <2>4, SoundWithoutRows
<1>5. QED BY <1>3, <1>4

(* A walk begins with no row taken and all of them ahead.                  *)
LEMMA StartIsSound ==
    ASSUME Types, Stamped, OneWalk, NEW c \in Callers, NEW query \in Queries,
           query.offset = 0, StartWalk(c, query)
    PROVE  Sound(c)'
<1>1. /\ walk.phase = "none" /\ UNCHANGED <<status, detectedAt>>
      /\ walk' = [walk EXCEPT !.phase = "walking", !.before = Matching(query)]
      /\ Called(c, query)
  BY DEF StartWalk
<1>2. walk'.phase = "walking" /\ walk'.before = Matching(query) /\ walk'.got = <<>>
  BY <1>1 DEF Types, OneWalk
<1>3. /\ call'[c].query = query
      /\ call'[c].phase = IF query.scope = AllRuns THEN "count" ELSE "find"
  BY <1>1, CalledTyped
<1>4. Found(c)' = Matching(query)
  BY <1>1, <1>3 DEF Found, Matching, Visible, Rows, Severity
<1>5. Taken(c)' = <<>> /\ Reached(c)' = 0 /\ ToSet(Taken(c))' = {}
  <2>1. Taken(c)' = <<>> /\ Reached(c)' = 0
    BY <1>2, <1>3 DEF Taken, Reached, Answering
  <2>2. QED BY <2>1 DEF ToSet
<1>6. Covers(c)' /\ Filled(c)'
  <2>1. IsFiniteSet(Found(c)') /\ Cardinality(Found(c)') \in Nat /\ walk'.before \subseteq Rows
    BY <1>2, <1>4, RowsFinite, FS_Subset, FS_CardinalityType DEF Matching, Visible
  <2>2. ASSUME NEW x \in Rows PROVE Rank(x, Found(c))' \in Nat
    <3>1. Newer(x, Found(c))' \subseteq Found(c)'
      BY DEF Newer
    <3>2. QED BY <2>1, <3>1, FS_Subset, FS_CardinalityType DEF Rank
  <2>3. Passed(c)' = {x \in Untaken(c)' : Rank(x, Found(c))' < 0}
    BY <1>5 DEF Passed
  <2>4. Passed(c)' = {}
    BY <2>1, <2>2, <2>3 DEF Untaken
  <2>5. Cardinality(Passed(c))' = 0
    BY <2>4, FS_EmptySet
  <2>6. Len(Taken(c))' = 0
    BY <1>5
  <2>7. call'[c].phase \notin {"page", "answered"} /\ ~Ended(c)' /\ call'[c].query.offset = 0
    BY <1>3 DEF Ended
  <2>8. QED BY <1>5, <2>1, <2>5, <2>6, <2>7 DEF Covers, Filled
<1>7. Repeating(c)'
  <2>1. Shifts(c)' = 0
    <3>1. Found(c)' \ walk'.before = {}
      BY <1>2, <1>4
    <3>2. QED BY <3>1, FS_EmptySet DEF Shifts
  <2>2. Repeats(Taken(c))' = 0
    <3>1. Len(Taken(c))' = 0 /\ Cardinality(ToSet(Taken(c)))' = 0
      BY <1>5, FS_EmptySet
    <3>2. QED BY <3>1 DEF Repeats
  <2>3. /\ \A x \in ToSet(Taken(c))' : Rank(x, Found(c))' < 0
        /\ Repeats(Taken(c))' + 0 <= Shifts(c)' + Reached(c)'
    BY <1>5, <2>1, <2>2
  <2>4. 0 \in Nat /\ Repeats(Taken(c))' <= Shifts(c)'
    BY <2>1, <2>2
  <2>5. QED BY <2>3, <2>4 DEF Repeating
<1>8. query.scope # AllRuns => Exact(c)'
  <2> SUFFICES ASSUME query.scope # AllRuns PROVE Exact(c)'
    OBVIOUS
  <2> DEFINE rows == OfRun(call[c].query)
  <2>1. Cardinality(rows') \in Nat
    <3>1. rows' \subseteq Rows
      BY DEF OfRun, Rows, Severity
    <3>2. QED BY <3>1, RowsFinite, FS_Subset, FS_CardinalityType
  <2>2. Smaller(Reached(c)', Cardinality(rows')) = 0
    BY <1>5, <2>1 DEF Smaller
  <2>3. SubSeq(NewestFirst(rows)', 1, Smaller(Reached(c)', Cardinality(rows'))) = <<>>
    BY <2>2, SubSeqEmpty
  <2>4. QED BY <1>2, <1>3, <1>5, <2>3 DEF Exact, Smaller
<1>9. QED BY <1>2, <1>3, <1>4, <1>5, <1>6, <1>7, <1>8 DEF Sound, Limit

(* The page adds rows: the ranks it spans are those between the offset     *)
(* before it and the offset after it.                                      *)
LEMMA PageKeepsRepeats ==
    ASSUME Types, Stamped, OneWalk, NEW c \in Callers, Asked(c), walk.phase = "walking",
           call[c].phase = "page", Repeating(c), ToSet(Taken(c)) \subseteq Found(c),
           NEW items, items = Page(call[c].query)
    PROVE  /\ Repeats(walk.got \o items) <= Shifts(c)
           /\ \E reach \in Nat :
                 /\ \A x \in ToSet(walk.got \o items) : Rank(x, Found(c)) < reach
                 /\ Repeats(walk.got \o items) + reach
                       <= Shifts(c) + (call[c].query.offset + Limit(c))
<1> DEFINE found == Found(c)
           offset == call[c].query.offset
           granted == Smaller(Limit(c), MaxLimit)
           taken == ToSet(walk.got)
           paged == ToSet(items)
           again == paged \cap taken
           repeats == Repeats(walk.got)
           shifts == Shifts(c)
<1>1. /\ call[c].query \in Queries /\ offset \in Nat /\ Limit(c) \in Nat
      /\ found \subseteq Rows /\ walk.got \in Seq(Rows)
      /\ granted \in Nat /\ granted <= Limit(c)
  BY WalkersCall, ListingAssumption DEF Types, Smaller
<1>2. Ordered(found)
  BY FoundIsOrdered DEF Found
<1>3. /\ items \in Seq(Rows) /\ paged \subseteq found
      /\ Cardinality(paged) = Len(items)
      /\ \A x \in found : x \in paged <=>
            offset <= Rank(x, found) /\ Rank(x, found) < offset + granted
  BY <1>1, <1>2, PageRows DEF Found, Limit
<1>4. PICK reach \in Nat :
          /\ \A x \in taken : Rank(x, found) < reach
          /\ repeats + reach <= shifts + offset
  BY DEF Repeating, Taken, Answering, Reached
<1>5. taken \subseteq found /\ repeats <= shifts
  BY DEF Taken, Answering, Repeating
<1>6. repeats \in Nat /\ shifts \in Nat
  <2>1. IsFiniteSet(found \ walk.before)
    BY <1>1, RowsFinite, FS_Subset
  <2>2. QED BY <1>1, <1>3, <2>1, RepeatsGrow, FS_CardinalityType DEF Shifts
<1>7. Repeats(walk.got \o items) = repeats + Cardinality(again)
  <2>1. Repeats(walk.got \o items) = repeats + Len(items) - Cardinality(paged \ taken)
    BY <1>1, <1>3, RepeatsGrow
  <2>2. IsFiniteSet(paged) /\ Cardinality(paged) \in Nat
    BY <1>3, SetOfList
  <2>3. /\ Cardinality(paged \ taken) = Cardinality(paged) - Cardinality(again)
        /\ Cardinality(again) \in Nat
    BY <2>2, FS_Difference, FS_Intersection, FS_CardinalityType
  <2> HIDE DEF paged, taken, again, repeats
  <2>4. QED BY <1>3, <1>6, <2>1, <2>2, <2>3
<1>8. Cardinality(again) \in Nat
  BY <1>3, SetOfList, FS_Intersection, FS_CardinalityType
<1>9. \A x \in ToSet(walk.got \o items) : x \in taken \/ x \in paged
  BY <1>1, <1>3, SetOfBoth
<1>10. \A x \in found : Rank(x, found) \in Nat
  BY <1>2, RankIsPosition
<1>11. again \in SUBSET found /\ \A x \in again : offset <= Rank(x, found)
                              /\ Rank(x, found) < reach /\ Rank(x, found) < offset + granted
  BY <1>3, <1>4
<1> HIDE DEF found, offset, granted, taken, paged, again, repeats, shifts
<1>12. repeats + Cardinality(again) <= shifts
  <2>1. CASE offset <= reach
    <3>1. Cardinality(again) <= reach - offset
      BY <1>1, <1>2, <1>11, <2>1, RanksBetween
    <3>2. QED BY <1>1, <1>4, <1>6, <1>8, <3>1
  <2>2. CASE reach < offset
    <3>1. again = {}
      BY <1>1, <1>4, <1>10, <1>11, <2>2
    <3>2. Cardinality(again) = 0
      BY <3>1, FS_EmptySet
    <3>3. QED BY <1>5, <1>6, <3>2
  <2>3. QED BY <1>1, <1>4, <2>1, <2>2
<1>13. Cardinality(again) <= granted
  <2>1. PICK far \in Nat : far = offset + granted
    BY <1>1
  <2>2. offset <= far /\ \A x \in again : offset <= Rank(x, found) /\ Rank(x, found) < far
    BY <1>1, <1>11, <2>1
  <2>3. Cardinality(again) <= far - offset
    BY <1>1, <1>2, <1>11, <2>2, RanksBetween
  <2>4. QED BY <1>1, <2>1, <2>3
<1>14. \E far \in Nat :
          /\ \A x \in ToSet(walk.got \o items) : Rank(x, found) < far
          /\ (repeats + Cardinality(again)) + far <= shifts + (offset + Limit(c))
  <2>1. CASE reach <= offset + granted
    <3>1. \A x \in ToSet(walk.got \o items) : Rank(x, found) < offset + granted
      BY <1>1, <1>3, <1>4, <1>5, <1>9, <1>10, <2>1
    <3>2. (repeats + Cardinality(again)) + (offset + granted) <= shifts + (offset + Limit(c))
      BY <1>1, <1>6, <1>8, <1>12
    <3>3. QED BY <1>1, <3>1, <3>2
  <2>2. CASE offset + granted < reach
    <3>1. \A x \in ToSet(walk.got \o items) : Rank(x, found) < reach
      BY <1>1, <1>3, <1>4, <1>5, <1>9, <1>10, <2>2
    <3>2. (repeats + Cardinality(again)) + reach <= shifts + (offset + Limit(c))
      BY <1>1, <1>4, <1>6, <1>8, <1>13
    <3>3. QED BY <3>1, <3>2
  <2>3. QED BY <1>1, <2>1, <2>2
<1>15. QED BY <1>7, <1>12, <1>14 DEF found, offset, shifts

(* Of the rows up to a rank that the page does not go beyond, those that   *)
(* are left are those passed before and those behind the page.             *)
LEMMA FewLeft ==
    ASSUME Types, Stamped, OneWalk, NEW c \in Callers, Asked(c), walk.phase = "walking",
           call[c].phase = "page", Covers(c), walk.before \subseteq Found(c),
           NEW items, items = Page(call[c].query),
           NEW high \in Nat, call[c].query.offset + Len(items) <= high
    PROVE  LET left == {x \in walk.before \ ToSet(walk.got \o items) :
                           Rank(x, Found(c)) < high} IN
           Cardinality(left) \in Nat /\ Cardinality(left) + Len(walk.got \o items) <= high
<1> DEFINE query == call[c].query
           found == Found(c)
           granted == Smaller(query.limit, MaxLimit)
           left == {x \in walk.before \ ToSet(walk.got \o items) : Rank(x, found) < high}
           low == query.offset + Len(items)
           behind == {x \in left : low <= Rank(x, found)}
<1>1. /\ query \in Queries /\ query.offset \in Nat /\ query.limit \in Nat
      /\ found \subseteq Rows /\ walk.got \in Seq(Rows) /\ granted \in Nat
  BY WalkersCall, ListingAssumption DEF Types, Limit, Smaller
<1>2. Taken(c) = walk.got /\ Reached(c) = query.offset
  BY DEF Taken, Reached, Answering
<1>3. Ordered(found)
  BY FoundIsOrdered DEF Found
<1>4. /\ items \in Seq(Rows)
      /\ \A x \in found : x \in ToSet(items) <=>
            query.offset <= Rank(x, found) /\ Rank(x, found) < query.offset + granted
      /\ query.offset <= Cardinality(found) =>
            Len(items) = Smaller(query.offset + granted, Cardinality(found)) - query.offset
  BY <1>1, <1>3, PageRows DEF Found
<1>5. /\ query.offset <= Cardinality(found)
      /\ Cardinality(Passed(c)) + Len(walk.got) <= query.offset
  BY <1>2 DEF Covers
<1>6. Cardinality(found) \in Nat /\ Len(items) \in Nat /\ Len(walk.got) \in Nat
  BY <1>1, <1>4, Sized
<1>7. low \in Nat /\ low <= query.offset + granted
  BY <1>1, <1>4, <1>5, <1>6 DEF Smaller
<1>8. /\ ToSet(walk.got \o items) = ToSet(walk.got) \cup ToSet(items)
      /\ Len(walk.got \o items) = Len(walk.got) + Len(items)
  BY <1>1, <1>4, SetOfBoth
<1>9. \A x \in found : Rank(x, found) \in Nat
  BY <1>3, RankIsPosition
<1>10. left \subseteq Passed(c) \cup behind
  <2> SUFFICES ASSUME NEW x \in left PROVE x \in Passed(c) \/ x \in behind
    OBVIOUS
  <2>1. x \in walk.before /\ x \in found /\ x \notin ToSet(walk.got) /\ x \notin ToSet(items)
    BY <1>8
  <2>2. CASE Rank(x, found) < query.offset
    BY <1>2, <2>1, <2>2 DEF Passed, Untaken
  <2>3. CASE query.offset <= Rank(x, found)
    <3>1. query.offset + granted <= Rank(x, found)
      BY <1>1, <1>4, <1>9, <2>1, <2>3
    <3>2. low <= Rank(x, found)
      BY <1>1, <1>7, <1>9, <2>1, <3>1
    <3>3. QED BY <3>2
  <2>4. QED BY <1>1, <1>9, <2>1, <2>2, <2>3
<1>11. behind \in SUBSET found /\ Passed(c) \subseteq found /\ left \subseteq found
  BY DEF Passed, Untaken
<1>12. IsFiniteSet(behind) /\ IsFiniteSet(Passed(c)) /\ IsFiniteSet(left)
  BY <1>1, <1>11, RowsFinite, FS_Subset
<1>13. low <= high /\ \A x \in behind : low <= Rank(x, found) /\ Rank(x, found) < high
  OBVIOUS
<1> HIDE DEF left, behind, low, found, granted, query
<1>14. Cardinality(behind) <= high - low
  BY <1>3, <1>7, <1>11, <1>13, RanksBetween
<1>15. /\ Cardinality(behind) \in Nat /\ Cardinality(Passed(c)) \in Nat
       /\ Cardinality(left) \in Nat
  BY <1>12, FS_CardinalityType
<1>16. Cardinality(left) <= Cardinality(Passed(c)) + Cardinality(behind)
  <2>1. IsFiniteSet(Passed(c) \cup behind) /\ Cardinality(Passed(c) \cup behind) \in Nat
    BY <1>12, FS_Union, FS_CardinalityType
  <2>2. Cardinality(left) <= Cardinality(Passed(c) \cup behind)
    BY <1>10, <2>1, FS_Subset
  <2>3. Cardinality(Passed(c) \cup behind) =
            Cardinality(Passed(c)) + Cardinality(behind) - Cardinality(Passed(c) \cap behind)
    BY <1>12, FS_Union
  <2>4. Cardinality(Passed(c) \cap behind) \in Nat
    BY <1>12, FS_Intersection, FS_CardinalityType
  <2>5. QED BY <1>15, <2>1, <2>2, <2>3, <2>4
<1>17. Cardinality(left) + (Len(walk.got) + Len(items)) <= high
  <2>1. query.offset \in Nat /\ Len(items) \in Nat /\ Len(walk.got) \in Nat
    BY <1>1, <1>6
  <2>2. /\ Cardinality(behind) <= high - (query.offset + Len(items))
        /\ Cardinality(Passed(c)) + Len(walk.got) <= query.offset
    BY <1>5, <1>14 DEF low
  <2>3. \A a, b, p, g, k, o \in Nat :
           a <= p + b /\ b <= high - (o + k) /\ p + g <= o => a + (g + k) <= high
    OBVIOUS
  <2>4. QED BY <1>15, <1>16, <2>1, <2>2, <2>3
<1>18. QED BY <1>8, <1>15, <1>17 DEF left, found

(* The page brings the walk to the rows its ranks span.                    *)
LEMMA PageKeepsWalk ==
    ASSUME Types, Stamped, OneWalk, NEW c \in Callers, Sound(c), Asked(c),
           walk.phase # "none", SelectPage(c), UNCHANGED clientVars
    PROVE  Sound(c)'
<1> DEFINE query == call[c].query
           items == Page(query)
           taken == walk.got \o items
           after == query.offset + query.limit
<1>1. /\ call[c].phase = "page" /\ walk.phase = "walking" /\ walk' = walk
      /\ query \in Queries /\ query.offset \in Nat /\ query.limit \in Nat
      /\ UNCHANGED <<status, detectedAt>> /\ walk.got \in Seq(Rows)
      /\ Limit(c) = query.limit
  BY WalkersCall DEF SelectPage, clientVars, Types, Limit
<1>2. /\ call'[c].query = query /\ call'[c].phase = "answered" /\ call'[c].items = items
      /\ call'[c].total = call[c].total
      /\ call'[c].present = Cardinality(Found(c))
  <2> DEFINE present == Cardinality(Matching(call[c].query))
  <2>1. /\ call[c] \in CallRecords
        /\ call'[c] = [call[c] EXCEPT !.phase = "answered", !.items = items, !.present = present]
    BY PageTyped
  <2> HIDE DEF items, present
  <2>2. /\ call'[c].query = query /\ call'[c].phase = "answered" /\ call'[c].items = items
        /\ call'[c].total = call[c].total /\ call'[c].present = present
    BY <2>1 DEF CallRecords
  <2>3. QED BY <2>2 DEF present, Found
<1>3. /\ Found(c)' = Found(c) /\ \A x : Rank(x, Found(c))' = Rank(x, Found(c))
      /\ OfRun(query)' = OfRun(query)
      /\ NewestFirst(OfRun(query))' = NewestFirst(OfRun(query))
  BY <1>1, <1>2, FoundStays
<1>4. Taken(c)' = taken /\ Reached(c)' = after /\ Taken(c) = walk.got /\ Reached(c) = query.offset
  BY <1>1, <1>2 DEF Taken, Reached, Answering, Limit
<1>5. Ordered(Found(c))
  BY FoundIsOrdered DEF Found
<1>6. /\ items \in Seq(Rows) /\ ToSet(items) \subseteq Found(c)
      /\ \A x \in Found(c) : x \in ToSet(items) <=>
            /\ query.offset <= Rank(x, Found(c))
            /\ Rank(x, Found(c)) < query.offset + Smaller(query.limit, MaxLimit)
      /\ query.offset <= Cardinality(Found(c)) =>
            Len(items) = Smaller(query.offset + Smaller(query.limit, MaxLimit),
                                 Cardinality(Found(c))) - query.offset
  BY <1>1, <1>5, PageRows DEF Found
<1>7. /\ walk.before \subseteq Found(c) /\ ToSet(walk.got) \subseteq Found(c)
      /\ Covers(c)
      /\ Limit(c) <= MaxLimit => Filled(c)
      /\ Repeating(c)
      /\ query.scope # AllRuns /\ Limit(c) <= MaxLimit => Exact(c)
  BY <1>4 DEF Sound
<1>8. /\ ToSet(taken) = ToSet(walk.got) \cup ToSet(items)
      /\ ToSet(Taken(c))' = ToSet(taken) /\ Repeats(Taken(c))' = Repeats(taken)
  <2>1. ToSet(taken) = ToSet(walk.got) \cup ToSet(items)
    BY <1>1, <1>6, SetOfBoth
  <2>2. ToSet(Taken(c))' = ToSet(taken)
    BY <1>4 DEF ToSet
  <2>3. Repeats(Taken(c))' = Repeats(taken)
    BY <1>4, <2>2 DEF Repeats
  <2>4. QED BY <2>1, <2>2, <2>3
<1>9. \A x \in Found(c) : Rank(x, Found(c)) \in Nat /\ Rank(x, Found(c)) < Cardinality(Found(c))
  BY <1>5, RankIsPosition
<1>10. Cardinality(Found(c)) \in Nat
  BY <1>5, Sized DEF Ordered
<1> HIDE DEF items
<1>11. Covers(c)' /\ (Limit(c) <= MaxLimit => Filled(c)')
  <2> DEFINE size == Cardinality(Found(c))
             left == walk.before \ ToSet(taken)
             passed == {x \in left : Rank(x, Found(c)) < after}
             width == Len(items)
             got == Len(walk.got)
  <2>1. /\ query.offset <= size /\ call[c].total <= size
        /\ call[c].total \in Nat /\ after \in Nat /\ width \in Nat /\ got \in Nat
    BY <1>1, <1>6, <1>7, WalkersCall DEF Covers, CallRecords
  <2>2. Smaller(query.limit, MaxLimit) \in Nat /\ Smaller(query.limit, MaxLimit) <= query.limit
    BY <1>1, ListingAssumption DEF Smaller
  <2>3. width = Smaller(query.offset + Smaller(query.limit, MaxLimit), size) - query.offset
    BY <1>6, <2>1
  <2>4. query.offset + width <= after /\ query.offset + width <= size
    <3> DEFINE granted == Smaller(query.limit, MaxLimit)
    <3>1. granted \in Nat /\ granted <= query.limit
          /\ width = Smaller(query.offset + granted, size) - query.offset
      BY <2>2, <2>3
    <3>2. \A o, l, g, n \in Nat : g <= l =>
             o + (Smaller(o + g, n) - o) <= o + l /\ o + (Smaller(o + g, n) - o) <= n
      BY DEF Smaller
    <3> HIDE DEF granted
    <3>3. QED BY <1>1, <1>10, <3>1, <3>2
  <2>5. Len(taken) = got + width
    BY <1>1, <1>6, SetOfBoth
  <2>6. left = {x \in left : Rank(x, Found(c)) < size}
    BY <1>7, <1>9
  <2>7. Cardinality(passed) + Len(taken) <= after
    BY <1>1, <1>7, <2>1, <2>4, FewLeft DEF items
  <2>8. Cardinality(left) + Len(taken) <= size
    BY <1>1, <1>7, <1>10, <2>4, <2>6, FewLeft DEF items
  <2>9. Untaken(c)' = left
    BY <1>1, <1>8 DEF Untaken
  <2>10. Passed(c)' = passed
    BY <1>3, <1>4, <2>9 DEF Passed
  <2>11. /\ Cardinality(Untaken(c))' = Cardinality(left)
         /\ Cardinality(Passed(c))' = Cardinality(passed)
         /\ Cardinality(Found(c))' = size /\ Len(Taken(c))' = Len(taken)
    BY <1>3, <1>4, <2>9, <2>10
  <2> HIDE DEF size, left, passed, width, got, taken, after
  <2>12. Covers(c)'
    BY <1>1, <1>2, <1>4, <2>1, <2>7, <2>8, <2>11 DEF Covers, size
  <2>13. ASSUME Limit(c) <= MaxLimit PROVE Filled(c)'
    <3>1. width = Smaller(after, size) - query.offset
      BY <1>1, <2>3, <2>13, ListingAssumption DEF Smaller, after
    <3>2. got >= query.offset
      BY <1>1, <1>4, <1>7, <2>13 DEF Filled, got
    <3>3. Len(taken) >= Smaller(after, size)
      BY <1>1, <1>10, <2>1, <2>5, <3>1, <3>2 DEF Smaller, size
    <3>4. Ended(c)' => ~(after < call[c].total)
      BY <1>1, <1>2 DEF Ended, HasMore, after
    <3>5. Ended(c)' => Len(taken) >= call[c].total
      <4>1. Len(taken) \in Nat
        BY <2>1, <2>5
      <4>2. QED BY <1>10, <2>1, <3>3, <3>4, <4>1 DEF Smaller, size
    <3>6. QED BY <1>2, <1>4, <2>11, <3>3, <3>5 DEF Filled, Smaller, size
  <2>14. QED BY <2>12, <2>13
<1>12. Repeating(c)'
  <2>1. Shifts(c)' = Shifts(c)
    BY <1>1, <1>3 DEF Shifts
  <2>2. /\ Repeats(taken) <= Shifts(c)
        /\ \E reach \in Nat :
              /\ \A x \in ToSet(taken) : Rank(x, Found(c)) < reach
              /\ Repeats(taken) + reach <= Shifts(c) + after
    <3>1. ToSet(Taken(c)) \subseteq Found(c) /\ Repeating(c)
      BY <1>4, <1>7
    <3>2. QED BY <1>1, <3>1, PageKeepsRepeats DEF items
  <2> HIDE DEF taken, after
  <2>3. Repeats(Taken(c))' <= Shifts(c)'
    BY <1>8, <2>1, <2>2
  <2>4. \E reach \in Nat :
              /\ \A x \in ToSet(Taken(c))' : Rank(x, Found(c))' < reach
              /\ Repeats(Taken(c))' + reach <= Shifts(c)' + Reached(c)'
    BY <1>3, <1>4, <1>8, <2>1, <2>2
  <2>5. QED BY <2>3, <2>4 DEF Repeating
<1>13. ASSUME query.scope # AllRuns, Limit(c) <= MaxLimit PROVE Exact(c)'
  <2> DEFINE rows == OfRun(query)
             sorted == NewestFirst(rows)
             size == Cardinality(rows)
  <2>1. /\ status[query.scope] = "committed" /\ call[c].total = size
        /\ walk.got = SubSeq(sorted, 1, Smaller(query.offset, size))
    BY <1>1, <1>4, <1>7, <1>13 DEF Exact
  <2>2. Matching(query) = rows
    <3>1. query.scope \in Runs
      BY <1>1, <1>13 DEF Queries
    <3>2. QED BY <2>1, <3>1, OfRunFound
  <2>3. sorted \in Seq(rows) /\ Len(sorted) = size /\ size \in Nat
    BY OfRunRows, SortedRows, Sized
  <2>4. Smaller(query.limit, MaxLimit) = query.limit
    BY <1>1, <1>13, ListingAssumption DEF Smaller
  <2>5. items = SubSeq(sorted, query.offset + 1, Smaller(after, size))
    BY <2>2, <2>3, <2>4 DEF Page, items
  <2> HIDE DEF sorted, size, rows
  <2>6. taken = SubSeq(sorted, 1, Smaller(after, size))
    <3>1. CASE query.offset <= size
      <4>1. PICK k \in Nat : k = query.offset
        BY <1>1
      <4>2. PICK n \in Nat : n = Smaller(after, size)
        BY <1>1, <2>3 DEF Smaller
      <4>3. 1 \in 1..Len(sorted) + 1 /\ k \in 1 - 1..Len(sorted) /\ n \in k..Len(sorted)
        BY <1>1, <2>3, <3>1, <4>1, <4>2 DEF Smaller
      <4>4. SubSeq(sorted, 1, k) \o SubSeq(sorted, k + 1, n) = SubSeq(sorted, 1, n)
        BY <2>3, <4>3, ConcatAdjacentSubSeq
      <4>5. Smaller(query.offset, size) = k
        BY <1>1, <2>3, <3>1, <4>1 DEF Smaller
      <4>6. QED BY <2>1, <2>5, <4>1, <4>2, <4>4, <4>5
    <3>2. CASE size < query.offset
      <4>1. Smaller(after, size) = size /\ Smaller(query.offset, size) = size
        BY <1>1, <2>3, <3>2 DEF Smaller
      <4>2. items = <<>>
        BY <1>1, <2>3, <2>5, <3>2, <4>1, SubSeqEmpty
      <4>3. walk.got \o <<>> = walk.got
        BY <1>1, ConcatEmptySeq
      <4>4. taken = walk.got
        BY <4>2, <4>3
      <4> HIDE DEF taken, after
      <4>5. QED BY <2>1, <4>1, <4>4
    <3>3. query.offset <= size \/ size < query.offset
      BY <1>1, <2>3
    <3> HIDE DEF taken, after
    <3>4. QED BY <3>1, <3>2, <3>3
  <2>7. OfRun(call[c].query)' = rows /\ NewestFirst(OfRun(call[c].query))' = sorted
    BY <1>3 DEF rows, sorted
  <2> HIDE DEF taken, after
  <2>8. QED BY <1>1, <1>2, <1>4, <2>1, <2>6, <2>7 DEF Exact, Smaller, size
<1>14. Limit(c)' = Limit(c)
  BY <1>2 DEF Limit
<1>15. ToSet(taken) \subseteq Found(c)
  BY <1>6, <1>7, <1>8
<1>16. QED BY <1>1, <1>2, <1>3, <1>7, <1>8, <1>11, <1>12, <1>13, <1>14, <1>15 DEF Sound

-----------------------------------------------------------------------------
(* The walk, whole.                                                        *)

WalkInv == Types /\ Stamped /\ OneWalk /\ WalkSound

(* It all holds at the start, ...                                          *)
LEMMA WalkInvInit == Init => WalkInv
<1> SUFFICES ASSUME Init PROVE WalkInv
  OBVIOUS
<1>1. \A c \in Callers : call[c] = NoCall
  BY DEF Init, ListingInit
<1>2. Types
  BY DEF Init, ListingInit, Types
<1>3. Stamped
  <2>1. Stamps = {}
    BY DEF Init, ListingInit, Stamps
  <2>2. Cardinality(Stamps) = 0
    BY <2>1, FS_EmptySet
  <2>3. QED BY <2>2 DEF Stamped, Init, ListingInit
<1>4. QED BY <1>1, <1>2, <1>3 DEF WalkInv, OneWalk, WalkSound, Sound, Asked, Init

(* ... every step keeps it, ...                                            *)
LEMMA WalkInvKept == WalkInv /\ [Next]_vars => WalkInv'
<1> SUFFICES ASSUME WalkInv, [Next]_vars PROVE WalkInv'
  OBVIOUS
<1> USE DEF WalkInv
<1>1. Types' /\ Stamped' /\ OneWalk'
  BY TypesKept, OneWalkKept
<1>2. ASSUME NEW c \in Callers PROVE Sound(c)'
  <2>1. Sound(c)
    BY DEF WalkSound
  <2>2. CASE UNCHANGED vars
    <3>1. UNCHANGED <<status, detectedAt, call, walk>>
      BY <2>2 DEF vars
    <3>2. CASE Asked(c) /\ walk.phase # "none"
      <4>1. Taken(c)' = Taken(c) /\ Reached(c)' = Reached(c)
        BY <3>1 DEF Taken, Reached, Answering, Limit
      <4>2. HasMore(c)' = HasMore(c)
        BY <3>1 DEF HasMore
      <4>3. ASSUME Exact(c), call[c].query.scope # AllRuns PROVE Exact(c)'
        <5>1. /\ OfRun(call[c].query)' = OfRun(call[c].query)
              /\ NewestFirst(OfRun(call[c].query))' = NewestFirst(OfRun(call[c].query))
          BY <3>1, FoundStays
        <5>2. QED BY <3>1, <4>1, <4>3, <5>1 DEF Exact
      <4>4. (Covers(c) => Covers(c)') /\ (Filled(c) => Filled(c)')
        BY <3>1, <4>1, <4>2, NothingPassed DEF Covers, Filled, Ended
      <4>5. QED BY <2>1, <3>1, <3>2, <4>1, <4>3, <4>4, SoundWithoutRows
    <3>3. CASE ~(Asked(c) /\ walk.phase # "none")
      BY <3>1, <3>3 DEF Sound, Asked
    <3>4. QED BY <3>2, <3>3
  <2>3. CASE TableStep /\ UNCHANGED clientVars
    BY <2>1, <2>3, TableKeepsWalk
  <2>4. CASE CallStep /\ UNCHANGED clientVars
    <3>1. CASE Asked(c) /\ walk.phase # "none"
      <4>1. PICK d \in Callers : FindRun(d) \/ CountRows(d) \/ SelectPage(d)
        BY <2>4 DEF CallStep
      <4>2. d = c
        <5>1. Asked(d)
          BY <4>1, AskedTyped DEF FindRun, CountRows, SelectPage
        <5>2. QED BY <3>1, <5>1, WalkersCall
      <4>3. QED BY <2>1, <2>4, <3>1, <4>1, <4>2, FindKeepsWalk, CountKeepsWalk, PageKeepsWalk
    <3>2. CASE walk.phase = "none"
      BY <2>4, <3>2 DEF Sound, clientVars
    <3>3. CASE ~Asked(c)
      <4>1. call'[c] = call[c]
        BY <2>4, <3>3, AskedTyped, FoundTyped, CountTyped, PageTyped
           DEF CallStep, FindRun, CountRows, SelectPage
      <4>2. QED BY <3>3, <4>1 DEF Sound, Asked
    <3>4. QED BY <3>1, <3>2, <3>3
  <2>5. ASSUME NEW d \in Callers, NEW query \in Queries, query.offset = 0, StartWalk(d, query)
        PROVE  Sound(c)'
    <3>1. CASE d = c
      BY <2>5, <3>1, StartIsSound
    <3>2. CASE d # c
      <4>1. ~Asked(c)
        BY <2>5 DEF StartWalk, OneWalk
      <4>2. call'[c] = call[c]
        BY <2>5, <3>2, CalledTyped DEF StartWalk
      <4>3. QED BY <4>1, <4>2 DEF Sound, Asked
    <3>3. QED BY <3>1, <3>2
  <2>6. ASSUME NEW d \in Callers, TakePage(d) \/ WalkRefused(d)
        PROVE  Sound(c)'
    <3>1. Asked(d) /\ walk.phase # "none"
      BY <2>6, AskedTyped DEF TakePage, WalkRefused
    <3>2. CASE d = c
      BY <2>1, <2>6, <3>1, <3>2, TakingKeepsWalk, RefusalKeepsWalk
    <3>3. CASE d # c
      <4>1. Asked(c) => c = d
        BY <3>1, WalkersCall
      <4>2. ~Asked(c)
        BY <3>3, <4>1
      <4>3. call[d] \in CallRecords
        BY <3>1, AskedTyped
      <4>4. call'[c] = call[c]
        <5>1. CASE WalkRefused(d)
          BY <5>1 DEF WalkRefused
        <5>2. CASE TakePage(d)
          BY <5>2, <3>3 DEF TakePage, Called, Types
        <5>3. QED BY <2>6, <5>1, <5>2
      <4>5. QED BY <4>2, <4>4 DEF Sound, Asked
    <3>4. QED BY <3>2, <3>3
  <2>7. CASE Walks
    BY <2>5, <2>6, <2>7, FirstPagesTyped DEF Walks
  <2>8. CASE Browses
    <3>1. client = "dashboard" /\ walk' = walk
      BY <2>8 DEF Browses, loadData, LoadArrives, Loaded, LoadFails, applyFilters,
                  nextPage, prevPage
    <3>2. QED BY <3>1 DEF OneWalk, Sound
  <2>9. QED BY <2>2, <2>3, <2>4, <2>7, <2>8 DEF Next
<1>3. QED BY <1>1, <1>2 DEF WalkSound

(* ... and so it always holds.                                             *)
LEMMA WalkInvAlways == Spec => []WalkInv
BY WalkInvInit, WalkInvKept, PTL DEF Spec

(* The table and the calls keep their types, and no two runs have one      *)
(* stamp, so that ORDER BY detected_at orders the rows of the runs.        *)
NoStampTwice ==
    \A r, s \in Runs : detectedAt[r] = detectedAt[s] /\ detectedAt[r] > 0 => r = s
THEOREM TableTyped == Spec => [](ListingTypeOK /\ NoStampTwice)
<1>1. WalkInv => ListingTypeOK
  <2> SUFFICES ASSUME WalkInv PROVE ListingTypeOK
    OBVIOUS
  <2> USE DEF WalkInv
  <2>1. Cardinality(Stamps) <= Cardinality(Runs) /\ Cardinality(Runs) \in Nat
        /\ Cardinality(Stamps) \in Nat
    BY ListingAssumption, FS_Subset, FS_CardinalityType DEF Stamps
  <2>2. detectedAt \in [Runs -> 0..Cardinality(Runs)]
    <3>1. \A r \in Runs : detectedAt[r] \in Nat /\ detectedAt[r] <= Cardinality(Stamps)
      BY DEF Types, Stamped
    <3>2. \A r \in Runs : detectedAt[r] \in 0..Cardinality(Runs)
      BY <2>1, <3>1
    <3>3. QED BY <3>2 DEF Types
  <2>3. ASSUME NEW c \in Callers, call[c] # NoCall
        PROVE  /\ call[c].phase \in {"find", "count", "page", "answered", "not_found"}
               /\ call[c].query \in Queries
               /\ call[c].total \in Nat
               /\ call[c].present \in Nat
               /\ call[c].items \in Seq(Rows)
    BY <2>3 DEF Types, CallRecords
  <2>4. status \in [Runs -> {"new", "flushed", "committed", "rolled_back"}]
    BY DEF Types
  <2>5. QED BY <2>2, <2>3, <2>4 DEF ListingTypeOK
<1>2. WalkInv => NoStampTwice
  BY DEF WalkInv, Stamped, NoStampTwice
<1>3. QED BY <1>1, <1>2, WalkInvAlways, PTL

(* What a walk misses, whatever commits and whatever the limit: its offset *)
(* passes a row for each one it takes and each one it misses, and stays    *)
(* among the rows.  With a limit the server grants it takes as many rows   *)
(* as its last call counted.                                               *)
THEOREM WalkTakesAll == Spec => []WalkMissesNothing
<1>1. WalkInv => WalkMissesNothing
  <2> SUFFICES ASSUME WalkInv, NEW c \in Callers, Walked(c)
               PROVE  /\ Missed + Len(walk.got) <= call[c].present
                      /\ call[c].query.limit <= MaxLimit =>
                            Missed <= call[c].present - call[c].total
    BY DEF WalkMissesNothing
  <2>1. walk.phase = "done" /\ call[c].phase = "answered" /\ Asked(c)
    BY AskedTyped DEF Walked, WalkInv
  <2>2. Taken(c) = walk.got /\ Ended(c)
    BY <2>1 DEF Taken, Answering, Ended
  <2>3. Missed + Len(walk.got) <= call[c].present
    BY <2>1, <2>2 DEF WalkInv, WalkSound, Sound, Covers, Untaken, Missed
  <2>4. call[c].query.limit <= MaxLimit => Len(walk.got) >= call[c].total
    BY <2>1, <2>2 DEF WalkInv, WalkSound, Sound, Filled, Limit
  <2>5. /\ Missed \in Nat /\ Len(walk.got) \in Nat
        /\ call[c].present \in Nat /\ call[c].total \in Nat
    <3>1. walk.before \ ToSet(walk.got) \in SUBSET Rows /\ walk.got \in Seq(Rows)
      BY DEF WalkInv, Types
    <3>2. call[c] \in CallRecords
      BY <2>1, AskedTyped DEF WalkInv
    <3>3. QED BY <3>1, <3>2, Sized DEF Missed, CallRecords
  <2>6. QED BY <2>3, <2>4, <2>5
<1>2. QED BY <1>1, WalkInvAlways, PTL

(* A walk of one run's rows delivers each of them once and in order, while *)
(* other runs commit.                                                      *)
THEOREM RunWalkExact == Spec => []RunWalkIsExact
<1>1. WalkInv => RunWalkIsExact
  <2> SUFFICES ASSUME WalkInv, NEW c \in Callers, Walked(c),
                      call[c].query.scope # AllRuns, call[c].query.limit <= MaxLimit
               PROVE  walk.got = NewestFirst(OfRun(call[c].query))
    BY DEF RunWalkIsExact, OfRun
  <2>1. walk.phase = "done" /\ Asked(c)
    BY AskedTyped DEF Walked, WalkInv
  <2>2. Exact(c)
    BY <2>1 DEF WalkInv, WalkSound, Sound, Limit
  <2>3. QED BY <2>1, <2>2 DEF Exact
<1>2. QED BY <1>1, WalkInvAlways, PTL

(* A walk repeats no more rows than were committed since it began.         *)
THEOREM RepeatsBounded == Spec => []RepeatsAreShifts
<1>1. WalkInv => RepeatsAreShifts
  <2> SUFFICES ASSUME WalkInv, NEW c \in Callers, Asked(c), walk.phase # "none"
               PROVE  Repeats(walk.got) <= Shifts(c)
    BY DEF RepeatsAreShifts, Asked, Repeats, Shifts, Found
  <2>1. Repeats(Taken(c)) <= Shifts(c)
    BY DEF WalkInv, WalkSound, Sound, Repeating
  <2>2. walk.got \in Seq(Rows) /\ call[c].items \in Seq(Rows) /\ Found(c) \subseteq Rows
    BY WalkersCall DEF WalkInv, Types
  <2> Repeats(walk.got) \in Nat
    BY <2>2, RepeatsGrow
  <2>3. Repeats(walk.got) <= Repeats(Taken(c))
    <3>1. CASE Answering(c)
      BY <2>2, <3>1, RepeatsGrow DEF Taken
    <3>2. CASE ~Answering(c)
      <4>1. Taken(c) = walk.got
        BY <3>2 DEF Taken
      <4>2. QED BY <4>1
    <3>3. QED BY <3>1, <3>2
  <2>4. Repeats(Taken(c)) \in Nat /\ Shifts(c) \in Nat
    <3>1. Taken(c) \in Seq(Rows)
      BY WalkersCall DEF WalkInv
    <3>2. IsFiniteSet(Found(c) \ walk.before)
      BY <2>2, RowsFinite, FS_Subset
    <3>3. QED BY <2>2, <3>1, <3>2, RepeatsGrow, FS_CardinalityType DEF Shifts
  <2>5. QED BY <2>1, <2>3, <2>4
<1>2. QED BY <1>1, WalkInvAlways, PTL

-----------------------------------------------------------------------------
(* The loads, whole.                                                       *)

LoadInv == Types /\ Stamped /\ OneWalk /\ LoadsGrow

(* The same for the loads: it holds at the start, ...                      *)
LEMMA LoadInvInit == Init => LoadInv
<1>1. Init => Types /\ Stamped /\ OneWalk
  BY WalkInvInit DEF WalkInv
<1>2. ASSUME Init PROVE LoadsGrow
  <2>1. ToSet(all) = {}
    BY <1>2 DEF Init, ToSet
  <2>2. \A c \in Callers : ~Asked(c)
    BY <1>2 DEF Init, ListingInit, Asked
  <2>3. QED BY <2>1, <2>2 DEF LoadsGrow, Loading
<1>3. QED BY <1>1, <1>2 DEF LoadInv

(* The page of a load has all the rows there are that fit on it.           *)
LEMMA LoadTakesAll ==
    ASSUME Types, Stamped, MaxLimit <= DashboardLimit,
           NEW query, query = FirstPage(AllRuns, AnySeverity, DashboardLimit)
    PROVE  /\ Matching(query) = Visible
           /\ ToSet(Page(query)) \subseteq Visible
           /\ \A row \in Visible : OnPage(row) => row \in ToSet(Page(query))
<1>1. /\ query \in Queries /\ query.offset = 0 /\ query.limit = DashboardLimit
      /\ query.scope = AllRuns /\ query.severity = AnySeverity
  BY ClientsAssumption DEF FirstPage, Queries
<1>2. Matching(query) = Visible
  BY <1>1 DEF Matching
<1>3. Smaller(query.limit, MaxLimit) = MaxLimit
  BY <1>1, ListingAssumption, ClientsAssumption DEF Smaller
<1>4. Ordered(Visible)
  BY <1>2, FoundIsOrdered
<1>5. /\ ToSet(Page(query)) \subseteq Visible
      /\ \A x \in Visible : x \in ToSet(Page(query)) <=>
            0 <= Rank(x, Visible) /\ Rank(x, Visible) < 0 + MaxLimit
  BY <1>1, <1>2, <1>3, <1>4, PageRows
<1>6. \A x \in Visible : Rank(x, Visible) \in Nat
  BY <1>4, RankIsPosition
<1>7. QED BY <1>2, <1>5, <1>6, ListingAssumption DEF OnPage

(* A commit moves rows off the page and none back to it.                   *)
LEMMA RowsLeaveThePage ==
    ASSUME Types, Stamped, TableStep
    PROVE  /\ Visible \subseteq Visible'
           /\ \A row \in Visible : OnPage(row)' => OnPage(row)
<1> DEFINE query == FirstPage(AllRuns, AnySeverity, DashboardLimit)
<1>1. Matching(query) = Visible /\ Matching(query)' = Visible'
  BY DEF Matching, FirstPage, Visible, Rows, Severity
<1>2. \A x \in Visible : Rank(x, Visible) \in Nat
  BY <1>1, FoundIsOrdered, RankIsPosition
<1> HIDE DEF query
<1>3. /\ Visible \subseteq Visible'
      /\ \A x \in Visible : /\ Rank(x, Visible) <= Rank(x, Matching(query))'
                             /\ Rank(x, Matching(query))' \in Nat
  BY <1>1, RanksMove
<1>4. \A x : Rank(x, Matching(query))' = Rank(x, Visible)'
  BY <1>1 DEF Rank, Newer
<1>5. QED BY <1>2, <1>3, <1>4, ListingAssumption DEF OnPage

(* A load that a step leaves alone stays what it was.                      *)
LEMMA LoadingStays ==
    ASSUME NEW c \in Callers, Loading(c), ToSet(all) \subseteq Visible,
           call'[c] = call[c],
           Visible \subseteq Visible', \A row \in Visible : OnPage(row)' => OnPage(row),
           Asked(c) /\ c \notin late' => c \notin late /\ all' = all
    PROVE  Loading(c)'
<1>1. ToSet(call[c].items)' = ToSet(call[c].items)
  BY DEF ToSet
<1>2. SUFFICES ASSUME Asked(c), call[c].phase = "answered"
               PROVE  (/\ ToSet(call[c].items) \subseteq Visible
                       /\ c \notin late => HasOf(c, ToSet(all))
                       /\ \E read \in SUBSET Visible :
                             Cardinality(read) = call[c].present /\ HasOf(c, read))'
  BY DEF Loading, Asked
<1>3. \A rows \in SUBSET Visible : HasOf(c, rows) => \A row \in rows :
          OnPage(row)' => row \in ToSet(call[c].items)'
  BY <1>1 DEF HasOf
<1>4. ToSet(call[c].items)' \subseteq Visible'
  BY <1>1, <1>2 DEF Loading
<1>5. ASSUME c \notin late' PROVE HasOf(c, ToSet(all))'
  <2>1. HasOf(c, ToSet(all)) /\ ToSet(all)' = ToSet(all)
    BY <1>2, <1>5 DEF Loading, ToSet
  <2>2. QED BY <1>3, <2>1 DEF HasOf
<1>6. (\E read \in SUBSET Visible : Cardinality(read) = call[c].present /\ HasOf(c, read))'
  <2>1. PICK read \in SUBSET Visible : Cardinality(read) = call[c].present /\ HasOf(c, read)
    BY <1>2 DEF Loading
  <2>2. read \in SUBSET Visible' /\ Cardinality(read) = call'[c].present
    BY <2>1
  <2>3. \A row \in read : OnPage(row)' => row \in ToSet(call[c].items)'
    BY <1>3, <2>1
  <2>4. QED BY <2>2, <2>3 DEF HasOf
<1>7. QED BY <1>4, <1>5, <1>6

(* A step that writes no row shows the loads the same table.               *)
LEMMA SameTable ==
    ASSUME UNCHANGED <<status, detectedAt>>
    PROVE  Visible' = Visible /\ \A row : OnPage(row)' = OnPage(row)
<1>1. Visible' = Visible
  BY DEF Visible, Rows
<1>2. QED BY <1>1 DEF OnPage, Rank, Newer, DetectedAfter

(* ... and every step keeps it.                                            *)
LEMMA LoadInvKept ==
    ASSUME MaxLimit <= DashboardLimit, LoadInv, [Next]_vars
    PROVE  LoadInv'
<1> USE DEF LoadInv
<1>1. Types' /\ Stamped' /\ OneWalk'
  BY TypesKept, OneWalkKept
<1>2. CASE client = "walker"
  <2>1. client' = "walker"
    BY <1>2 DEF Next, clientVars, vars, Walks, StartWalk, TakePage, WalkRefused, Browses,
                loadData, LoadArrives, Loaded, LoadFails, applyFilters, nextPage, prevPage
  <2>2. QED BY <1>1, <2>1 DEF LoadsGrow
<1>3. CASE client = "dashboard"
  <2>1. ToSet(all) \subseteq Visible /\ \A c \in Callers : Loading(c)
    BY <1>3 DEF LoadsGrow
  <2>2. ASSUME ToSet(all)' \subseteq Visible', \A c \in Callers : Loading(c)'
        PROVE  LoadsGrow'
    BY <2>2 DEF LoadsGrow
  <2>3. CASE /\ UNCHANGED <<all, late, call>> /\ Visible \subseteq Visible'
             /\ \A row \in Visible : OnPage(row)' => OnPage(row)
    <3>1. ToSet(all)' \subseteq Visible'
      BY <2>1, <2>3 DEF ToSet
    <3>2. \A c \in Callers : Loading(c)'
      BY <2>1, <2>3, LoadingStays
    <3>3. QED BY <1>1, <2>2, <3>1, <3>2
  <2>4. CASE UNCHANGED vars
    BY <2>3, <2>4, SameTable DEF vars
  <2>5. CASE TableStep /\ UNCHANGED clientVars
    <3>1. call' = call /\ UNCHANGED <<all, late>>
      BY <2>5, TableGrows DEF clientVars, dashboardVars
    <3>2. QED BY <2>3, <2>5, <3>1, RowsLeaveThePage
  <2>6. CASE CallStep /\ UNCHANGED clientVars
    <3>1. PICK c \in Callers : FindRun(c) \/ CountRows(c) \/ SelectPage(c)
      BY <2>6 DEF CallStep
    <3>2. UNCHANGED <<status, detectedAt, all, late>>
      BY <2>6, <3>1 DEF FindRun, CountRows, SelectPage, clientVars, dashboardVars
    <3>3. call[c] \in CallRecords /\ Asked(c) /\ \A d \in Callers \ {c} : call'[d] = call[d]
      BY <3>1, FoundTyped, CountTyped, PageTyped, AskedTyped
         DEF FindRun, CountRows, SelectPage
    <3>4. call[c].query = FirstPage(AllRuns, AnySeverity, DashboardLimit)
      BY <2>1, <3>3 DEF Loading
    <3>5. \A d \in Callers \ {c} : Loading(d)'
      BY <2>1, <3>2, <3>3, SameTable, LoadingStays
    <3>6. Loading(c)'
      <4>1. CASE FindRun(c) \/ CountRows(c)
        <5>1. call'[c].query = call[c].query /\ call'[c].phase # "answered"
          <6>1. CASE FindRun(c)
            BY <6>1, FoundTyped DEF CallRecords
          <6>2. CASE CountRows(c)
            BY <6>2, CountTyped DEF CallRecords
          <6>3. QED BY <4>1, <6>1, <6>2
        <5>2. QED BY <3>4, <5>1 DEF Loading
      <4>2. CASE SelectPage(c)
        <5> DEFINE items == Page(call[c].query)
                   present == Cardinality(Matching(call[c].query))
        <5>1. call'[c] = [call[c] EXCEPT !.phase = "answered", !.items = items, !.present = present]
          BY <4>2, PageTyped
        <5>2. /\ present = Cardinality(Visible) /\ ToSet(items) \subseteq Visible
              /\ \A row \in Visible : OnPage(row) => row \in ToSet(items)
          BY <3>4, LoadTakesAll
        <5> HIDE DEF items, present
        <5>3. /\ call'[c].query = call[c].query /\ call'[c].items = items
              /\ call'[c].present = present
          BY <3>3, <5>1 DEF CallRecords
        <5>4. ToSet(call[c].items)' = ToSet(items) /\ ToSet(all)' \subseteq Visible
          BY <2>1, <3>2, <5>3 DEF ToSet
        <5>5. HasOf(c, ToSet(all))' /\ HasOf(c, Visible)'
          BY <3>2, <5>2, <5>4, SameTable DEF HasOf
        <5>6. Visible' = Visible /\ Cardinality(Visible)' = call'[c].present
          BY <3>2, <5>2, <5>3, SameTable
        <5>7. (\E read \in SUBSET Visible :
                 Cardinality(read) = call[c].present /\ HasOf(c, read))'
          BY <5>5, <5>6
        <5>8. QED BY <3>4, <5>2, <5>3, <5>4, <5>5, <5>6, <5>7 DEF Loading
      <4>3. QED BY <3>1, <4>1, <4>2
    <3>7. ToSet(all)' \subseteq Visible'
      BY <2>1, <3>2, SameTable DEF ToSet
    <3>8. QED BY <1>1, <2>2, <3>5, <3>6, <3>7
  <2>7. ASSUME NEW c \in Callers, loadData(c)
        PROVE  LoadsGrow'
    <3> DEFINE query == FirstPage(AllRuns, AnySeverity, DashboardLimit)
    <3>1. query \in Queries /\ Called(c, query)
      BY <2>7, ClientsAssumption DEF FirstPage, Queries, loadData
    <3>2. call'[c].query = query /\ call'[c].phase # "answered"
          /\ \A d \in Callers \ {c} : call'[d] = call[d]
      <4> HIDE DEF query
      <4>1. QED BY <3>1, CalledTyped
    <3>3. /\ UNCHANGED <<status, detectedAt, all>>
          /\ \A d \in Callers \ {c} : d \in late' <=> d \in late
      BY <2>7 DEF loadData
    <3>4. \A d \in Callers \ {c} : Loading(d)'
      BY <2>1, <3>2, <3>3, SameTable, LoadingStays
    <3>5. Loading(c)'
      BY <3>2 DEF Loading
    <3>6. ToSet(all)' \subseteq Visible'
      BY <2>1, <3>3, SameTable DEF ToSet
    <3>7. QED BY <2>2, <3>4, <3>5, <3>6
  <2>8. ASSUME NEW c \in Callers, LoadArrives(c)
        PROVE  LoadsGrow'
    <3>1. /\ call[c].phase = "answered" /\ all' = call[c].items
          /\ call' = [call EXCEPT ![c] = NoCall]
          /\ late' = {d \in Callers \ {c} : call[d].phase # "idle"}
          /\ UNCHANGED <<status, detectedAt>>
      BY <2>8 DEF LoadArrives, Loaded
    <3>2. ToSet(all)' = ToSet(call[c].items) /\ Asked(c)
      BY <3>1, AskedTyped DEF ToSet
    <3>3. ToSet(all)' \subseteq Visible'
      BY <2>1, <3>1, <3>2, SameTable DEF Loading
    <3>4. ASSUME NEW d \in Callers PROVE Loading(d)'
      <4>1. CASE d = c
        BY <3>1, <4>1 DEF Loading, Asked, Types
      <4>2. CASE d # c
        <5>1. call'[d] = call[d]
          BY <3>1, <4>2 DEF Types
        <5>2. Asked(d) => d \in late'
          BY <3>1, <4>2, AskedTyped
        <5>3. QED BY <2>1, <3>1, <5>1, <5>2, SameTable, LoadingStays
      <4>3. QED BY <4>1, <4>2
    <3>5. QED BY <2>2, <3>3, <3>4
  <2>9. ASSUME NEW c \in Callers, LoadFails(c)
        PROVE  LoadsGrow'
    <3>1. /\ call' = [call EXCEPT ![c] = NoCall]
          /\ UNCHANGED <<status, detectedAt, all, late>>
      BY <2>9 DEF LoadFails, dashboardVars
    <3>2. ToSet(all)' \subseteq Visible'
      BY <2>1, <3>1, SameTable DEF ToSet
    <3>3. ASSUME NEW d \in Callers PROVE Loading(d)'
      <4>1. CASE d = c
        BY <3>1, <4>1 DEF Loading, Asked, Types
      <4>2. CASE d # c
        <5>1. call'[d] = call[d]
          BY <3>1, <4>2 DEF Types
        <5>2. QED BY <2>1, <3>1, <5>1, SameTable, LoadingStays
      <4>3. QED BY <4>1, <4>2
    <3>4. QED BY <2>2, <3>2, <3>3
  <2>10. ASSUME (\E severity : applyFilters(severity)) \/ nextPage \/ prevPage
         PROVE  LoadsGrow'
    <3>1. UNCHANGED <<status, detectedAt, call, all, late>>
      BY <2>10 DEF applyFilters, nextPage, prevPage
    <3>2. QED BY <2>3, <3>1, SameTable
  <2>11. ~Walks
    BY <1>3 DEF OneWalk, Walks, StartWalk, TakePage, WalkRefused
  <2>12. QED BY <1>1, <2>4, <2>5, <2>6, <2>7, <2>8, <2>9, <2>10, <2>11 DEF Next, Browses
<1>4. QED BY <1>2, <1>3 DEF Types

(* A load that no other overtook leaves the dashboard every row that it    *)
(* had, but for those past the server's page; one that was overtaken takes *)
(* no more rows away than were committed since it was read.  The dashboard *)
(* asks for at least as much as the server gives, as the code's 1000 does  *)
(* of its 200.                                                             *)
THEOREM ReloadKeepsRows ==
    ASSUME MaxLimit <= DashboardLimit
    PROVE  Spec => ReloadLosesFew
<1>1. LoadInv /\ [Next]_vars => LoadInv'
  BY LoadInvKept
<1>2. LoadInv => \A c \in Callers : LoadArrives(c) =>
          /\ c \notin late => TakenAway(c) = {}
          /\ Cardinality(TakenAway(c)) <= Cardinality(Visible) - call[c].present
  <2> SUFFICES ASSUME LoadInv, NEW c \in Callers, LoadArrives(c)
               PROVE  /\ c \notin late => TakenAway(c) = {}
                      /\ Cardinality(TakenAway(c)) <= Cardinality(Visible) - call[c].present
    OBVIOUS
  <2>1. client = "dashboard" /\ call[c].phase = "answered"
    BY DEF LoadArrives, Loaded
  <2>2. Asked(c) /\ Loading(c) /\ ToSet(all) \subseteq Visible
    BY <2>1, AskedTyped DEF LoadInv, LoadsGrow
  <2>3. \A row \in TakenAway(c) : row \in ToSet(all) /\ OnPage(row)
                                 /\ row \notin ToSet(call[c].items)
    BY DEF TakenAway, OnPage, Rank
  <2>4. c \notin late => TakenAway(c) = {}
    BY <2>1, <2>2, <2>3 DEF Loading, HasOf
  <2>5. PICK read \in SUBSET Visible : Cardinality(read) = call[c].present /\ HasOf(c, read)
    BY <2>1, <2>2 DEF Loading
  <2>6. TakenAway(c) \in SUBSET (Visible \ read)
    BY <2>2, <2>3, <2>5 DEF HasOf
  <2>7. IsFiniteSet(Visible) /\ IsFiniteSet(read) /\ IsFiniteSet(Visible \ read)
    <3>1. Visible \in SUBSET Rows /\ (Visible \ read) \in SUBSET Rows /\ read \in SUBSET Rows
      BY <2>5 DEF Visible
    <3>2. QED BY <3>1, RowsFinite, FS_Subset
  <2>8. Cardinality(TakenAway(c)) <= Cardinality(Visible \ read)
    BY <2>6, <2>7, FS_Subset
  <2>9. Cardinality(Visible \ read) = Cardinality(Visible) - Cardinality(read)
    <3>1. Visible \cap read = read
      BY <2>5
    <3>2. Cardinality(Visible \ read) = Cardinality(Visible) - Cardinality(Visible \cap read)
      BY <2>7, FS_Difference
    <3>3. QED BY <3>1, <3>2
  <2>10. QED BY <2>4, <2>5, <2>8, <2>9
<1>3. QED BY <1>1, <1>2, LoadInvInit, PTL DEF Spec, ReloadLosesFew

-----------------------------------------------------------------------------
(* How far a walk still has to go.                                         *)

(* No call asks for an empty page, counts more rows than the table will    *)
(* have or begins past them.                                               *)
WithinTable(c) ==
    Asked(c) => /\ Limit(c) >= 1
                /\ call[c].total <= Cardinality(Rows)
                /\ call[c].query.offset <= Cardinality(Rows)
AllWithinTable == \A c \in Callers : WithinTable(c)

(* The steps of a walk: four for each row that is ahead, as many as a page *)
(* takes, those of the page under way, and the one that ends it.           *)
StepsOfPage == [find |-> 3, count |-> 2, page |-> 1, answered |-> 0, not_found |-> 0]
WalkLeft(c) ==
    4 * (Cardinality(Rows) - call[c].query.offset)
        + StepsOfPage[call[c].phase] + (IF walk.phase = "walking" THEN 1 ELSE 0)
WalkGoesOn(c) ==
    client = "walker" /\ Asked(c) =>
        /\ WalkLeft(c) \in 0..(4 * Cardinality(Rows) + 4)
        /\ call'[c] # call[c] \/ walk' # walk => WalkLeft(c)' < WalkLeft(c)

LEMMA TableSized == Cardinality(Rows) \in Nat
BY Sized

LEMMA AskedNumbers ==
    ASSUME Types, NEW c \in Callers, Asked(c)
    PROVE  /\ Limit(c) \in Nat /\ call[c].total \in Nat
           /\ call[c].query.offset \in Nat /\ call[c].query \in Queries
           /\ call[c].phase \in {"find", "count", "page", "answered", "not_found"}
<1>1. call[c] \in CallRecords
  BY AskedTyped
<1>2. QED BY <1>1 DEF CallRecords, Queries, Limit

LEMMA FoundFits ==
    ASSUME NEW query
    PROVE  Cardinality(Matching(query)) <= Cardinality(Rows)
<1>1. Matching(query) \subseteq Rows
  BY DEF Matching, Visible
<1>2. QED BY <1>1, RowsFinite, FS_Subset

LEMMA StepsAre ==
    /\ StepsOfPage["find"] = 3 /\ StepsOfPage["count"] = 2 /\ StepsOfPage["page"] = 1
    /\ StepsOfPage["answered"] = 0 /\ StepsOfPage["not_found"] = 0
BY DEF StepsOfPage

(* What a SELECT does to its call: the query stays, a count fits the table *)
(* and a step of the page is done.                                         *)
LEMMA SelectsWithinTable ==
    ASSUME Types, Stamped, NEW c \in Callers,
           FindRun(c) \/ CountRows(c) \/ SelectPage(c)
    PROVE  /\ Asked(c) /\ call'[c].query = call[c].query
           /\ call'[c].total = call[c].total \/ call'[c].total <= Cardinality(Rows)
           /\ StepsOfPage[call'[c].phase] < StepsOfPage[call[c].phase]
           /\ \A d \in Callers \ {c} : call'[d] = call[d]
<1>1. Asked(c)
  BY AskedTyped DEF FindRun, CountRows, SelectPage
<1>2. CASE FindRun(c)
  <2>1. /\ call'[c].query = call[c].query /\ call'[c].total = call[c].total
        /\ call[c].phase = "find" /\ call'[c].phase \in {"count", "not_found"}
    BY <1>2, FoundTyped DEF CallRecords
  <2>2. \A d \in Callers \ {c} : call'[d] = call[d]
    BY <1>2, FoundTyped
  <2>3. QED BY <1>1, <2>1, <2>2, StepsAre
<1>3. CASE CountRows(c)
  <2> DEFINE total == Cardinality(Matching(call[c].query))
  <2>1. total <= Cardinality(Rows)
    BY FoundFits
  <2>2. call'[c] = [call[c] EXCEPT !.phase = "page", !.total = total]
    BY <1>3, CountTyped
  <2> HIDE DEF total
  <2>3. /\ call'[c].query = call[c].query /\ call'[c].total = total
        /\ call[c].phase = "count" /\ call'[c].phase = "page"
    BY <1>3, <2>2, CountTyped DEF CallRecords
  <2>4. \A d \in Callers \ {c} : call'[d] = call[d]
    BY <1>3, CountTyped
  <2>5. QED BY <1>1, <2>1, <2>3, <2>4, StepsAre
<1>4. CASE SelectPage(c)
  <2> DEFINE items == Page(call[c].query)
             present == Cardinality(Matching(call[c].query))
  <2>1. call'[c] = [call[c] EXCEPT !.phase = "answered", !.items = items, !.present = present]
    BY <1>4, PageTyped
  <2> HIDE DEF items, present
  <2>2. /\ call'[c].query = call[c].query /\ call'[c].total = call[c].total
        /\ call[c].phase = "page" /\ call'[c].phase = "answered"
    BY <1>4, <2>1, PageTyped DEF CallRecords
  <2>3. \A d \in Callers \ {c} : call'[d] = call[d]
    BY <1>4, PageTyped
  <2>4. QED BY <1>1, <2>2, <2>3, StepsAre
<1>5. QED BY <1>2, <1>3, <1>4

(* What it does to a call to be asked a query.                             *)
LEMMA AskedNext ==
    ASSUME Types, NEW c \in Callers, NEW query \in Queries, Called(c, query)
    PROVE  /\ Asked(c)' /\ call'[c].query = query /\ call'[c].total = 0
           /\ StepsOfPage[call'[c].phase] \in 2..3
           /\ \A d \in Callers \ {c} : call'[d] = call[d]
<1>1. call'[c].total = 0
  BY DEF Called, Types
<1>2. call'[c].phase \in {"count", "find"}
  BY CalledTyped
<1>3. QED BY <1>1, <1>2, CalledTyped, StepsAre DEF Asked

(* The next page of a walk begins within the table, as has_more says.      *)
LEMMA NextPageWithin ==
    ASSUME Types, NEW c \in Callers, Asked(c), WithinTable(c), TakePage(c), HasMore(c)
    PROVE  \E query \in Queries :
              /\ Called(c, query)
              /\ query.limit = Limit(c)
              /\ query.offset = call[c].query.offset + Limit(c)
              /\ query.offset < Cardinality(Rows)
<1> DEFINE asked == call[c].query
           query == [asked EXCEPT !.offset = asked.offset + asked.limit]
<1>1. /\ asked \in Queries /\ asked.offset \in Nat /\ asked.limit \in Nat
      /\ Limit(c) = asked.limit /\ call[c].total \in Nat
  BY AskedNumbers DEF Limit
<1>2. /\ query \in Queries /\ query.limit = asked.limit
      /\ query.offset = asked.offset + asked.limit
  BY <1>1 DEF Queries
<1>3. Called(c, query)
  BY DEF TakePage
<1>4. asked.offset + asked.limit < call[c].total /\ call[c].total <= Cardinality(Rows)
  BY DEF HasMore, WithinTable
<1>5. asked.offset + asked.limit < Cardinality(Rows)
  <2> HIDE DEF asked
  <2>1. QED BY <1>1, <1>4, TableSized
<1>6. QED BY <1>1, <1>2, <1>3, <1>5

(* The calls stay within the table.                                        *)
LEMMA WithinTableKept == WalkInv /\ AllWithinTable /\ [Next]_vars => AllWithinTable'
<1> SUFFICES ASSUME WalkInv, AllWithinTable, [Next]_vars, NEW c \in Callers
             PROVE  WithinTable(c)'
  BY DEF AllWithinTable
<1> USE DEF WalkInv
<1>1. Cardinality(Rows)' = Cardinality(Rows) /\ Cardinality(Rows) \in Nat
  BY TableSized DEF Rows
<1>2. WithinTable(c)
  BY DEF AllWithinTable
<1>3. ASSUME call'[c] = call[c] PROVE WithinTable(c)'
  BY <1>1, <1>2, <1>3 DEF WithinTable, Asked, Limit
<1>4. ASSUME NEW d \in Callers, NEW query \in Queries, Called(d, query),
             query.limit >= 1, query.offset <= Cardinality(Rows)
      PROVE  WithinTable(c)'
  <2>1. CASE d = c
    BY <1>1, <1>4, <2>1, AskedNext DEF WithinTable, Limit
  <2>2. CASE d # c
    BY <1>3, <1>4, <2>2, AskedNext
  <2>3. QED BY <2>1, <2>2
<1>5. CASE UNCHANGED vars \/ (TableStep /\ UNCHANGED clientVars)
  BY <1>3, <1>5 DEF vars, TableStep, Flush, Commit, Rollback
<1>6. CASE CallStep
  <2>1. PICK d \in Callers : FindRun(d) \/ CountRows(d) \/ SelectPage(d)
    BY <1>6 DEF CallStep
  <2>2. CASE d = c
    BY <1>1, <1>2, <2>1, <2>2, SelectsWithinTable DEF WithinTable, Limit
  <2>3. CASE d # c
    BY <1>3, <2>1, <2>3, SelectsWithinTable
  <2>4. QED BY <2>2, <2>3
<1>7. CASE Walks
  <2>1. ASSUME NEW d \in Callers, NEW query \in FirstPages, StartWalk(d, query)
        PROVE  WithinTable(c)'
    BY <1>1, <1>4, <2>1, FirstPagesTyped DEF StartWalk
  <2>2. ASSUME NEW d \in Callers, TakePage(d)
        PROVE  WithinTable(c)'
    <3>1. CASE HasMore(d)
      <4>1. Asked(d) /\ WithinTable(d)
        BY <2>2, AskedTyped DEF TakePage, AllWithinTable
      <4>2. PICK query \in Queries :
               /\ Called(d, query) /\ query.limit = Limit(d)
               /\ query.offset < Cardinality(Rows)
        BY <2>2, <3>1, <4>1, NextPageWithin
      <4>3. query.limit >= 1 /\ query.offset <= Cardinality(Rows)
        BY <1>1, <4>1, <4>2 DEF WithinTable, Queries
      <4>4. QED BY <1>4, <4>2, <4>3
    <3>2. CASE ~HasMore(d)
      BY <1>3, <2>2, <3>2 DEF TakePage
    <3>3. QED BY <3>1, <3>2
  <2>3. ASSUME NEW d \in Callers, WalkRefused(d)
        PROVE  WithinTable(c)'
    BY <1>3, <2>3 DEF WalkRefused
  <2>4. QED BY <1>7, <2>1, <2>2, <2>3 DEF Walks
<1>8. CASE Browses
  <2>1. ASSUME NEW d \in Callers, loadData(d)
        PROVE  WithinTable(c)'
    <3>1. /\ FirstPage(AllRuns, AnySeverity, DashboardLimit) \in Queries
          /\ FirstPage(AllRuns, AnySeverity, DashboardLimit).limit >= 1
          /\ FirstPage(AllRuns, AnySeverity, DashboardLimit).offset = 0
      BY ClientsAssumption DEF FirstPage, Queries
    <3>2. QED BY <1>1, <1>4, <2>1, <3>1 DEF loadData
  <2>2. ASSUME NEW d \in Callers, LoadArrives(d) \/ LoadFails(d)
        PROVE  WithinTable(c)'
    <3>1. call' = [call EXCEPT ![d] = NoCall]
      BY <2>2 DEF LoadArrives, Loaded, LoadFails
    <3>2. CASE d = c
      BY <3>1, <3>2 DEF WithinTable, Asked, Types
    <3>3. CASE d # c
      BY <1>3, <3>1, <3>3 DEF Types
    <3>4. QED BY <3>2, <3>3
  <2>3. ASSUME (\E severity : applyFilters(severity)) \/ nextPage \/ prevPage
        PROVE  WithinTable(c)'
    BY <1>3, <2>3 DEF applyFilters, nextPage, prevPage
  <2>4. QED BY <1>8, <2>1, <2>2, <2>3 DEF Browses
<1>9. QED BY <1>5, <1>6, <1>7, <1>8 DEF Next

(* A walk ends, however fast rows are committed while it lasts: every step *)
(* of it or of its call brings it closer to the end, so that it takes at   *)
(* most four for each row the table will ever have and four more.          *)
THEOREM WalksEnd == Spec => [][\A c \in Callers : WalkGoesOn(c)]_vars
<1>1. Init => AllWithinTable
  BY DEF Init, ListingInit, AllWithinTable, WithinTable, Asked
<1>2. Spec => []AllWithinTable
  BY <1>1, WithinTableKept, WalkInvAlways, PTL DEF Spec
<1>3. WalkInv /\ AllWithinTable /\ [Next]_vars => \A c \in Callers : WalkGoesOn(c)
  <2> SUFFICES ASSUME WalkInv, AllWithinTable, [Next]_vars, NEW c \in Callers,
                      client = "walker", Asked(c)
               PROVE  /\ WalkLeft(c) \in 0..(4 * Cardinality(Rows) + 4)
                      /\ call'[c] # call[c] \/ walk' # walk => WalkLeft(c)' < WalkLeft(c)
    BY DEF WalkGoesOn
  <2> USE DEF WalkInv
  <2> DEFINE size == Cardinality(Rows)
             start == call[c].query.offset
             steps == StepsOfPage[call[c].phase]
  <2>1. size \in Nat /\ start \in 0..size /\ steps \in 0..3 /\ size' = size
    <3>1. size' = size /\ size \in Nat
      BY TableSized DEF Rows
    <3>2. start \in Nat /\ start <= size
      BY AskedNumbers DEF AllWithinTable, WithinTable
    <3>3. steps \in 0..3
      <4>1. call[c].phase \in {"find", "count", "page", "answered", "not_found"}
        BY AskedNumbers
      <4>2. QED BY <4>1, StepsAre
    <3>4. QED BY <3>1, <3>2, <3>3
  <2> DEFINE on == IF walk.phase = "walking" THEN 1 ELSE 0
  <2>2. WalkLeft(c) = 4 * (size - start) + steps + on /\ on \in 0..1
    BY DEF WalkLeft
  <2>3. WalkLeft(c)' = 4 * (size - start') + steps' + on'
    BY <2>1 DEF WalkLeft
  <2>4. WalkLeft(c) \in 0..(4 * size + 4)
    <3> HIDE DEF size, start, steps, on
    <3>1. QED BY <2>1, <2>2
  <2>5. ASSUME call'[c] # call[c] \/ walk' # walk
        PROVE  WalkLeft(c)' < WalkLeft(c)
    <3>1. \A d \in Callers : Asked(d) => d = c
      BY DEF OneWalk
    <3>2. CASE CallStep /\ UNCHANGED clientVars
      <4>1. PICK d \in Callers : FindRun(d) \/ CountRows(d) \/ SelectPage(d)
        BY <3>2 DEF CallStep
      <4>2. d = c
        BY <3>1, <4>1, SelectsWithinTable
      <4>3. start' = start /\ steps' < steps
        BY <4>1, <4>2, SelectsWithinTable
      <4>4. on' = on /\ steps' \in Int
        <5>1. call'[c].phase \in {"find", "count", "page", "answered", "not_found"}
          BY <4>1, <4>2, FoundTyped, CountTyped, PageTyped DEF CallRecords
        <5>2. steps' \in Int
          BY <5>1, StepsAre
        <5>3. QED BY <3>2, <5>2 DEF clientVars
      <4> HIDE DEF size, start, steps, on
      <4>5. /\ 4 * (size - start') = 4 * (size - start) /\ 4 * (size - start) \in Int
            /\ steps' \in Int /\ steps \in Int /\ on' \in Int /\ on \in Int
        BY <2>1, <2>2, <4>3, <4>4
      <4>6. \A ahead, old, new, walking \in Int :
               new < old => ahead + new + walking < ahead + old + walking
        OBVIOUS
      <4>7. QED BY <2>2, <2>3, <4>3, <4>4, <4>5, <4>6
    <3>3. ASSUME NEW d \in Callers, TakePage(d)
          PROVE  WalkLeft(c)' < WalkLeft(c)
      <4>1. d = c /\ call[c].phase = "answered" /\ walk.phase = "walking"
        BY <3>1, <3>3, AskedTyped DEF TakePage
      <4>2. steps = 0 /\ on = 1
        BY <4>1, StepsAre
      <4>3. CASE HasMore(c)
        <5>1. PICK query \in Queries :
                 /\ Called(c, query)
                 /\ query.offset = start + Limit(c)
                 /\ query.offset < size
          BY <3>3, <4>1, <4>3, NextPageWithin DEF AllWithinTable
        <5>2. start' = query.offset /\ steps' \in 2..3
          BY <5>1, AskedNext DEF StepsOfPage
        <5>3. Limit(c) \in Nat /\ Limit(c) >= 1
          BY AskedNumbers DEF AllWithinTable, WithinTable
        <5>4. on' \in 0..1
          OBVIOUS
        <5> HIDE DEF size, start, steps, on
        <5>5. QED BY <2>1, <2>2, <2>3, <4>2, <5>1, <5>2, <5>3, <5>4
      <4>4. CASE ~HasMore(c)
        <5>1. call' = call /\ walk'.phase = "done"
          BY <3>3, <4>1, <4>4 DEF TakePage, Types
        <5>2. start' = start /\ steps' = steps /\ on' = 0
          BY <5>1 DEF StepsOfPage
        <5> HIDE DEF size, start, steps, on
        <5>3. QED BY <2>1, <2>2, <2>3, <4>2, <5>2
      <4>5. QED BY <4>3, <4>4
    <3>4. ASSUME NEW d \in Callers, WalkRefused(d)
          PROVE  WalkLeft(c)' < WalkLeft(c)
      <4>1. walk.phase = "walking" /\ walk'.phase = "not_found" /\ call' = call
        BY <3>4 DEF WalkRefused, Types
      <4>2. start' = start /\ steps' = steps /\ on = 1 /\ on' = 0
        BY <4>1 DEF StepsOfPage
      <4> HIDE DEF size, start, steps, on
      <4>3. QED BY <2>1, <2>2, <2>3, <4>2
    <3>5. ~(\E d \in Callers : \E query : StartWalk(d, query))
      BY DEF OneWalk, StartWalk
    <3>6. ~UNCHANGED vars /\ ~(TableStep /\ UNCHANGED clientVars)
      BY <2>5 DEF vars, clientVars, TableStep, Flush, Commit, Rollback
    <3>7. ~Browses
      BY DEF Browses, loadData, LoadArrives, Loaded, LoadFails, applyFilters,
             nextPage, prevPage
    <3>8. QED BY <3>2, <3>3, <3>4, <3>5, <3>6, <3>7 DEF Next, Walks
  <2>6. QED BY <2>4, <2>5
<1>4. QED BY <1>2, <1>3, WalkInvAlways, PTL DEF Spec

-----------------------------------------------------------------------------
(* The dashboard's filter.                                                 *)

Passes(row, severity) == severity \in {AnySeverity, Severity(row)}
Kept(rows, severity) == {i \in DOMAIN rows : Passes(rows[i], severity)}
Before(i, kept) == {k \in kept : k < i}

(* Of some positions each has as many before it as its own place says.     *)
LEMMA PlacesOfKept ==
    ASSUME NEW n \in Nat, NEW kept \in SUBSET (1..n)
    PROVE  /\ IsFiniteSet(kept) /\ Cardinality(kept) \in Nat /\ Cardinality(kept) <= n
           /\ \A i, k \in kept : i < k =>
                 Cardinality(Before(i, kept)) < Cardinality(Before(k, kept))
           /\ \A i \in kept : Cardinality(Before(i, kept)) \in Nat
           /\ \A m \in 1..Cardinality(kept) :
                 \E i \in kept : Cardinality(Before(i, kept)) = m - 1
           /\ \A i \in kept : Cardinality(Before(i, kept)) + 1 \in 1..Cardinality(kept)
<1>0. \A i \in kept : i \in Nat
  OBVIOUS
<1>1. IsFiniteSet(kept) /\ Cardinality(kept) \in Nat /\ Cardinality(kept) <= n
  <2>1. IsFiniteSet(1..n) /\ Cardinality(1..n) = n
    BY Counting
  <2>2. IsFiniteSet(kept) /\ Cardinality(kept) <= Cardinality(1..n)
    BY <2>1, FS_Subset
  <2>3. QED BY <2>1, <2>2, FS_CardinalityType
<1>2. ASSUME NEW i PROVE /\ Before(i, kept) \in SUBSET kept
                         /\ IsFiniteSet(Before(i, kept))
                         /\ Cardinality(Before(i, kept)) \in Nat
  <2>1. Before(i, kept) \in SUBSET kept
    BY DEF Before
  <2>2. QED BY <1>1, <2>1, FS_Subset, FS_CardinalityType
<1>3. ASSUME NEW i \in kept, NEW k \in kept, i < k
      PROVE  Cardinality(Before(i, kept)) < Cardinality(Before(k, kept))
  <2>1. i \notin Before(i, kept) /\ Before(i, kept) \cup {i} \in SUBSET Before(k, kept)
    <3>1. i \in Nat /\ k \in Nat
      BY <1>0
    <3>2. \A j \in kept : j < i => j < k
      BY <1>0, <1>3, <3>1
    <3>3. i \notin Before(i, kept)
      BY <3>1 DEF Before
    <3>4. \A j \in Before(i, kept) \cup {i} : j \in Before(k, kept)
      BY <1>3, <3>2 DEF Before
    <3>5. QED BY <3>3, <3>4
  <2>2. Cardinality(Before(i, kept) \cup {i}) = Cardinality(Before(i, kept)) + 1
    BY <1>2, <2>1, FS_AddElement
  <2>3. Cardinality(Before(i, kept) \cup {i}) <= Cardinality(Before(k, kept))
    BY <1>2, <2>1, FS_Subset
  <2>4. QED BY <1>2, <2>2, <2>3
<1>4. ASSUME NEW i \in kept PROVE Cardinality(Before(i, kept)) < Cardinality(kept)
  <2>1. i \notin Before(i, kept) /\ Before(i, kept) \cup {i} \in SUBSET kept
    BY DEF Before
  <2>2. Cardinality(Before(i, kept) \cup {i}) = Cardinality(Before(i, kept)) + 1
    BY <1>2, <2>1, FS_AddElement
  <2>3. Cardinality(Before(i, kept) \cup {i}) <= Cardinality(kept)
    BY <1>1, <2>1, FS_Subset
  <2>4. QED BY <1>1, <1>2, <2>2, <2>3
<1> DEFINE place == [i \in kept |-> Cardinality(Before(i, kept)) + 1]
<1>5. \A i \in kept : place[i] = Cardinality(Before(i, kept)) + 1
                        /\ place[i] \in 1..Cardinality(kept)
  BY <1>1, <1>2, <1>4
<1>6. place \in [kept -> 1..Cardinality(kept)]
  BY <1>5
<1> HIDE DEF place
<1>7. \A i, k \in kept : place[i] = place[k] => i = k
  <2> SUFFICES ASSUME NEW i \in kept, NEW k \in kept, place[i] = place[k], i # k
               PROVE  FALSE
    OBVIOUS
  <2>1. i < k \/ k < i
    OBVIOUS
  <2>2. Cardinality(Before(i, kept)) = Cardinality(Before(k, kept))
    BY <1>2, <1>5
  <2>3. QED BY <1>2, <1>3, <2>1, <2>2
<1>8. place \in Injection(kept, 1..Cardinality(kept))
  BY <1>6, <1>7 DEF Injection, IsInjective
<1>9. place \in Surjection(kept, 1..Cardinality(kept))
  BY <1>1, <1>8, Counting, FS_Injection
<1>10. ASSUME NEW m \in 1..Cardinality(kept)
       PROVE  \E i \in kept : Cardinality(Before(i, kept)) = m - 1
  <2>1. PICK i \in kept : place[i] = m
    BY <1>9 DEF Surjection
  <2>2. QED BY <1>2, <1>5, <2>1
<1>11. \A i \in kept : Cardinality(Before(i, kept)) + 1 \in 1..Cardinality(kept)
  BY <1>5
<1>12. QED BY <1>1, <1>2, <1>3, <1>10, <1>11

(* What applyFilters shows are the rows of the chosen severity, each one,  *)
(* as often as it was loaded and in the order it was loaded in.            *)
THEOREM FilterIsExact ==
    ASSUME NEW rows \in Seq(Rows), NEW severity
    PROVE  /\ Filtered(rows, severity) \in Seq(Rows)
           /\ Len(Filtered(rows, severity)) <= Len(rows)
           /\ \E from \in [1..Len(Filtered(rows, severity)) -> Kept(rows, severity)] :
                 /\ \A m \in DOMAIN from : Filtered(rows, severity)[m] = rows[from[m]]
                 /\ \A m, n \in DOMAIN from : m < n => from[m] < from[n]
                 /\ \A i \in Kept(rows, severity) : \E m \in DOMAIN from : from[m] = i
<1> DEFINE kept == Kept(rows, severity)
           size == Cardinality(kept)
           from == [m \in 1..size |-> CHOOSE i \in kept : Cardinality(Before(i, kept)) = m - 1]
           shows == Filtered(rows, severity)
<1>1. /\ DOMAIN rows = 1..Len(rows) /\ Len(rows) \in Nat
      /\ \A i \in DOMAIN rows : rows[i] \in Rows
  OBVIOUS
<1>2. kept \in SUBSET (1..Len(rows))
  BY <1>1 DEF Kept
<1>3. shows = [m \in 1..size |-> rows[from[m]]]
  BY DEF Filtered, Kept, Passes, Before
<1> HIDE DEF kept
<1>4. /\ \A i \in kept : i \in Nat
      /\ \A i, k \in kept : i < k =>
            Cardinality(Before(i, kept)) < Cardinality(Before(k, kept))
      /\ \A i \in kept : /\ Cardinality(Before(i, kept)) \in Nat
                         /\ Cardinality(Before(i, kept)) + 1 \in 1..size
  <2>1. \A i \in kept : i \in Nat
    BY <1>1, <1>2
  <2> HIDE DEF size
  <2>2. Len(rows) \in Nat
    BY <1>1
  <2>3. QED BY <1>2, <2>1, <2>2, PlacesOfKept DEF size
<1>5. size \in Nat /\ size <= Len(rows)
  BY <1>1, <1>2, PlacesOfKept
<1>6. \A m \in 1..size : from[m] \in kept /\ Cardinality(Before(from[m], kept)) = m - 1
  <2> SUFFICES ASSUME NEW m \in 1..size
               PROVE  from[m] \in kept /\ Cardinality(Before(from[m], kept)) = m - 1
    OBVIOUS
  <2>1. \E i \in kept : Cardinality(Before(i, kept)) = m - 1
    BY <1>1, <1>2, PlacesOfKept
  <2>2. QED BY <2>1
<1>7. from \in [1..size -> kept]
  BY <1>6
<1> HIDE DEF size, from, shows
<1>8. \A m \in 1..size : rows[from[m]] \in Rows
  BY <1>1, <1>2, <1>6
<1>9. shows \in [1..size -> Rows]
  BY <1>3, <1>8
<1>10. shows \in Seq(Rows) /\ Len(shows) = size
  BY <1>5, <1>9
<1>11. ASSUME NEW m \in 1..size, NEW n \in 1..size, m < n
       PROVE  from[m] < from[n]
  <2>1. from[m] \in kept /\ from[n] \in kept /\ from[m] \in Nat /\ from[n] \in Nat
    BY <1>6, <1>4
  <2>2. ~(from[n] < from[m])
    <3>1. /\ Cardinality(Before(from[m], kept)) = m - 1
          /\ Cardinality(Before(from[n], kept)) = n - 1
      BY <1>6
    <3>2. SUFFICES ASSUME from[n] < from[m] PROVE FALSE
      OBVIOUS
    <3>3. n - 1 < m - 1
      BY <1>4, <2>1, <3>1, <3>2
    <3>4. m \in Nat /\ n \in Nat
      BY <1>5
    <3>5. QED BY <1>11, <3>3, <3>4
  <2>3. from[m] # from[n]
    BY <1>5, <1>6, <1>11
  <2>4. QED BY <2>1, <2>2, <2>3
<1>12. ASSUME NEW i \in kept PROVE \E m \in 1..size : from[m] = i
  <2> DEFINE m == Cardinality(Before(i, kept)) + 1
  <2>1. m \in 1..size /\ m - 1 = Cardinality(Before(i, kept))
    <3>1. Cardinality(Before(i, kept)) \in Nat /\ m \in 1..size
      BY <1>4
    <3>2. QED BY <3>1
  <2>2. from[m] \in kept /\ Cardinality(Before(from[m], kept)) = Cardinality(Before(i, kept))
    BY <1>6, <2>1
  <2>3. from[m] \in Nat /\ i \in Nat
    BY <1>4, <2>2
  <2>4. Cardinality(Before(i, kept)) \in Nat
    BY <1>4
  <2> HIDE DEF m
  <2>5. ~(from[m] < i) /\ ~(i < from[m])
    BY <1>4, <2>2, <2>4
  <2>6. from[m] = i
    BY <2>3, <2>5
  <2>7. QED BY <2>1, <2>6
<1>13. DOMAIN from = 1..size /\ \A m \in 1..size : shows[m] = rows[from[m]]
  BY <1>3, <1>7
<1>14. /\ from \in [1..Len(shows) -> kept]
       /\ \A m \in DOMAIN from : shows[m] = rows[from[m]]
       /\ \A m, n \in DOMAIN from : m < n => from[m] < from[n]
       /\ \A i \in kept : \E m \in DOMAIN from : from[m] = i
  BY <1>7, <1>10, <1>11, <1>12, <1>13
<1>15. QED BY <1>5, <1>10, <1>14 DEF kept, shows

(* What the dashboard keeps beside the rows it loaded has its type, ...    *)
Rest ==
    /\ shown \in Seq(Rows)
    /\ box \in {"error", "warning", AnySeverity}
    /\ page \in Nat
    /\ late \in SUBSET Callers

LEMMA RestKept == WalkInv /\ Rest /\ [Next]_vars => Rest'
<1> SUFFICES ASSUME WalkInv, Rest, [Next]_vars
             PROVE  Rest'
  OBVIOUS
<1> USE DEF Rest
<1>1. all \in Seq(Rows) /\ \A c \in Callers : call[c].phase = "answered" => call[c].items \in Seq(Rows)
  <2>1. ASSUME NEW c \in Callers, call[c].phase = "answered"
        PROVE  call[c].items \in Seq(Rows)
    BY <2>1, AskedTyped DEF WalkInv, CallRecords
  <2>2. QED BY <2>1 DEF WalkInv, Types
<1>2. CASE UNCHANGED dashboardVars
  BY <1>2 DEF dashboardVars
<1>3. CASE UNCHANGED clientVars
  BY <1>3 DEF clientVars
<1>4. CASE Walks
  BY <1>2, <1>4 DEF Walks, StartWalk, TakePage, WalkRefused
<1>5. CASE Browses
  <2>1. ASSUME NEW c \in Callers, loadData(c) \/ LoadArrives(c) \/ LoadFails(c)
        PROVE  Rest'
    <3>1. CASE loadData(c)
      BY <3>1 DEF loadData
    <3>2. CASE LoadArrives(c)
      <4>1. /\ call[c].phase = "answered"
            /\ shown' = call[c].items /\ page' = 0 /\ box' = box
            /\ late' = {d \in Callers \ {c} : call[d].phase # "idle"}
        BY <3>2 DEF LoadArrives, Loaded
      <4>2. QED BY <1>1, <4>1
    <3>3. CASE LoadFails(c)
      BY <1>2, <3>3 DEF LoadFails
    <3>4. QED BY <2>1, <3>1, <3>2, <3>3
  <2>2. ASSUME NEW severity \in {"error", "warning", AnySeverity}, applyFilters(severity)
        PROVE  Rest'
    <3>1. /\ shown' = Filtered(all, severity) /\ box' = severity
          /\ page' = 0 /\ late' = late
      BY <2>2 DEF applyFilters
    <3>2. QED BY <1>1, <3>1, FilterIsExact
  <2>3. CASE nextPage \/ prevPage
    BY <2>3 DEF nextPage, prevPage
  <2>4. QED BY <1>5, <2>1, <2>2, <2>3 DEF Browses
<1>6. CASE UNCHANGED vars
  BY <1>2, <1>6 DEF vars, dashboardVars
<1>7. QED BY <1>3, <1>4, <1>5, <1>6 DEF Next

(* ... and so do the table, the calls and the walk: type correctness of    *)
(* the two clients.                                                        *)
THEOREM ClientsTyped == Spec => []TypeOK
<1>1. Init => Rest
  BY DEF Init, Rest
<1>2. Spec => []Rest
  BY <1>1, RestKept, WalkInvAlways, PTL DEF Spec
<1>3. WalkInv /\ ListingTypeOK /\ Rest => TypeOK
  BY DEF WalkInv, Types, Rest, TypeOK
<1>4. QED BY <1>2, <1>3, WalkInvAlways, TableTyped, PTL

(* The filter drops no row it should pass and passes no other.             *)
LEMMA FilterPasses ==
    ASSUME NEW rows \in Seq(Rows), NEW severity
    PROVE  ToSet(Filtered(rows, severity)) = {row \in ToSet(rows) : Passes(row, severity)}
<1> DEFINE shows == Filtered(rows, severity)
           kept == Kept(rows, severity)
<1>1. shows \in Seq(Rows) /\ DOMAIN shows = 1..Len(shows)
  BY FilterIsExact
<1>2. PICK from \in [1..Len(shows) -> kept] :
         /\ \A m \in 1..Len(shows) : shows[m] = rows[from[m]]
         /\ \A i \in kept : \E m \in 1..Len(shows) : from[m] = i
  BY FilterIsExact
<1>3. \A i : i \in kept <=> i \in DOMAIN rows /\ Passes(rows[i], severity)
  BY DEF Kept
<1> HIDE DEF shows, kept
<1>4. ASSUME NEW row \in ToSet(shows)
      PROVE  row \in ToSet(rows) /\ Passes(row, severity)
  <2>1. PICK m \in 1..Len(shows) : row = shows[m]
    BY <1>1 DEF ToSet
  <2>2. from[m] \in kept /\ row = rows[from[m]]
    BY <1>2, <2>1
  <2>3. QED BY <1>3, <2>2 DEF ToSet
<1>5. ASSUME NEW row \in ToSet(rows), Passes(row, severity)
      PROVE  row \in ToSet(shows)
  <2>1. PICK i \in DOMAIN rows : row = rows[i]
    BY DEF ToSet
  <2>2. PICK m \in 1..Len(shows) : from[m] = i
    BY <1>2, <1>3, <1>5, <2>1
  <2>3. QED BY <1>1, <1>2, <2>1, <2>2 DEF ToSet
<1>6. QED BY <1>4, <1>5 DEF shows

(* The user sees every row that was loaded, or every one of them that has  *)
(* the severity in the box: no row is lost to the filter, and none of      *)
(* another severity is left once it is applied.                            *)
THEOREM ShowsWhatWasLoaded ==
    Spec => [](\/ shown = all
               \/ ToSet(shown) = {row \in ToSet(all) : Passes(row, box)})
<1>1. WalkInv /\ ShownIsOfOneLoad =>
          \/ shown = all
          \/ ToSet(shown) = {row \in ToSet(all) : Passes(row, box)}
  <2> SUFFICES ASSUME WalkInv, shown = Filtered(all, box)
               PROVE  ToSet(shown) = {row \in ToSet(all) : Passes(row, box)}
    BY DEF ShownIsOfOneLoad
  <2>1. all \in Seq(Rows)
    BY DEF WalkInv, Types
  <2>2. QED BY <2>1, FilterPasses
<1>2. QED BY <1>1, WalkInvAlways, ShownOfOneLoad, PTL
=============================================================================
