---------------------------- MODULE AuditLogProofs ----------------------------
(***************************************************************************)
(* Theorems about AuditLog, for any sessions, tenants, times and number of *)
(* events.                                                                 *)
(***************************************************************************)
EXTENDS AuditLog, FiniteSetTheorems, WellFoundedInduction, TLAPS

(* A transaction that ends leaves no row that was not there.               *)
LEMMA FlushedShrinks ==
    ASSUME TypeOK, NEW s \in Sessions, EndTransaction(s)
    PROVE  /\ added' \in [Sessions -> SUBSET Events]
           /\ Flushed' \subseteq Flushed
           /\ added[s] \subseteq Flushed
<1>1. added' = [added EXCEPT ![s] = {}]
  BY DEF EndTransaction
<1>2. added' \in [Sessions -> SUBSET Events]
  BY <1>1 DEF TypeOK
<1>3. \A q \in Sessions : added'[q] \subseteq added[q]
  BY <1>1 DEF TypeOK
<1>4. QED BY <1>2, <1>3 DEF Flushed

(* The ids of fewer rows stay unique.                                      *)
LEMMA FewerIds ==
    ASSUME NEW rows, IdsAreUnique(rows), NEW fewer \in SUBSET rows
    PROVE  IdsAreUnique(fewer)
BY DEF IdsAreUnique

(* There are finitely many events: an event is one of its id.              *)
LEMMA FinitelyMany ==
    ASSUME TypeOK
    PROVE  IsFiniteSet(audit_events)
<1> DEFINE idOf == [row \in audit_events |-> row.id]
<1>1. idOf \in Injection(audit_events, Ids)
  BY DEF TypeOK, IdsAreUnique, Events, Injection, IsInjective
<1>2. IsFiniteSet(Ids)
  BY FS_Interval, AuditAssumption DEF Ids
<1>3. QED BY <1>1, <1>2, FS_Injection

(* What is counted is a number.                                            *)
LEMMA Counts ==
    ASSUME TypeOK, NEW filter
    PROVE  /\ Cardinality(Matching(filter)) \in Nat
           /\ Cardinality(audit_events) \in Nat
           /\ Cardinality(Matching(filter)) <= Cardinality(audit_events)
<1>1. IsFiniteSet(audit_events) /\ Matching(filter) \subseteq audit_events
  BY FinitelyMany DEF Matching
<1>2. QED BY <1>1, FS_Subset, FS_CardinalityType

(* Types hold, and no two events, committed or not, have one id: a new row *)
(* gets an id that no session uses, committed or not.                      *)
THEOREM TypeCorrect == Spec => []TypeOK
<1>1. Init => TypeOK
  BY AuditAssumption DEF Init, TypeOK, Walks, Flushed, IdsAreUnique
<1>2. ASSUME TypeOK, [Next]_vars PROVE TypeOK'
  <2>1. ASSUME NEW s \in Sessions, Create(s) PROVE TypeOK'
    <3>1. PICK tenant \in Tenants, action \in Actions, time \in Times, id \in Unused :
              added' = [added EXCEPT ![s] = @ \cup
                  {[id |-> id, tenant_id |-> tenant, action |-> action,
                    occurred_at |-> time, detail |-> "as created"]}]
      BY <2>1 DEF Create
    <3> DEFINE row == [id |-> id, tenant_id |-> tenant, action |-> action,
                       occurred_at |-> time, detail |-> "as created"]
    <3>2. row \in Events /\ row.id = id
      BY DEF Unused, Events
    <3>3. \A other \in audit_events \cup Flushed : other.id # id
      BY DEF Unused
    <3> HIDE DEF row
    <3>4. /\ added' \in [Sessions -> SUBSET Events]
          /\ \A q \in Sessions : added'[q] \subseteq added[q] \cup {row}
      BY <1>2, <3>1, <3>2 DEF TypeOK, row
    <3>5. Flushed' \subseteq Flushed \cup {row}
      BY <3>4 DEF Flushed
    <3>6. IdsAreUnique(audit_events' \cup Flushed')
      BY <1>2, <2>1, <3>2, <3>3, <3>5 DEF TypeOK, Create, IdsAreUnique
    <3>7. QED BY <1>2, <2>1, <3>4, <3>6 DEF TypeOK, Create, IdsAreUnique
  <2>2. ASSUME NEW s \in Sessions, Commit(s) PROVE TypeOK'
    <3>1. EndTransaction(s) /\ audit_events' = audit_events \cup added[s]
      BY <2>2 DEF Commit
    <3>2. /\ added' \in [Sessions -> SUBSET Events] /\ audit_events' \subseteq Events
          /\ audit_events' \cup Flushed' \subseteq audit_events \cup Flushed
      BY <1>2, <3>1, FlushedShrinks DEF TypeOK
    <3>3. IdsAreUnique(audit_events' \cup Flushed')
      BY <1>2, <3>2, FewerIds DEF TypeOK
    <3>4. QED BY <1>2, <3>1, <3>2, <3>3 DEF TypeOK, EndTransaction, IdsAreUnique
  <2>3. ASSUME NEW s \in Sessions, Rollback(s) PROVE TypeOK'
    <3>1. /\ added' \in [Sessions -> SUBSET Events]
          /\ audit_events' \cup Flushed' \subseteq audit_events \cup Flushed
      BY <1>2, <2>3, FlushedShrinks DEF Rollback, TypeOK
    <3>2. IdsAreUnique(audit_events' \cup Flushed')
      BY <1>2, <3>1, FewerIds DEF TypeOK
    <3>3. QED BY <1>2, <2>3, <3>1, <3>2 DEF TypeOK, Rollback, EndTransaction, IdsAreUnique
  <2>4. ASSUME UNCHANGED <<audit_events, added>>, walk' \in Walks PROVE TypeOK'
    BY <1>2, <2>4 DEF TypeOK, Flushed, IdsAreUnique
  <2>5. \A filter : Matching(filter) \subseteq Events
    BY <1>2 DEF TypeOK, Matching
  <2>6. CASE StartWalk
    BY <1>2, <2>4, <2>5, <2>6 DEF StartWalk, TypeOK, Walks
  <2>7. CASE CountEvents
    <3>1. Total \in Nat /\ Cardinality(Matching(walk.filter)) \in Nat
      BY <1>2, Counts DEF Total
    <3>2. QED BY <1>2, <2>4, <2>7, <3>1 DEF CountEvents, TypeOK, Walks
  <2>8. CASE SelectPage
    <3>1. PICK page \in Pages(Matching(walk.filter), walk.limit, walk.offset) :
              walk' = [walk EXCEPT
                  !.at = IF walk.offset + walk.limit < walk.total THEN "count" ELSE "done",
                  !.offset = @ + walk.limit,
                  !.matching = Cardinality(Matching(walk.filter)),
                  !.seen = @ \cup page]
      BY <2>8 DEF SelectPage
    <3>2. page \subseteq Events
      BY <2>5 DEF Pages, Newest
    <3>3. walk.offset + walk.limit \in Nat /\ Cardinality(Matching(walk.filter)) \in Nat
      <4>1. walk.offset \in Nat /\ walk.limit \in Nat
        BY <1>2, AuditAssumption DEF TypeOK, Walks
      <4>2. walk.offset + walk.limit \in Nat
        BY <4>1
      <4>3. QED BY <1>2, <4>2, Counts
    <3>4. walk' \in Walks
      <4> DEFINE at == IF walk.offset + walk.limit < walk.total THEN "count" ELSE "done"
                 offset == walk.offset + walk.limit
                 matching == Cardinality(Matching(walk.filter))
                 seen == walk.seen \cup page
      <4>1. walk' = [walk EXCEPT !.at = at, !.offset = offset, !.matching = matching,
                                 !.seen = seen]
        BY <3>1
      <4>2. walk \in Walks /\ at \in {"count", "done"}
        BY <1>2 DEF TypeOK
      <4>3. seen \in SUBSET Events
        BY <3>2, <4>2 DEF Walks
      <4>4. offset \in Nat /\ matching \in Nat
        BY <3>3
      <4> HIDE DEF at, offset, matching, seen
      <4>5. QED BY <4>1, <4>2, <4>3, <4>4 DEF Walks
    <3>5. QED BY <2>4, <2>8, <3>4 DEF SelectPage
  <2>9. CASE UNCHANGED vars
    BY <1>2, <2>4, <2>9 DEF vars, TypeOK
  <2>10. QED
    BY <1>2, <2>1, <2>2, <2>3, <2>6, <2>7, <2>8, <2>9 DEF Next, RawUpdate, RawDelete
<1>3. QED BY <1>1, <1>2, PTL DEF Spec

(* A committed event stays as it was created, and transactions are whole.  *)
THEOREM AppendOnly == Spec => AuditIsAppendOnly
<1>1. ASSUME [Next]_vars
      PROVE  /\ audit_events \subseteq audit_events'
             /\ audit_events' # audit_events =>
                   \E s \in Sessions : audit_events' = audit_events \cup added[s]
  <2>1. ASSUME NEW s \in Sessions, Commit(s)
        PROVE  audit_events' = audit_events \cup added[s]
    BY <2>1 DEF Commit
  <2>2. CASE UNCHANGED audit_events
    BY <2>2
  <2>3. QED
    BY <1>1, <2>1, <2>2 DEF Next, vars, Create, Rollback, RawUpdate, RawDelete,
                            StartWalk, CountEvents, SelectPage
<1>2. QED BY <1>1, PTL DEF Spec, AuditIsAppendOnly

-----------------------------------------------------------------------------
(* The walk.                                                               *)

Newer(event, listed) == {row \in listed : row.occurred_at > event.occurred_at}
Listed == Matching(walk.filter)

(* The pages so far hold every event that began but the tied ones and      *)
(* those that lie behind the offset, however many were added before them.  *)
WalkAdvances ==
    /\ IsFiniteSet(audit_events)
    /\ walk.begun \subseteq Listed
    /\ walk.at = "start" => walk.offset = 0
    /\ walk.at = "page" => walk.counted <= walk.total
    /\ walk.at = "page" => walk.counted <= Cardinality(Listed)
    /\ \A event \in Missed : Cardinality(Newer(event, Listed)) >= walk.offset

(* A page without the event, after an offset of newer rows, is of newer    *)
(* rows too: the skipped rows and the page are all newer than the event.   *)
LEMMA PageAdvances ==
    ASSUME NEW listed, IsFiniteSet(listed),
           \A row \in listed : row.occurred_at \in Nat,
           NEW limit \in Nat, NEW offset \in Nat,
           NEW page \in Pages(listed, limit, offset),
           NEW event \in listed, event \notin page, Untied(event, listed),
           Cardinality(Newer(event, listed)) >= offset
    PROVE  Cardinality(Newer(event, listed)) >= offset + limit
<1> DEFINE newer == Newer(event, listed)
<1>1. PICK skipped \in Newest(offset, listed) : page \in Newest(limit, listed \ skipped)
  BY DEF Pages
<1>2. /\ newer \subseteq listed /\ event \notin newer /\ skipped \subseteq listed
      /\ page \subseteq listed \ skipped
  BY <1>1 DEF Newer, Newest
<1>3. /\ IsFiniteSet(newer) /\ IsFiniteSet(skipped) /\ IsFiniteSet(page)
      /\ IsFiniteSet(listed \ skipped)
  <2>1. page \in SUBSET listed /\ listed \ skipped \in SUBSET listed
    BY <1>2
  <2>2. QED BY <1>2, <2>1, FS_Subset
<1>4. /\ Cardinality(newer) \in Nat /\ Cardinality(skipped) \in Nat
      /\ Cardinality(page) \in Nat /\ Cardinality(listed) \in Nat
      /\ Cardinality(listed \ skipped) \in Nat
  BY <1>3, FS_CardinalityType
<1>5. /\ Cardinality(newer \cup {event}) = Cardinality(newer) + 1
      /\ IsFiniteSet(newer \cup {event})
  BY <1>2, <1>3, FS_AddElement
<1>6. Cardinality(skipped) = offset
  <2>1. newer \cup {event} \in SUBSET listed
    BY <1>2
  <2>2. Cardinality(newer \cup {event}) <= Cardinality(listed)
    BY <2>1, FS_Subset
  <2>3. offset < Cardinality(listed)
    BY <1>4, <1>5, <2>2
  <2>4. QED BY <1>1, <2>3 DEF Newest
<1>7. event \notin skipped
  <2>1. SUFFICES ASSUME event \in skipped PROVE FALSE
    OBVIOUS
  <2>2. newer \subseteq skipped
    <3>1. SUFFICES ASSUME NEW row \in newer, row \notin skipped PROVE FALSE
      OBVIOUS
    <3>2. event.occurred_at >= row.occurred_at
      BY <1>1, <1>2, <2>1, <3>1 DEF Newest
    <3>3. QED BY <3>1, <3>2 DEF Newer
  <2>3. newer \cup {event} \in SUBSET skipped
    BY <2>1, <2>2
  <2>4. Cardinality(newer \cup {event}) <= Cardinality(skipped)
    BY <1>3, <2>3, FS_Subset
  <2>5. QED BY <1>4, <1>5, <1>6, <2>4
<1>8. ASSUME NEW row \in skipped \cup page PROVE row \in newer
  <2>1. row \in listed /\ row # event
    BY <1>2, <1>7
  <2>2. row.occurred_at >= event.occurred_at
    BY <1>1, <1>2, <1>7 DEF Newest
  <2>3. row.occurred_at # event.occurred_at
    BY <2>1 DEF Untied
  <2>4. QED BY <2>1, <2>2, <2>3 DEF Newer
<1>9. Cardinality(page) = limit
  <2>1. page \in SUBSET (listed \ skipped) /\ page # listed \ skipped
    BY <1>2, <1>7
  <2>2. Cardinality(page) # Cardinality(listed \ skipped)
    BY <1>3, <2>1, FS_Subset
  <2>3. QED BY <1>1, <2>2 DEF Newest
<1>10. Cardinality(skipped \cup page) = offset + limit
  <2>1. skipped \cap page = {}
    BY <1>2
  <2>2. Cardinality(skipped \cap page) = 0
    BY <2>1, FS_EmptySet
  <2>3. Cardinality(skipped \cup page)
            = Cardinality(skipped) + Cardinality(page) - Cardinality(skipped \cap page)
    BY <1>3, FS_Union
  <2>4. QED BY <1>6, <1>9, <2>2, <2>3
<1>11. Cardinality(skipped \cup page) <= Cardinality(newer)
  <2>1. skipped \cup page \in SUBSET newer
    BY <1>8
  <2>2. QED BY <1>3, <2>1, FS_Subset
<1>12. QED BY <1>10, <1>11

(* Every set of numbers that is not empty has a least one.                 *)
LEMMA LeastNumber ==
    ASSUME NEW numbers \in SUBSET Nat, numbers # {}
    PROVE  \E n \in numbers : \A m \in numbers : n <= m
<1> DEFINE less == {pair \in Nat \X Nat : pair[1] < pair[2]}
<1>1. IsWellFoundedOn(less, Nat)
  BY NatLessThanWellFounded DEF OpToRel
<1>2. PICK n \in numbers : \A m \in numbers : ~ (<<m, n>> \in less)
  <2> HIDE DEF less
  <2>1. QED BY <1>1, WFMin
<1>3. \A m \in numbers : ~(m < n)
  BY <1>2
<1>4. QED BY <1>3

(* Events with at least so many newer ones are few: the newest of them and *)
(* the others leave room in the list for all that are newer than it.       *)
LEMMA FewBehind ==
    ASSUME NEW listed, IsFiniteSet(listed), \A row \in listed : row.occurred_at \in Nat,
           NEW behind \in SUBSET listed,
           NEW count \in Nat, count <= Cardinality(listed),
           \A event \in behind : Cardinality(Newer(event, listed)) >= count
    PROVE  Cardinality(behind) <= Cardinality(listed) - count
<1>1. \A event : /\ Newer(event, listed) \in SUBSET listed
                 /\ IsFiniteSet(Newer(event, listed))
                 /\ Cardinality(Newer(event, listed)) \in Nat
  <2>1. \A event : Newer(event, listed) \in SUBSET listed
    BY DEF Newer
  <2>2. QED BY <2>1, FS_Subset, FS_CardinalityType
<1>2. IsFiniteSet(behind) /\ Cardinality(behind) \in Nat /\ Cardinality(listed) \in Nat
  BY FS_Subset, FS_CardinalityType
<1>3. CASE behind = {}
  BY <1>2, <1>3, FS_EmptySet
<1>4. CASE behind # {}
  <2> DEFINE ranks == {Cardinality(Newer(event, listed)) : event \in behind}
  <2>1. ranks \in SUBSET Nat /\ ranks # {}
    BY <1>1, <1>4
  <2>2. PICK least \in ranks : \A rank \in ranks : least <= rank
    <3> HIDE DEF ranks
    <3>1. QED BY <2>1, LeastNumber
  <2>3. PICK first \in behind :
            \A event \in behind :
               Cardinality(Newer(first, listed)) <= Cardinality(Newer(event, listed))
    BY <2>2
  <2>4. ASSUME NEW other \in behind, other \in Newer(first, listed) PROVE FALSE
    <3>1. /\ Newer(other, listed) \in SUBSET Newer(first, listed)
          /\ other \notin Newer(other, listed)
      BY <2>4 DEF Newer
    <3>2. /\ Cardinality(Newer(other, listed)) <= Cardinality(Newer(first, listed))
          /\ Cardinality(Newer(other, listed)) # Cardinality(Newer(first, listed))
      BY <1>1, <2>4, <3>1, FS_Subset
    <3>3. QED BY <1>1, <2>3, <2>4, <3>2
  <2>5. behind \cap Newer(first, listed) = {}
    BY <2>4
  <2>6. Cardinality(behind \cap Newer(first, listed)) = 0
    BY <2>5, FS_EmptySet
  <2>7. Cardinality(behind \cup Newer(first, listed))
            = Cardinality(behind) + Cardinality(Newer(first, listed))
                  - Cardinality(behind \cap Newer(first, listed))
    BY <1>1, <1>2, FS_Union
  <2>8. behind \cup Newer(first, listed) \in SUBSET listed
    BY <1>1
  <2>9. Cardinality(behind \cup Newer(first, listed)) <= Cardinality(listed)
    BY <2>8, FS_Subset
  <2>10. QED BY <1>1, <1>2, <2>3, <2>6, <2>7, <2>9
<1>5. QED BY <1>3, <1>4

(* Events that are added move an event back and never forward.             *)
LEMMA NewerGrows ==
    ASSUME NEW fewer, NEW more, fewer \subseteq more, IsFiniteSet(more), NEW event
    PROVE  Cardinality(Newer(event, fewer)) <= Cardinality(Newer(event, more))
<1>1. Newer(event, fewer) \in SUBSET Newer(event, more) /\ Newer(event, more) \in SUBSET more
  BY DEF Newer
<1>2. QED BY <1>1, FS_Subset

(* Steps that do not walk only add events.                                 *)
LEMMA WritesOnlyAdd ==
    ASSUME [Next]_vars, walk' = walk
    PROVE  audit_events \subseteq audit_events' /\ Listed \subseteq Listed'
<1>1. audit_events \subseteq audit_events'
  BY DEF Next, vars, Create, Commit, Rollback, RawUpdate, RawDelete,
         StartWalk, CountEvents, SelectPage
<1>2. QED BY <1>1 DEF Listed, Matching

(* They leave the events that are missed missed, or tie them.              *)
LEMMA WriteKeepsWalk ==
    ASSUME TypeOK, IsFiniteSet(audit_events)', WalkAdvances, AuditWalkMissesNothing,
           [Next]_vars, walk' = walk
    PROVE  WalkAdvances' /\ AuditWalkMissesNothing'
<1>1. audit_events \subseteq audit_events' /\ Listed \subseteq Listed'
  BY WritesOnlyAdd
<1>2. IsFiniteSet(Listed')
  <2>1. Listed' \in SUBSET audit_events'
    BY DEF Listed, Matching
  <2>2. QED BY <2>1, FS_Subset
<1>3. Missed' \in SUBSET Missed
  BY <1>1 DEF Missed, Untied, Listed
<1>4. ASSUME NEW event \in Missed'
      PROVE  Cardinality(Newer(event, Listed')) >= walk.offset
  <2>1. Cardinality(Newer(event, Listed)) >= walk.offset
    BY <1>3, <1>4 DEF WalkAdvances
  <2>2. Cardinality(Newer(event, Listed)) <= Cardinality(Newer(event, Listed'))
    BY <1>1, <1>2, NewerGrows
  <2>3. Newer(event, Listed) \in SUBSET Listed' /\ Newer(event, Listed') \in SUBSET Listed'
    BY <1>1 DEF Newer
  <2>4. /\ Cardinality(Newer(event, Listed)) \in Nat
        /\ Cardinality(Newer(event, Listed')) \in Nat
    BY <1>2, <2>3, FS_Subset, FS_CardinalityType
  <2>5. walk.offset \in Nat
    BY DEF TypeOK, Walks
  <2>6. QED BY <2>1, <2>2, <2>4, <2>5
<1>5. WalkAdvances'
  <2>1. ASSUME walk'.at = "page" PROVE walk'.counted <= Cardinality(Listed')
    <3>1. Listed \in SUBSET Listed'
      BY <1>1
    <3>2. /\ Cardinality(Listed) <= Cardinality(Listed')
          /\ Cardinality(Listed) \in Nat /\ Cardinality(Listed') \in Nat
      BY <1>2, <3>1, FS_Subset, FS_CardinalityType
    <3>3. walk.counted \in Nat /\ walk.counted <= Cardinality(Listed)
      BY <2>1 DEF WalkAdvances, TypeOK, Walks
    <3>4. QED BY <3>2, <3>3
  <2>2. QED BY <1>1, <1>4, <2>1 DEF WalkAdvances
<1>6. AuditWalkMissesNothing'
  <2>1. Missed \in SUBSET audit_events
    BY DEF Missed, WalkAdvances, Listed, Matching
  <2>2. /\ Cardinality(Missed') <= Cardinality(Missed)
        /\ Cardinality(Missed') \in Nat /\ Cardinality(Missed) \in Nat
    <3>1. IsFiniteSet(Missed)
      BY <2>1, FS_Subset DEF WalkAdvances
    <3>2. QED BY <1>3, <3>1, FS_Subset, FS_CardinalityType
  <2>3. walk.matching \in Nat /\ walk.counted \in Nat
    BY DEF TypeOK, Walks
  <2> DEFINE missed == Cardinality(Missed)
             missedNow == Cardinality(Missed')
  <2>4. walk.at = "done" => missed <= walk.matching - walk.counted
    BY DEF AuditWalkMissesNothing
  <2>5. walk.at = "done" => missedNow <= walk.matching - walk.counted
    BY <2>2, <2>3, <2>4
  <2>6. QED BY <2>5 DEF AuditWalkMissesNothing
<1>7. QED BY <1>5, <1>6

(* The total is no less than the count: it is the count times the number   *)
(* of events, and there is one if the count is not 0.                      *)
LEMMA TotalSuffices ==
    ASSUME TypeOK
    PROVE  Cardinality(Matching(walk.filter)) <= Total
<1> DEFINE found == Cardinality(Matching(walk.filter))
           all == Cardinality(audit_events)
<1>1. found \in Nat /\ all \in Nat /\ found <= all
  BY Counts
<1>2. Total = found * all
  BY DEF Total
<1> HIDE DEF found, all
<1>3. CASE found = 0
  <2>1. found * all = 0
    BY <1>1, <1>3
  <2>2. QED BY <1>2, <1>3, <2>1 DEF found
<1>4. CASE found > 0
  <2>1. found <= found * all
    BY <1>1, <1>4
  <2>2. QED BY <1>2, <2>1 DEF found
<1>5. QED BY <1>1, <1>3, <1>4

(* A page that ends the walk leaves few behind the count.                  *)
LEMMA PageKeepsWalk ==
    ASSUME TypeOK, WalkAdvances, SelectPage
    PROVE  WalkAdvances' /\ AuditWalkMissesNothing'
<1>1. PICK page \in Pages(Listed, walk.limit, walk.offset) :
          walk' = [walk EXCEPT
              !.at = IF walk.offset + walk.limit < walk.total THEN "count" ELSE "done",
              !.offset = @ + walk.limit,
              !.matching = Cardinality(Matching(walk.filter)),
              !.seen = @ \cup page]
  BY DEF SelectPage, Listed
<1>2. walk \in Walks /\ audit_events' = audit_events /\ walk.at = "page"
  BY DEF TypeOK, SelectPage
<1>3. /\ walk'.at = (IF walk.offset + walk.limit < walk.total THEN "count" ELSE "done")
      /\ walk'.offset = walk.offset + walk.limit
      /\ walk'.matching = Cardinality(Listed)
      /\ walk'.seen = walk.seen \cup page
      /\ walk'.begun = walk.begun /\ walk'.filter = walk.filter
      /\ walk'.counted = walk.counted /\ walk'.total = walk.total
  BY <1>1, <1>2 DEF Walks, Listed
<1>4. Listed' = Listed
  BY <1>2, <1>3 DEF Listed, Matching
<1>5. /\ walk.limit \in Nat /\ walk.offset \in Nat /\ walk.total \in Nat
      /\ walk.counted \in Nat /\ walk.counted <= walk.total
  BY <1>2, AuditAssumption DEF Walks, WalkAdvances
<1>6. IsFiniteSet(Listed) /\ \A row \in Listed : row.occurred_at \in Nat
  <2>1. Listed \in SUBSET audit_events
    BY DEF Listed, Matching
  <2>2. IsFiniteSet(Listed)
    BY <2>1, FS_Subset DEF WalkAdvances
  <2>3. QED BY <2>1, <2>2, AuditAssumption DEF TypeOK, Events
<1>7. ASSUME NEW event \in Missed'
      PROVE  Cardinality(Newer(event, Listed)) >= walk.offset + walk.limit
  <2>1. event \in Missed /\ event \in Listed /\ event \notin page /\ Untied(event, Listed)
    BY <1>3, <1>4, <1>7 DEF WalkAdvances, Missed, Untied, Listed
  <2>2. Cardinality(Newer(event, Listed)) >= walk.offset
    BY <2>1 DEF WalkAdvances
  <2>3. QED BY <1>5, <1>6, <2>1, <2>2, PageAdvances
<1>8. WalkAdvances'
  BY <1>2, <1>3, <1>4, <1>7 DEF WalkAdvances
<1>9. AuditWalkMissesNothing'
  <2> SUFFICES ASSUME walk'.at = "done"
               PROVE  Cardinality(Missed') <= Cardinality(Listed) - walk.counted
    BY <1>3 DEF AuditWalkMissesNothing
  <2>1. walk.offset + walk.limit >= walk.counted
    BY <1>3, <1>5
  <2>2. \A event \in Missed' : Cardinality(Newer(event, Listed)) >= walk.counted
    <3>1. \A event : Cardinality(Newer(event, Listed)) \in Nat
      <4>1. \A event : Newer(event, Listed) \in SUBSET Listed
        BY DEF Newer
      <4>2. QED BY <1>6, <4>1, FS_Subset, FS_CardinalityType
    <3>2. QED BY <1>5, <1>7, <2>1, <3>1
  <2>3. Missed' \in SUBSET Listed
    BY <1>3 DEF Missed, WalkAdvances
  <2>4. walk.counted <= Cardinality(Listed)
    BY <1>2 DEF WalkAdvances
  <2>5. QED BY <1>5, <1>6, <2>2, <2>3, <2>4, FewBehind
<1>10. QED BY <1>8, <1>9

(* Who walks the list by limit, offset and total misses no more untied     *)
(* events of those that were there at the start than were committed        *)
(* between the count and the page of the last call: none, if none was.     *)
(* For any events, times, page size and interleaving of transactions.      *)
THEOREM WalkMissesNothing == Spec => []AuditWalkMissesNothing
<1>1. Init => WalkAdvances /\ AuditWalkMissesNothing
  BY FS_EmptySet DEF Init, WalkAdvances, Missed, AuditWalkMissesNothing
<1>2. ASSUME TypeOK, IsFiniteSet(audit_events)', WalkAdvances, AuditWalkMissesNothing,
             [Next]_vars
      PROVE  WalkAdvances' /\ AuditWalkMissesNothing'
  <2>1. CASE walk' = walk
    BY <1>2, <2>1, WriteKeepsWalk
  <2>2. CASE StartWalk
    <3>1. walk \in Walks /\ audit_events' = audit_events
      BY <1>2, <2>2 DEF TypeOK, StartWalk
    <3>2. /\ walk'.at = "count" /\ walk'.begun = Listed /\ walk'.filter = walk.filter
          /\ walk'.offset = walk.offset /\ walk'.seen = walk.seen
      BY <2>2, <3>1 DEF StartWalk, Walks, Listed
    <3>3. Listed' = Listed /\ walk'.offset = 0
      BY <1>2, <2>2, <3>1, <3>2 DEF Listed, Matching, WalkAdvances, StartWalk
    <3>4. \A event : Cardinality(Newer(event, Listed)) \in Nat
      <4>1. \A event : Newer(event, Listed) \in SUBSET audit_events
        BY DEF Newer, Listed, Matching
      <4>2. QED BY <1>2, <4>1, FS_Subset, FS_CardinalityType DEF WalkAdvances
    <3>5. \A event : Cardinality(Newer(event, Listed)) >= 0
      BY <3>4
    <3>6. QED
      BY <1>2, <3>1, <3>2, <3>3, <3>5 DEF WalkAdvances, AuditWalkMissesNothing
  <2>3. CASE CountEvents
    <3>1. walk \in Walks /\ audit_events' = audit_events
      BY <1>2, <2>3 DEF TypeOK, CountEvents
    <3>2. /\ walk'.at = "page" /\ walk'.begun = walk.begun /\ walk'.filter = walk.filter
          /\ walk'.offset = walk.offset /\ walk'.seen = walk.seen
          /\ walk'.total = Total /\ walk'.counted = Cardinality(Matching(walk.filter))
      BY <2>3, <3>1 DEF CountEvents, Walks
    <3>3. Listed' = Listed
      BY <3>1, <3>2 DEF Listed, Matching
    <3>4. Missed' = Missed
      BY <3>2, <3>3 DEF Missed, Listed
    <3>5. walk'.counted <= Cardinality(Listed) /\ walk'.counted <= walk'.total
      BY <1>2, <3>2, Counts, TotalSuffices DEF Listed
    <3>6. QED
      BY <1>2, <3>1, <3>2, <3>3, <3>4, <3>5 DEF WalkAdvances, AuditWalkMissesNothing
  <2>4. CASE SelectPage
    BY <1>2, <2>4, PageKeepsWalk
  <2>5. QED BY <1>2, <2>1, <2>2, <2>3, <2>4 DEF Next, vars, Create, Commit, Rollback,
                EndTransaction, RawUpdate, RawDelete
<1>3. TypeOK => IsFiniteSet(audit_events)
  BY FinitelyMany
<1>4. QED BY <1>1, <1>2, <1>3, TypeCorrect, PTL DEF Spec
=============================================================================
