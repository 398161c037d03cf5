----------------------- MODULE ReconcileEndpointProofs -----------------------
(***************************************************************************)
(* Theorems about ReconcileEndpoint, for every set of requests, tenants,   *)
(* keys and bodies and every bound.                                        *)
(***************************************************************************)
EXTENDS ReconcileEndpoint, FiniteSetTheorems, TLAPS

-----------------------------------------------------------------------------
(* Type correctness.                                                       *)

(* An exception keeps the types, whatever code it is answered with.        *)
LEMMA RaiseType ==
    ASSUME TypeOK, NEW r \in Requests, NEW code \in Codes, Raise(r, code)
    PROVE  TypeOK'
BY DEF TypeOK, Raise, Answered, Goto, LocalsDie, Answers, Steps, RunStatuses

(* A fetch keeps the types, whatever its outcome.                          *)
LEMMA FetchType ==
    ASSUME TypeOK, NEW r \in Requests, NEW source \in Sources,
           NEW next \in Steps, Fetch(r, source, next)
    PROVE  TypeOK'
<1>1. PICK outcome \in FetchOutcomes :
         \/ outcome = "auth" /\ Raise(r, "unprocessable")
         \/ outcome = "escape" /\ Raise(r, "internal_server_error")
         \/ /\ sourceErrors' = IF outcome = "error"
                  THEN [sourceErrors EXCEPT ![r] = @ \cup {source}]
                  ELSE sourceErrors
            /\ Goto(r, next)
            /\ UNCHANGED <<request, row, runs, records, response, faults>>
  BY DEF Fetch
<1>2. CASE Raise(r, "unprocessable") \/ Raise(r, "internal_server_error")
  BY <1>2, RaiseType DEF Codes, Refusals, Breakdowns
<1>3. CASE /\ sourceErrors' = IF outcome = "error"
                  THEN [sourceErrors EXCEPT ![r] = @ \cup {source}]
                  ELSE sourceErrors
           /\ Goto(r, next)
           /\ UNCHANGED <<request, row, runs, records, response, faults>>
  BY <1>3 DEF TypeOK, Goto
<1>4. QED BY <1>1, <1>2, <1>3

(* Only keyed calls reach the steps that save a record.                    *)
SavesAreKeyed ==
    \A r \in Requests : pc[r] \in {"save_record", "commit_record"} => Keyed(r)

(* Every step keeps the types, given that only keyed calls save records.   *)
LEMMA TypeStep ==
    ASSUME TypeOK, SavesAreKeyed, [Next]_vars
    PROVE  TypeOK'
<1> USE DEF Goto
<1>1. ASSUME NEW r \in Requests, Receive(r) PROVE TypeOK'
  BY <1>1 DEF TypeOK, Receive, Steps, Working
<1>2. ASSUME NEW r \in Requests, NEW code \in Codes, Raise(r, code) PROVE TypeOK'
  BY <1>2, RaiseType
<1>3. ASSUME NEW r \in Requests, LookupMisses(r) \/ SaveRecord(r) PROVE TypeOK'
  BY <1>3 DEF TypeOK, LookupMisses, SaveRecord, Steps, Working
<1>4. ASSUME NEW r \in Requests, Replay(r) PROVE TypeOK'
  BY <1>4 DEF TypeOK, Replay, Lookup, Answered, Answers, Records, Codes, Steps
<1>5. ASSUME NEW r \in Requests, CheckActiveRun(r) PROVE TypeOK'
  <2>1. CASE ActiveRuns(r) # {}
    BY <1>5, <2>1, RaiseType DEF CheckActiveRun, Codes, Refusals
  <2>2. CASE ActiveRuns(r) = {}
    BY <1>5, <2>2 DEF CheckActiveRun, TypeOK, Steps, Working
  <2>3. QED BY <2>1, <2>2
<1>6. ASSUME NEW r \in Requests, InsertRun(r) PROVE TypeOK'
  BY <1>6 DEF TypeOK, InsertRun, Steps, Working, RunStatuses
<1>7. ASSUME NEW r \in Requests, FetchServiceTitan(r) \/ FetchQuickBooks(r)
      PROVE  TypeOK'
  <2>1. {"quickbooks", "match"} \subseteq Steps /\ {"servicetitan", "quickbooks"} = Sources
    BY DEF Sources, Steps, Working
  <2>2. QED BY <1>7, <2>1, FetchType DEF FetchServiceTitan, FetchQuickBooks
<1>8. ASSUME NEW r \in Requests, PersistAndMatch(r) PROVE TypeOK'
  BY <1>8 DEF TypeOK, PersistAndMatch, FinalStatus, Steps, Working, RunStatuses,
              Terminal
<1>9. ASSUME NEW r \in Requests, CommitRun(r) PROVE TypeOK'
  BY <1>9 DEF TypeOK, CommitRun, LocalsDie, Steps, Working, RunStatuses
<1>10. ASSUME NEW r \in Requests, CommitRecord(r) PROVE TypeOK'
  <2>1. RecordOf(r) \in Records
    BY <1>10 DEF TypeOK, CommitRecord, SavesAreKeyed, RecordOf, Records, Calls, Keyed
  <2>2. QED BY <1>10, <2>1 DEF TypeOK, CommitRecord, Steps, Working
<1>11. ASSUME NEW r \in Requests, Answer(r) PROVE TypeOK'
  BY <1>11 DEF TypeOK, Answer, Answered, Answers, Codes, Steps
<1>12. ASSUME NEW r \in Requests, DatabaseFails(r) PROVE TypeOK'
  BY <1>12, ConstantsAssumption
     DEF TypeOK, DatabaseFails, Answered, LocalsDie, Answers, Codes, Breakdowns,
         Steps, RunStatuses
<1>13. ASSUME NEW rec \in records, Expire(rec) PROVE TypeOK'
  BY <1>13 DEF TypeOK, Expire, Records
<1>14. CASE Crash
  BY <1>14, ConstantsAssumption
     DEF TypeOK, Crash, Answers, Codes, Breakdowns, Steps, RunStatuses
<1>15. CASE UNCHANGED vars
  BY <1>15 DEF TypeOK, vars
<1>16. ASSUME NEW r \in Requests, HandlerStep(r) PROVE TypeOK'
  <2>1. Refusals \cup Breakdowns \subseteq Codes
    BY DEF Codes
  <2>2. CASE HashFails(r) \/ KeyReused(r) \/ PersistFails(r) \/ SaveConflicts(r)
    BY <2>1, <2>2, <1>2
       DEF HashFails, KeyReused, PersistFails, SaveConflicts, Refusals, Breakdowns
  <2>3. QED BY <1>16, <2>2, <1>3, <1>4, <1>5, <1>6, <1>7, <1>8, <1>9, <1>10, <1>11
               DEF HandlerStep
<1>17. QED BY <1>1, <1>12, <1>13, <1>14, <1>15, <1>16 DEF Next, Quiet

(* A call saves a record only if it has a key: routes.py tests the header  *)
(* before the lookup and again before the save.                            *)
LEMMA KeyedStep ==
    ASSUME TypeOK, SavesAreKeyed, [Next]_vars
    PROVE  SavesAreKeyed'
<1> USE DEF TypeOK, SavesAreKeyed, Keyed, Goto
<1>1. ASSUME NEW r \in Requests, HandlerStep(r) PROVE SavesAreKeyed'
  BY <1>1 DEF HandlerStep, HashFails, LookupMisses, KeyReused, Replay,
              CheckActiveRun, InsertRun, FetchServiceTitan, FetchQuickBooks, Fetch,
              PersistAndMatch, PersistFails, CommitRun, SaveRecord, SaveConflicts,
              CommitRecord, Answer, Raise, Answered
<1>2. ASSUME NEW r \in Requests, Receive(r) \/ DatabaseFails(r) PROVE SavesAreKeyed'
  BY <1>2 DEF Receive, DatabaseFails, Answered
<1>3. ASSUME NEW rec \in records, Expire(rec) PROVE SavesAreKeyed'
  BY <1>3 DEF Expire
<1>4. CASE Crash
  BY <1>4 DEF Crash
<1>5. CASE UNCHANGED vars
  BY <1>5 DEF vars
<1>6. QED BY <1>1, <1>2, <1>3, <1>4, <1>5 DEF Next, Quiet

LEMMA InitTypes == Init => TypeOK /\ SavesAreKeyed
BY ConstantsAssumption
   DEF Init, TypeOK, SavesAreKeyed, Steps, RunStatuses, Answers, Codes

(* The types of every variable hold in every reachable state.              *)
THEOREM TypeCorrect == Spec => [](TypeOK /\ SavesAreKeyed)
BY InitTypes, TypeStep, KeyedStep, PTL DEF Spec

-----------------------------------------------------------------------------
(* How far the run of a call has got, by where its handler stands.         *)

BeforeCommit == {"idle", "lookup", "active", "insert", "servicetitan",
                 "quickbooks", "match", "commit_run"}
AfterCommit == {"save_record", "commit_record", "answer"}

(* The row becomes durable at commit_run and with a final status; nothing  *)
(* is answered before the handler is done; what is refused has no run.     *)
ProgressOf(r) ==
    /\ runs[r] # "in_progress"
    /\ response[r].code # "run_in_progress"
    /\ pc[r] \in BeforeCommit => runs[r] = "absent"
    /\ pc[r] = "commit_run" => row[r] \in Terminal
    /\ pc[r] \in AfterCommit => Executed(r)
    /\ pc[r] # "done" => response[r] = [code |-> "none", run |-> NoRun]
    /\ response[r].code \in Refusals => runs[r] = "absent"
    /\ pc[r] = "idle" => row[r] = "absent"
Progress == \A r \in Requests : ProgressOf(r)

(* A raise keeps the progress if it refuses only calls that have no run.   *)
LEMMA RaiseProgress ==
    ASSUME TypeOK, Progress, NEW r \in Requests,
           NEW code \in (Refusals \cup Breakdowns) \ {"run_in_progress"},
           pc[r] \in BeforeCommit \/ code \in Breakdowns,
           Raise(r, code)
    PROVE  Progress'
BY DEF TypeOK, Progress, ProgressOf, Raise, Answered, Goto, Executed, Terminal,
       BeforeCommit, AfterCommit, Breakdowns, Refusals

LEMMA FetchProgress ==
    ASSUME TypeOK, Progress, NEW r \in Requests, NEW source,
           NEW next \in {"quickbooks", "match"}, pc[r] \in {"servicetitan", "quickbooks"},
           Fetch(r, source, next)
    PROVE  Progress'
<1>1. CASE Raise(r, "unprocessable") \/ Raise(r, "internal_server_error")
  BY <1>1, RaiseProgress DEF Refusals, Breakdowns, BeforeCommit
<1>2. CASE Goto(r, next) /\ UNCHANGED <<request, row, runs, records, response, faults>>
  BY <1>2 DEF TypeOK, Progress, ProgressOf, Goto, Executed, BeforeCommit, AfterCommit
<1>3. QED BY <1>1, <1>2 DEF Fetch

(* Every step keeps every call's progress.                                 *)
LEMMA ProgressStep ==
    ASSUME TypeOK, Progress, [Next]_vars
    PROVE  Progress'
<1> USE DEF Goto
<1>1. ASSUME NEW r \in Requests, Receive(r) PROVE Progress'
  BY <1>1 DEF TypeOK, Progress, ProgressOf, Executed, BeforeCommit, AfterCommit, Receive
<1>2. ASSUME NEW r \in Requests, HashFails(r) \/ KeyReused(r) \/ PersistFails(r)
                                 \/ SaveConflicts(r)
      PROVE  Progress'
  BY <1>2, RaiseProgress DEF HashFails, KeyReused, PersistFails, SaveConflicts,
                             Refusals, Breakdowns, BeforeCommit
<1>3. ASSUME NEW r \in Requests, LookupMisses(r) \/ SaveRecord(r) PROVE Progress'
  BY <1>3 DEF TypeOK, Progress, ProgressOf, Executed, BeforeCommit, AfterCommit,
              LookupMisses, SaveRecord
<1>4. ASSUME NEW r \in Requests, Replay(r) PROVE Progress'
  BY <1>4 DEF TypeOK, Progress, ProgressOf, Executed, BeforeCommit, AfterCommit,
              Replay, Answered, Refusals
<1>5. ASSUME NEW r \in Requests, CheckActiveRun(r) PROVE Progress'
  <2>1. ActiveRuns(r) = {}
    BY DEF ActiveRuns, Progress, ProgressOf
  <2>2. QED BY <1>5, <2>1 DEF CheckActiveRun, TypeOK, Progress, ProgressOf, Executed,
                              BeforeCommit, AfterCommit
<1>6. ASSUME NEW r \in Requests, InsertRun(r) PROVE Progress'
  BY <1>6 DEF TypeOK, Progress, ProgressOf, Executed, BeforeCommit, AfterCommit,
              InsertRun
<1>7. ASSUME NEW r \in Requests, FetchServiceTitan(r) \/ FetchQuickBooks(r)
      PROVE  Progress'
  BY <1>7, FetchProgress DEF FetchServiceTitan, FetchQuickBooks
<1>8. ASSUME NEW r \in Requests, PersistAndMatch(r) PROVE Progress'
  BY <1>8 DEF TypeOK, Progress, ProgressOf, Executed, BeforeCommit, AfterCommit,
              PersistAndMatch, FinalStatus, Terminal
<1>9. ASSUME NEW r \in Requests, CommitRun(r) PROVE Progress'
  BY <1>9 DEF TypeOK, Progress, ProgressOf, Executed, BeforeCommit, AfterCommit,
              CommitRun, Terminal, Refusals
<1>10. ASSUME NEW r \in Requests, CommitRecord(r) PROVE Progress'
  BY <1>10 DEF TypeOK, Progress, ProgressOf, Executed, BeforeCommit, AfterCommit,
               CommitRecord
<1>11. ASSUME NEW r \in Requests, Answer(r) PROVE Progress'
  BY <1>11 DEF TypeOK, Progress, ProgressOf, Executed, BeforeCommit, AfterCommit,
               Answer, Answered, Refusals
<1>12. ASSUME NEW r \in Requests, DatabaseFails(r) PROVE Progress'
  BY <1>12 DEF TypeOK, Progress, ProgressOf, Executed, BeforeCommit, AfterCommit,
               DatabaseFails, Answered, Refusals, Breakdowns
<1>13. ASSUME NEW rec \in records, Expire(rec) PROVE Progress'
  BY <1>13 DEF Progress, ProgressOf, Executed, Expire
<1>14. CASE Crash
  BY <1>14 DEF TypeOK, Progress, ProgressOf, Executed, BeforeCommit, AfterCommit,
               Crash, InFlight, Working, Refusals
<1>15. CASE UNCHANGED vars
  BY <1>15 DEF Progress, ProgressOf, Executed, vars
<1>16. QED BY <1>1, <1>2, <1>3, <1>4, <1>5, <1>6, <1>7, <1>8, <1>9, <1>10, <1>11,
              <1>12, <1>13, <1>14, <1>15
           DEF Next, Quiet, HandlerStep

LEMMA InitProgress == Init => Progress
BY DEF Init, Progress, ProgressOf, Executed, Terminal, AfterCommit, Refusals

LEMMA ProgressAlways == Spec => []Progress
BY InitProgress, ProgressStep, TypeCorrect, PTL DEF Spec

(* No committed run is ever in progress: crashes and errors at any step    *)
(* never leave a tenant with an active run.  What the check for one reads  *)
(* is committed, so it finds none: no call is answered 409 for it.         *)
THEOREM RunsTerminal == Spec => []CommittedRunsAreTerminal
<1>1. Progress => CommittedRunsAreTerminal
  BY DEF Progress, ProgressOf, CommittedRunsAreTerminal
<1>2. QED BY <1>1, ProgressAlways, PTL

(* A call answered 409 or 422 has left no run.                             *)
THEOREM RefusalsClean == Spec => []RefusalsLeaveNothing
<1>1. Progress => RefusalsLeaveNothing
  BY DEF Progress, ProgressOf, RefusalsLeaveNothing
<1>2. QED BY <1>1, ProgressAlways, PTL

(* What reconcile noted of the sources: nothing before the call, and what  *)
(* the status says once it is set.                                         *)
NotedOf(r) ==
    /\ pc[r] = "idle" => sourceErrors[r] = {}
    /\ pc[r] = "commit_run" => row[r] = FinalStatus(r)
Noted == \A r \in Requests : NotedOf(r)

(* What a step may change of what is noted for a call, and of its run.     *)
ErrorsStay(r) ==
    /\ sourceErrors'[r] \ sourceErrors[r] \subseteq {pc[r]}
    /\ \/ sourceErrors[r] \subseteq sourceErrors'[r]
       \/ pc'[r] \in {"save_record", "answer", "done"}
    /\ runs'[r] # runs[r] =>
          runs'[r] = IF sourceErrors[r] = {} THEN "succeeded" ELSE "partial"

(* An exception drops what was noted for its own call only.                *)
LEMMA RaiseNotes ==
    ASSUME TypeOK, Noted, NEW r \in Requests, NEW code, Raise(r, code)
    PROVE  Noted' /\ \A q \in Requests : ErrorsStay(q)
BY DEF TypeOK, Noted, NotedOf, ErrorsStay, FinalStatus, Raise, Answered, Goto, LocalsDie

(* A fetch notes its own source, for its own call.                         *)
LEMMA FetchNotes ==
    ASSUME TypeOK, Noted, NEW r \in Requests, NEW next \in {"quickbooks", "match"},
           pc[r] \in Sources, Fetch(r, pc[r], next)
    PROVE  Noted' /\ \A q \in Requests : ErrorsStay(q)
<1>1. CASE Raise(r, "unprocessable") \/ Raise(r, "internal_server_error")
  BY <1>1, RaiseNotes
<1>2. CASE /\ \/ sourceErrors' = [sourceErrors EXCEPT ![r] = @ \cup {pc[r]}]
              \/ sourceErrors' = sourceErrors
           /\ Goto(r, next)
           /\ UNCHANGED <<request, row, runs, records, response, faults>>
  BY <1>2 DEF TypeOK, Noted, NotedOf, ErrorsStay, FinalStatus, Goto
<1>3. QED BY <1>1, <1>2 DEF Fetch

LEMMA NotedStep ==
    ASSUME TypeOK, Noted, [Next]_vars
    PROVE  Noted' /\ \A q \in Requests : ErrorsStay(q)
<1> USE DEF TypeOK, Noted, NotedOf, ErrorsStay, FinalStatus, Goto
<1>1. ASSUME NEW r \in Requests, Receive(r) \/ LookupMisses(r) \/ Replay(r)
      PROVE  Noted' /\ \A q \in Requests : ErrorsStay(q)
  BY <1>1 DEF Receive, LookupMisses, Replay, Answered
<1>2. ASSUME NEW r \in Requests, HashFails(r) \/ KeyReused(r) \/ PersistFails(r)
                                 \/ SaveConflicts(r)
      PROVE  Noted' /\ \A q \in Requests : ErrorsStay(q)
  BY <1>2, RaiseNotes DEF HashFails, KeyReused, PersistFails, SaveConflicts
<1>3. ASSUME NEW r \in Requests, CheckActiveRun(r)
      PROVE  Noted' /\ \A q \in Requests : ErrorsStay(q)
  <2>1. CASE Raise(r, "run_in_progress")
    BY <2>1, RaiseNotes
  <2>2. CASE ~Raise(r, "run_in_progress")
    BY <1>3, <2>2 DEF CheckActiveRun
  <2>3. QED BY <2>1, <2>2
<1>4. ASSUME NEW r \in Requests, InsertRun(r)
      PROVE  Noted' /\ \A q \in Requests : ErrorsStay(q)
  BY <1>4 DEF InsertRun
<1>5. ASSUME NEW r \in Requests, FetchServiceTitan(r) \/ FetchQuickBooks(r)
      PROVE  Noted' /\ \A q \in Requests : ErrorsStay(q)
  BY <1>5, FetchNotes DEF FetchServiceTitan, FetchQuickBooks, Sources
<1>6. ASSUME NEW r \in Requests, PersistAndMatch(r)
      PROVE  Noted' /\ \A q \in Requests : ErrorsStay(q)
  BY <1>6 DEF PersistAndMatch
<1>7. ASSUME NEW r \in Requests, CommitRun(r)
      PROVE  Noted' /\ \A q \in Requests : ErrorsStay(q)
  BY <1>7 DEF CommitRun, LocalsDie
<1>8. ASSUME NEW r \in Requests, SaveRecord(r) \/ CommitRecord(r) \/ Answer(r)
      PROVE  Noted' /\ \A q \in Requests : ErrorsStay(q)
  BY <1>8 DEF SaveRecord, CommitRecord, Answer, Answered
<1>9. ASSUME NEW r \in Requests, DatabaseFails(r)
      PROVE  Noted' /\ \A q \in Requests : ErrorsStay(q)
  BY <1>9 DEF DatabaseFails, Answered, LocalsDie
<1>10. ASSUME NEW rec \in records, Expire(rec)
       PROVE  Noted' /\ \A q \in Requests : ErrorsStay(q)
  BY <1>10 DEF Expire
<1>11. CASE Crash
  <2>1. \A q \in Requests : pc[q] \in Working \cup {"idle", "done"}
    BY DEF Steps
  <2>2. \A q \in Requests : runs'[q] = runs[q]
    BY <1>11 DEF Crash
  <2>3. \A q \in Requests : \/ pc'[q] = "done" /\ sourceErrors'[q] \subseteq sourceErrors[q]
                            \/ pc'[q] = "idle" /\ sourceErrors'[q] = sourceErrors[q]
                               /\ pc[q] = "idle"
    BY <1>11, <2>1 DEF Crash, InFlight
  <2>4. QED BY <2>2, <2>3
<1>12. CASE UNCHANGED vars
  BY <1>12 DEF vars
<1>13. QED BY <1>1, <1>2, <1>3, <1>4, <1>5, <1>6, <1>7, <1>8, <1>9, <1>10, <1>11, <1>12
           DEF Next, Quiet, HandlerStep

(* The committed status tells whether a fetch failed: what a call noted of *)
(* its sources no other call adds to or drops, and it outlives the commit  *)
(* of the run.                                                             *)
THEOREM StatusTold == Spec => StatusTellsTheErrors
<1>1. Init => Noted
  BY DEF Init, Noted, NotedOf
<1>2. TypeOK /\ Noted /\ [Next]_vars =>
        Noted' /\ [\A r \in Requests : ErrorsStay(r)]_vars
  BY NotedStep
<1>3. QED BY <1>1, <1>2, TypeCorrect, PTL DEF Spec, StatusTellsTheErrors, ErrorsStay

-----------------------------------------------------------------------------
(* The unique index: no two records have one key, and an insert that holds *)
(* the key's lock meets neither a record nor another holder.               *)

OneRecordPerKey == \A a, b \in records : SameKey(a, b) => a = b
HolderIsAlone ==
    \A r \in Requests : pc[r] = "commit_record" => ~KeyTaken(r) /\ ~IndexLocked(r)
Index == OneRecordPerKey /\ HolderIsAlone

(* A step that leaves the records alone and brings no handler to           *)
(* commit_record keeps the index.                                          *)
LEMMA IndexUntouched ==
    ASSUME TypeOK, Index, UNCHANGED <<request, records>>,
           \A r \in Requests : pc'[r] = "commit_record" => pc[r] = "commit_record"
    PROVE  Index'
BY DEF Index, OneRecordPerKey, HolderIsAlone, KeyTaken, IndexLocked, SameKey

LEMMA IndexStep ==
    ASSUME TypeOK, Index, [Next]_vars
    PROVE  Index'
<1> USE DEF TypeOK, Goto
<1>1. ASSUME NEW r \in Requests, SaveRecord(r) PROVE Index'
  BY <1>1 DEF SaveRecord, Index, OneRecordPerKey, HolderIsAlone, KeyTaken,
              IndexLocked, SameKey
<1>2. ASSUME NEW r \in Requests, CommitRecord(r) PROVE Index'
  <2>1. \A rec \in records : ~SameKey(rec, RecordOf(r))
    BY <1>2 DEF CommitRecord, RecordOf, Index, HolderIsAlone, KeyTaken, SameKey
  <2>2. OneRecordPerKey'
    BY <1>2, <2>1 DEF CommitRecord, Index, OneRecordPerKey, SameKey
  <2>3. HolderIsAlone'
    <3> SUFFICES ASSUME NEW q \in Requests, pc'[q] = "commit_record"
                 PROVE  ~KeyTaken(q)' /\ ~IndexLocked(q)'
      BY DEF HolderIsAlone
    <3>1. q # r /\ pc[q] = "commit_record"
      BY <1>2 DEF CommitRecord
    <3>2. ~SameKey(request[q], request[r]) /\ ~KeyTaken(q) /\ ~IndexLocked(q)
      BY <1>2, <3>1 DEF CommitRecord, Index, HolderIsAlone, IndexLocked, SameKey
    <3>3. ~KeyTaken(q)'
      BY <1>2, <3>2 DEF CommitRecord, RecordOf, KeyTaken, SameKey
    <3>4. ~IndexLocked(q)'
      BY <1>2, <3>2 DEF CommitRecord, IndexLocked, SameKey
    <3>5. QED BY <3>3, <3>4
  <2>4. QED BY <2>2, <2>3 DEF Index
<1>3. ASSUME NEW r \in Requests, HandlerStep(r), ~SaveRecord(r), ~CommitRecord(r)
      PROVE  Index'
  <2>1. UNCHANGED <<request, records>>
    BY <1>3 DEF HandlerStep, HashFails, LookupMisses, KeyReused, Replay,
              CheckActiveRun, InsertRun, FetchServiceTitan, FetchQuickBooks, Fetch,
              PersistAndMatch, PersistFails, CommitRun, SaveConflicts, Answer, Raise
  <2>2. \A q \in Requests : pc'[q] = "commit_record" => pc[q] = "commit_record"
    BY <1>3 DEF HandlerStep, HashFails, LookupMisses, KeyReused, Replay,
              CheckActiveRun, InsertRun, FetchServiceTitan, FetchQuickBooks, Fetch,
              PersistAndMatch, PersistFails, CommitRun, SaveConflicts, Answer, Raise,
              Answered
  <2>3. QED BY <2>1, <2>2, IndexUntouched
<1>4. ASSUME NEW r \in Requests, Receive(r) \/ DatabaseFails(r) PROVE Index'
  BY <1>4, IndexUntouched DEF Receive, DatabaseFails, Answered
<1>5. ASSUME NEW rec \in records, Expire(rec) PROVE Index'
  <2> DEFINE aged == [rec EXCEPT !.fresh = FALSE]
  <2>1. /\ records' = (records \ {rec}) \cup {aged}
        /\ UNCHANGED <<request, pc>>
        /\ aged.tenant = rec.tenant /\ aged.key = rec.key
    BY <1>5 DEF Expire, Records
  <2> HIDE DEF aged
  <2>2. OneRecordPerKey'
    BY <1>5, <2>1 DEF Index, OneRecordPerKey, SameKey
  <2>3. HolderIsAlone'
    BY <1>5, <2>1 DEF Index, HolderIsAlone, KeyTaken, IndexLocked, SameKey
  <2>4. QED BY <2>2, <2>3 DEF Index
<1>6. CASE Crash
  BY <1>6, IndexUntouched DEF Crash
<1>7. CASE UNCHANGED vars
  BY <1>7, IndexUntouched DEF vars
<1>8. QED BY <1>1, <1>2, <1>3, <1>4, <1>5, <1>6, <1>7 DEF Next, Quiet

LEMMA IndexAlways == Spec => []Index
<1>1. Init => Index
  BY DEF Init, Index, OneRecordPerKey, HolderIsAlone
<1>2. QED BY <1>1, IndexStep, TypeCorrect, PTL DEF Spec

-----------------------------------------------------------------------------
(* Records, runs and answers.                                              *)

(* A step ages records or adds the one of a handler at commit_record, and  *)
(* never takes a run or a key's binding away.                              *)
LEMMA RecordsOnlyGrow ==
    ASSUME TypeOK, [Next]_vars
    PROVE  /\ request' = request
           /\ \A rec \in records : \E new \in records' :
                 SameKey(rec, new) /\ rec.run = new.run /\ rec.body = new.body
           /\ \A new \in records' :
                 \/ \E rec \in records :
                       SameKey(rec, new) /\ rec.run = new.run /\ rec.body = new.body
                 \/ \E r \in Requests : pc[r] = "commit_record" /\ new = RecordOf(r)
<1> USE DEF SameKey
<1>1. CASE UNCHANGED <<request, records>>
  BY <1>1
<1>2. ASSUME NEW r \in Requests, CommitRecord(r)
      PROVE  /\ request' = request /\ records' = records \cup {RecordOf(r)}
             /\ pc[r] = "commit_record"
  BY <1>2 DEF CommitRecord
<1>3. ASSUME NEW rec \in records, Expire(rec)
      PROVE  /\ request' = request
             /\ records' = (records \ {rec}) \cup {[rec EXCEPT !.fresh = FALSE]}
             /\ LET new == [rec EXCEPT !.fresh = FALSE]
                IN  SameKey(rec, new) /\ rec.run = new.run /\ rec.body = new.body
  BY <1>3 DEF TypeOK, Expire, Records
<1>4. ASSUME NEW r \in Requests, HandlerStep(r), ~CommitRecord(r)
      PROVE  UNCHANGED <<request, records>>
  BY <1>4 DEF HandlerStep, HashFails, LookupMisses, KeyReused, Replay,
              CheckActiveRun, InsertRun, FetchServiceTitan, FetchQuickBooks, Fetch,
              PersistAndMatch, PersistFails, CommitRun, SaveRecord, SaveConflicts,
              Answer, Raise
<1>5. ASSUME NEW r \in Requests, Receive(r) \/ DatabaseFails(r)
      PROVE  UNCHANGED <<request, records>>
  BY <1>5 DEF Receive, DatabaseFails
<1>6. Crash \/ UNCHANGED vars => UNCHANGED <<request, records>>
  BY DEF Crash, vars
<1>7. CASE \E r \in Requests : CommitRecord(r)
  BY <1>2, <1>7
<1>8. CASE \E rec \in records : Expire(rec)
  <2>1. PICK rec \in records : Expire(rec)
    BY <1>8
  <2> DEFINE aged == [rec EXCEPT !.fresh = FALSE]
  <2>2. /\ request' = request
        /\ records' = (records \ {rec}) \cup {aged}
        /\ SameKey(rec, aged) /\ rec.run = aged.run /\ rec.body = aged.body
    BY <1>3, <2>1
  <2> HIDE DEF aged
  <2>3. QED BY <2>1, <2>2
<1>9. QED BY <1>1, <1>4, <1>5, <1>6, <1>7, <1>8 DEF Next, Quiet

(* A committed run stays committed, and a handler before its commit has    *)
(* none.                                                                   *)
LEMMA RunsOnlyGrow ==
    ASSUME TypeOK, Progress, [Next]_vars
    PROVE  \A r \in Requests : Executed(r) => runs'[r] = runs[r]
<1>1. ASSUME NEW r \in Requests, CommitRun(r)
      PROVE  runs[r] = "absent" /\ \A q \in Requests \ {r} : runs'[q] = runs[q]
  BY <1>1 DEF TypeOK, CommitRun, Progress, ProgressOf, BeforeCommit
<1>2. ASSUME NEW r \in Requests, HandlerStep(r), ~CommitRun(r) PROVE UNCHANGED runs
  BY <1>2 DEF HandlerStep, HashFails, LookupMisses, KeyReused, Replay,
              CheckActiveRun, InsertRun, FetchServiceTitan, FetchQuickBooks, Fetch,
              PersistAndMatch, PersistFails, SaveRecord, SaveConflicts,
              CommitRecord, Answer, Raise
<1>3. ASSUME NEW r \in Requests, Receive(r) \/ DatabaseFails(r) PROVE UNCHANGED runs
  BY <1>3 DEF Receive, DatabaseFails
<1>4. ASSUME NEW rec \in records, Expire(rec) PROVE UNCHANGED runs
  BY <1>4 DEF Expire
<1>5. Crash \/ UNCHANGED vars => UNCHANGED runs
  BY DEF Crash, vars
<1>6. CASE \E r \in Requests : CommitRun(r)
  BY <1>1, <1>6 DEF Executed, Terminal
<1>7. CASE UNCHANGED runs
  BY <1>7
<1>8. QED BY <1>2, <1>3, <1>4, <1>5, <1>6, <1>7 DEF Next, Quiet

(* The binding of a key is permanent: nothing frees or rebinds it.         *)
THEOREM BindingsPermanent == Spec => KeyBindingIsPermanent
<1>1. TypeOK /\ [Next]_vars =>
        [\A rec \in records : \E new \in records' :
            SameKey(rec, new) /\ rec.run = new.run]_vars
  BY RecordsOnlyGrow
<1>2. QED BY <1>1, TypeCorrect, PTL DEF Spec, KeyBindingIsPermanent

(* A record is visible only after the run it names, and belongs to it.     *)
THEOREM RecordsSound == Spec => []RecordsNameTheirRun
<1>1. Init => RecordsNameTheirRun
  BY DEF Init, RecordsNameTheirRun
<1>2. ASSUME TypeOK, Progress, RecordsNameTheirRun, [Next]_vars
      PROVE  RecordsNameTheirRun'
  <2> SUFFICES ASSUME NEW new \in records'
               PROVE  /\ Executed(new.run)'
                      /\ SameKey(new, request'[new.run])
                      /\ new.body = request'[new.run].body
    BY DEF RecordsNameTheirRun
  <2>1. CASE \E rec \in records :
               SameKey(rec, new) /\ rec.run = new.run /\ rec.body = new.body
    BY <1>2, <2>1, RecordsOnlyGrow, RunsOnlyGrow
       DEF TypeOK, Records, RecordsNameTheirRun, Executed, SameKey
  <2>2. CASE \E r \in Requests : pc[r] = "commit_record" /\ new = RecordOf(r)
    BY <1>2, <2>2, RecordsOnlyGrow, RunsOnlyGrow
       DEF RecordOf, Progress, ProgressOf, AfterCommit, Executed, SameKey
  <2>3. QED BY <1>2, <2>1, <2>2, RecordsOnlyGrow
<1>3. QED BY <1>1, <1>2, TypeCorrect, ProgressAlways, PTL DEF Spec

-----------------------------------------------------------------------------
(* The answers.                                                            *)

RecordedFor(r, q) == \E rec \in records : SameKey(rec, request[r]) /\ rec.run = q

(* A keyed handler that is about to answer has its record committed.       *)
AnsweringIsRecorded ==
    \A r \in Requests : pc[r] = "answer" /\ Keyed(r) => RecordedFor(r, r)

(* Only Replay and Answer tell a caller of a run.                          *)
LEMMA WhoAccepts ==
    ASSUME TypeOK, [Next]_vars, NEW r \in Requests, Accepted(r)'
    PROVE  \/ response'[r] = response[r]
           \/ pc[r] = "answer" /\ response'[r].run = r
           \/ \E rec \in records :
                 /\ SameKey(rec, request[r])
                 /\ rec.body = request[r].body
                 /\ response'[r].run = rec.run
<1> USE DEF TypeOK, Accepted
<1>1. ASSUME NEW q \in Requests, NEW code \in Refusals \cup Breakdowns,
             Answered(q, code, NoRun)
      PROVE  response'[r] = response[r]
  BY <1>1 DEF Answered, Refusals, Breakdowns
<1>2. ASSUME NEW q \in Requests, Replay(q)
      PROVE  \/ response'[r] = response[r]
             \/ \E rec \in records :
                   /\ SameKey(rec, request[r])
                   /\ rec.body = request[r].body
                   /\ response'[r].run = rec.run
  BY <1>2 DEF Replay, Lookup, Answered
<1>3. ASSUME NEW q \in Requests, Answer(q)
      PROVE  response'[r] = response[r] \/ (pc[r] = "answer" /\ response'[r].run = r)
  BY <1>3 DEF Answer, Answered
<1>4. ASSUME NEW q \in Requests, HandlerStep(q), ~Replay(q), ~Answer(q)
      PROVE  response'[r] = response[r]
  <2>1. \/ UNCHANGED response
        \/ \E code \in Refusals \cup Breakdowns : Answered(q, code, NoRun)
    BY <1>4 DEF HandlerStep, HashFails, LookupMisses, KeyReused,
              CheckActiveRun, InsertRun, FetchServiceTitan, FetchQuickBooks, Fetch,
              PersistAndMatch, PersistFails, CommitRun, SaveRecord, SaveConflicts,
              CommitRecord, Raise, Refusals, Breakdowns
  <2>2. QED BY <1>1, <2>1
<1>5. ASSUME NEW q \in Requests, Receive(q) \/ DatabaseFails(q)
      PROVE  response'[r] = response[r]
  BY <1>1, <1>5 DEF Receive, DatabaseFails, Breakdowns
<1>6. ASSUME NEW rec \in records, Expire(rec) PROVE UNCHANGED response
  BY <1>6 DEF Expire
<1>7. CASE Crash
  BY <1>7 DEF Crash
<1>8. UNCHANGED vars => UNCHANGED response
  BY DEF vars
<1>9. QED BY <1>2, <1>3, <1>4, <1>5, <1>6, <1>7, <1>8 DEF Next, Quiet

(* A keyed handler comes to answer only by committing its record.          *)
LEMMA WhoAnswers ==
    ASSUME TypeOK, [Next]_vars, NEW r \in Requests, pc'[r] = "answer", Keyed(r)
    PROVE  pc[r] = "answer" \/ CommitRecord(r)
<1> USE DEF TypeOK, Goto
<1>1. ASSUME NEW q \in Requests, HandlerStep(q), ~CommitRecord(r)
      PROVE  pc[r] = "answer"
  BY <1>1 DEF HandlerStep, HashFails, LookupMisses, KeyReused, Replay,
              CheckActiveRun, InsertRun, FetchServiceTitan, FetchQuickBooks, Fetch,
              PersistAndMatch, PersistFails, CommitRun, SaveRecord, SaveConflicts,
              CommitRecord, Answer, Raise, Answered
<1>2. ASSUME NEW q \in Requests, Receive(q) \/ DatabaseFails(q) PROVE pc[r] = "answer"
  BY <1>2 DEF Receive, DatabaseFails, Answered
<1>3. ASSUME NEW rec \in records, Expire(rec) PROVE pc[r] = "answer"
  BY <1>3 DEF Expire
<1>4. Crash \/ UNCHANGED vars => pc[r] = "answer"
  BY DEF Crash, vars
<1>5. QED BY <1>1, <1>2, <1>3, <1>4 DEF Next, Quiet

LEMMA AnsweringStep ==
    ASSUME TypeOK, AnsweringIsRecorded, [Next]_vars
    PROVE  AnsweringIsRecorded'
<1> SUFFICES ASSUME NEW r \in Requests, pc'[r] = "answer", Keyed(r)'
             PROVE  RecordedFor(r, r)'
  BY DEF AnsweringIsRecorded
<1>1. request' = request /\ Keyed(r)
  BY RecordsOnlyGrow DEF Keyed
<1>2. CASE pc[r] = "answer"
  BY <1>1, <1>2, RecordsOnlyGrow DEF AnsweringIsRecorded, RecordedFor, SameKey
<1>3. CASE CommitRecord(r)
  <2>1. RecordOf(r) \in records'
    BY <1>3 DEF CommitRecord
  <2>2. SameKey(RecordOf(r), request'[r]) /\ RecordOf(r).run = r
    BY <1>1 DEF RecordOf, SameKey
  <2>3. QED BY <2>1, <2>2 DEF RecordedFor
<1>4. QED BY <1>1, <1>2, <1>3, WhoAnswers

LEMMA AnsweringAlways == Spec => []AnsweringIsRecorded
<1>1. Init => AnsweringIsRecorded
  BY DEF Init, AnsweringIsRecorded
<1>2. QED BY <1>1, AnsweringStep, TypeCorrect, PTL DEF Spec

(* A keyed caller that was answered 202 finds its key's record there.      *)
THEOREM AcceptedRecorded == Spec => []AcceptedKeyIsRecorded
<1>1. Init => AcceptedKeyIsRecorded
  BY DEF Init, AcceptedKeyIsRecorded, Accepted
<1>2. ASSUME TypeOK, AnsweringIsRecorded, AcceptedKeyIsRecorded, [Next]_vars
      PROVE  AcceptedKeyIsRecorded'
  <2> SUFFICES ASSUME NEW r \in Requests, Accepted(r)', Keyed(r)'
               PROVE  \E rec \in records' :
                         SameKey(rec, request'[r]) /\ rec.run = response'[r].run
    BY DEF AcceptedKeyIsRecorded
  <2>1. request' = request /\ Keyed(r)
    BY <1>2, RecordsOnlyGrow DEF Keyed
  <2>2. \E rec \in records : SameKey(rec, request[r]) /\ rec.run = response'[r].run
    BY <1>2, <2>1, WhoAccepts
       DEF AcceptedKeyIsRecorded, AnsweringIsRecorded, RecordedFor, Accepted
  <2>3. QED BY <1>2, <2>1, <2>2, RecordsOnlyGrow DEF SameKey
<1>3. QED BY <1>1, <1>2, TypeCorrect, AnsweringAlways, PTL DEF Spec

(* All callers that used one key and were answered 202 know the same run.  *)
THEOREM KeyedAnswers == Spec => []KeyedAnswersAgree
<1>1. TypeOK /\ Index /\ AcceptedKeyIsRecorded => KeyedAnswersAgree
  BY DEF Index, OneRecordPerKey, AcceptedKeyIsRecorded, KeyedAnswersAgree, SameKey,
         Keyed
<1>2. QED BY <1>1, TypeCorrect, IndexAlways, AcceptedRecorded, PTL

(* A caller answered 202 is told of a committed run of an identical call.  *)
THEOREM AnswersSound == Spec => []AnswerNamesItsRun
<1>1. Init => AnswerNamesItsRun
  BY DEF Init, AnswerNamesItsRun, Accepted
<1>2. ASSUME TypeOK, Progress, RecordsNameTheirRun, AnswerNamesItsRun, [Next]_vars
      PROVE  AnswerNamesItsRun'
  <2> SUFFICES ASSUME NEW r \in Requests, Accepted(r)'
               PROVE  /\ response'[r].run \in Requests
                      /\ runs'[response'[r].run] \in Terminal
                      /\ response'[r].run # r =>
                            Keyed(r)' /\ request'[response'[r].run] = request'[r]
    BY DEF AnswerNamesItsRun, Executed
  <2> DEFINE q == response'[r].run
  <2>1. request' = request
    BY <1>2, RecordsOnlyGrow
  <2>2. q \in Requests /\ Executed(q) /\ (q # r => Keyed(r) /\ request[q] = request[r])
    <3>1. CASE response'[r] = response[r]
      BY <1>2, <3>1 DEF AnswerNamesItsRun, Accepted
    <3>2. CASE pc[r] = "answer" /\ q = r
      BY <1>2, <3>2 DEF Progress, ProgressOf, AfterCommit
    <3>3. ASSUME NEW rec \in records, SameKey(rec, request[r]),
                 rec.body = request[r].body, q = rec.run
          PROVE  q \in Requests /\ Executed(q) /\ Keyed(r) /\ request[q] = request[r]
      <4>1. rec \in Records /\ request[r] \in Calls /\ q \in Requests
        BY <1>2, <3>3 DEF TypeOK, Records
      <4>2. Executed(q) /\ SameKey(rec, request[q]) /\ rec.body = request[q].body
        BY <1>2, <3>3 DEF RecordsNameTheirRun
      <4>3. Keyed(r)
        BY <3>3, <4>1, ConstantsAssumption DEF Keyed, SameKey, Records
      <4>4. request[q] \in Calls
        BY <1>2, <4>1 DEF TypeOK
      <4>5. request[q] = request[r]
        <5>1. \A c \in Calls :
                c = [tenant |-> c.tenant, key |-> c.key, body |-> c.body]
          BY DEF Calls
        <5>2. QED BY <3>3, <4>1, <4>2, <4>4, <5>1 DEF SameKey
      <4>6. QED BY <4>1, <4>2, <4>3, <4>5
    <3>4. QED BY <1>2, <3>1, <3>2, <3>3, WhoAccepts
  <2>3. QED BY <1>2, <2>1, <2>2, RunsOnlyGrow DEF Executed, Keyed
<1>3. QED BY <1>1, <1>2, TypeCorrect, ProgressAlways, RecordsSound, PTL DEF Spec

-----------------------------------------------------------------------------
(* The keys of executed runs.                                              *)

(* Without a fault a handler ends before its run's commit, at its answer,  *)
(* or because the key it saves is taken.                                   *)
LEMMA WhoEnds ==
    ASSUME TypeOK, Progress, [Next]_vars, NEW r \in Requests,
           pc'[r] = "done", pc[r] # "done", faults' = 0
    PROVE  /\ faults = 0
           /\ runs'[r] = runs[r]
           /\ pc[r] \in BeforeCommit \/ pc[r] = "answer" \/ KeyTaken(r)
<1> USE DEF TypeOK, Goto
<1>1. ASSUME NEW q \in Requests, HandlerStep(q)
      PROVE  /\ faults = 0
             /\ runs'[r] = runs[r]
             /\ pc[r] \in BeforeCommit \/ pc[r] = "answer" \/ KeyTaken(r)
  <2>1. q = r /\ faults' = faults
    BY <1>1 DEF HandlerStep, HashFails, LookupMisses, KeyReused, Replay,
              CheckActiveRun, InsertRun, FetchServiceTitan, FetchQuickBooks, Fetch,
              PersistAndMatch, PersistFails, CommitRun, SaveRecord, SaveConflicts,
              CommitRecord, Answer, Raise, Answered
  <2>2. ~CommitRun(r) /\ ~SaveRecord(r) /\ ~CommitRecord(r)
    BY DEF CommitRun, SaveRecord, CommitRecord
  <2>3. UNCHANGED runs
    BY <1>1, <2>1, <2>2 DEF HandlerStep, HashFails, LookupMisses, KeyReused, Replay,
              CheckActiveRun, InsertRun, FetchServiceTitan, FetchQuickBooks, Fetch,
              PersistAndMatch, PersistFails, SaveConflicts, Answer, Raise
  <2>4. pc[r] \in BeforeCommit \/ pc[r] = "answer" \/ KeyTaken(r)
    BY <1>1, <2>1, <2>2 DEF HandlerStep, HashFails, LookupMisses, KeyReused, Replay,
              CheckActiveRun, InsertRun, FetchServiceTitan, FetchQuickBooks,
              PersistAndMatch, PersistFails, SaveConflicts, Answer, BeforeCommit
  <2>5. QED BY <2>1, <2>3, <2>4
<1>2. ASSUME NEW q \in Requests, Receive(q) PROVE FALSE
  BY <1>2 DEF Receive
<1>3. ASSUME NEW q \in Requests, DatabaseFails(q) PROVE FALSE
  BY <1>3, ConstantsAssumption DEF DatabaseFails
<1>4. ASSUME NEW rec \in records, Expire(rec) PROVE FALSE
  BY <1>4 DEF Expire
<1>5. ASSUME Crash PROVE FALSE
  BY <1>5, ConstantsAssumption DEF Crash
<1>6. ASSUME UNCHANGED vars PROVE FALSE
  BY <1>6 DEF vars
<1>7. QED BY <1>1, <1>2, <1>3, <1>4, <1>5, <1>6 DEF Next, Quiet

(* A handler that is done has its run committed or never will.             *)
LEMMA DoneIsFinal ==
    ASSUME TypeOK, [Next]_vars, NEW r \in Requests, pc[r] = "done", faults' = 0
    PROVE  faults = 0 /\ runs'[r] = runs[r]
<1> USE DEF TypeOK
<1>1. ASSUME NEW q \in Requests, HandlerStep(q)
      PROVE  faults = 0 /\ runs'[r] = runs[r]
  BY <1>1 DEF HandlerStep, HashFails, LookupMisses, KeyReused, Replay,
              CheckActiveRun, InsertRun, FetchServiceTitan, FetchQuickBooks, Fetch,
              PersistAndMatch, PersistFails, CommitRun, SaveRecord, SaveConflicts,
              CommitRecord, Answer, Raise
<1>2. ASSUME NEW q \in Requests, Receive(q) PROVE faults = 0 /\ UNCHANGED runs
  BY <1>2 DEF Receive
<1>3. ASSUME NEW q \in Requests, DatabaseFails(q) PROVE FALSE
  BY <1>3, ConstantsAssumption DEF DatabaseFails
<1>4. ASSUME NEW rec \in records, Expire(rec) PROVE faults = 0 /\ UNCHANGED runs
  BY <1>4 DEF Expire
<1>5. ASSUME Crash PROVE FALSE
  BY <1>5, ConstantsAssumption DEF Crash
<1>6. ASSUME UNCHANGED vars PROVE faults = 0 /\ UNCHANGED runs
  BY <1>6 DEF vars
<1>7. QED BY <1>1, <1>2, <1>3, <1>4, <1>5, <1>6 DEF Next, Quiet

(* Until something fails, a finished call that executed a run under a key  *)
(* leaves the key recorded: racing calls never all lose their record.      *)
THEOREM ExecutedRecorded == Spec => []ExecutedKeyIsRecorded
<1>1. Init => ExecutedKeyIsRecorded
  BY DEF Init, ExecutedKeyIsRecorded
<1>2. ASSUME TypeOK, Progress, AnsweringIsRecorded, ExecutedKeyIsRecorded, [Next]_vars
      PROVE  ExecutedKeyIsRecorded'
  <2> SUFFICES ASSUME faults' = 0, NEW r \in Requests, pc'[r] = "done",
                      Executed(r)', Keyed(r)'
               PROVE  \E rec \in records' : SameKey(rec, request'[r])
    BY DEF ExecutedKeyIsRecorded
  <2>1. request' = request /\ Keyed(r)
    BY <1>2, RecordsOnlyGrow DEF Keyed
  <2>2. KeyTaken(r)
    <3>1. CASE pc[r] = "done"
      BY <1>2, <2>1, <3>1, DoneIsFinal DEF ExecutedKeyIsRecorded, KeyTaken, Executed
    <3>2. CASE pc[r] # "done"
      <4>1. Executed(r) /\ (pc[r] \in BeforeCommit \/ pc[r] = "answer" \/ KeyTaken(r))
        BY <1>2, <3>2, WhoEnds DEF Executed
      <4>2. pc[r] \notin BeforeCommit
        BY <1>2, <4>1 DEF Progress, ProgressOf, Executed, Terminal
      <4>3. QED BY <1>2, <2>1, <4>1, <4>2
                DEF AnsweringIsRecorded, RecordedFor, KeyTaken
    <3>3. QED BY <3>1, <3>2
  <2>3. QED BY <1>2, <2>1, <2>2, RecordsOnlyGrow DEF KeyTaken, SameKey
<1>3. QED BY <1>1, <1>2, TypeCorrect, ProgressAlways, AnsweringAlways, PTL DEF Spec

-----------------------------------------------------------------------------
(* Errors after the commit.                                                *)

(* A record is of a handler that has committed it: it is about to answer,  *)
(* or ended after that.                                                    *)
RecordsAreSaved == \A rec \in records : pc[rec.run] \in {"answer", "done"}

(* A handler never goes back from its answer.                              *)
LEMMA AnswerIsTheEnd ==
    ASSUME TypeOK, [Next]_vars, NEW r \in Requests, pc[r] \in {"answer", "done"}
    PROVE  pc'[r] \in {"answer", "done"}
<1> USE DEF TypeOK, Goto
<1>1. ASSUME NEW q \in Requests, HandlerStep(q) PROVE pc'[r] \in {"answer", "done"}
  BY <1>1 DEF HandlerStep, HashFails, LookupMisses, KeyReused, Replay,
              CheckActiveRun, InsertRun, FetchServiceTitan, FetchQuickBooks, Fetch,
              PersistAndMatch, PersistFails, CommitRun, SaveRecord, SaveConflicts,
              CommitRecord, Answer, Raise, Answered
<1>2. ASSUME NEW q \in Requests, Receive(q) \/ DatabaseFails(q)
      PROVE  pc'[r] \in {"answer", "done"}
  BY <1>2 DEF Receive, DatabaseFails, Answered
<1>3. ASSUME NEW rec \in records, Expire(rec) PROVE UNCHANGED pc
  BY <1>3 DEF Expire
<1>4. Crash \/ UNCHANGED vars => pc'[r] \in {"answer", "done"}
  BY DEF Crash, vars
<1>5. QED BY <1>1, <1>2, <1>3, <1>4 DEF Next, Quiet

(* A step that does not commit a record names no new run in the records.   *)
LEMMA NoOtherRuns ==
    ASSUME TypeOK, [Next]_vars, \A r \in Requests : ~CommitRecord(r),
           NEW new \in records'
    PROVE  \E rec \in records : rec.run = new.run
<1>1. ASSUME NEW r \in Requests, HandlerStep(r) PROVE UNCHANGED records
  BY <1>1 DEF HandlerStep, HashFails, LookupMisses, KeyReused, Replay,
              CheckActiveRun, InsertRun, FetchServiceTitan, FetchQuickBooks, Fetch,
              PersistAndMatch, PersistFails, CommitRun, SaveRecord, SaveConflicts,
              Answer, Raise
<1>2. ASSUME NEW r \in Requests, Receive(r) \/ DatabaseFails(r)
      PROVE  UNCHANGED records
  BY <1>2 DEF Receive, DatabaseFails
<1>3. ASSUME NEW old \in records, Expire(old)
      PROVE  \E rec \in records : rec.run = new.run
  BY <1>3 DEF Expire, TypeOK, Records
<1>4. Crash \/ UNCHANGED vars => UNCHANGED records
  BY DEF Crash, vars
<1>5. QED BY <1>1, <1>2, <1>3, <1>4 DEF Next, Quiet

LEMMA RecordsAreSavedAlways == Spec => []RecordsAreSaved
<1>1. Init => RecordsAreSaved
  BY DEF Init, RecordsAreSaved
<1>2. ASSUME TypeOK, RecordsAreSaved, [Next]_vars
      PROVE  RecordsAreSaved'
  <2>1. ASSUME NEW rec \in records PROVE pc'[rec.run] \in {"answer", "done"}
    BY <1>2, <2>1, AnswerIsTheEnd DEF RecordsAreSaved, TypeOK, Records
  <2>2. ASSUME NEW r \in Requests, CommitRecord(r) PROVE RecordsAreSaved'
    <3>1. records' = records \cup {RecordOf(r)} /\ pc'[r] = "answer"
      BY <1>2, <2>2 DEF CommitRecord, Goto, TypeOK
    <3>2. RecordOf(r).run = r
      BY DEF RecordOf
    <3>3. QED BY <2>1, <3>1, <3>2 DEF RecordsAreSaved
  <2>3. CASE \A r \in Requests : ~CommitRecord(r)
    BY <1>2, <2>1, <2>3, NoOtherRuns DEF RecordsAreSaved
  <2>4. QED BY <2>2, <2>3
<1>3. QED BY <1>1, <1>2, TypeCorrect, PTL DEF Spec

(* Without a fault a handler breaks down before its run's commit, or when  *)
(* it saves its record and the key is taken.                               *)
LEMMA WhoBreaks ==
    ASSUME TypeOK, [Next]_vars, NEW r \in Requests, faults' = 0,
           response'[r].code = "internal_server_error"
    PROVE  \/ response'[r] = response[r] /\ pc'[r] = pc[r]
           \/ /\ runs'[r] = runs[r]
              /\ pc[r] \in BeforeCommit \/ (pc[r] = "save_record" /\ KeyTaken(r))
           \/ response'[r] = response[r] /\ pc[r] # "done"
<1> USE DEF TypeOK, Goto
<1>1. ASSUME NEW q \in Requests, HandlerStep(q), q # r
      PROVE  response'[r] = response[r] /\ pc'[r] = pc[r]
  BY <1>1 DEF HandlerStep, HashFails, LookupMisses, KeyReused, Replay,
              CheckActiveRun, InsertRun, FetchServiceTitan, FetchQuickBooks, Fetch,
              PersistAndMatch, PersistFails, CommitRun, SaveRecord, SaveConflicts,
              CommitRecord, Answer, Raise, Answered
<1>2. ASSUME HandlerStep(r), response'[r] # response[r]
      PROVE  /\ runs'[r] = runs[r]
             /\ pc[r] \in BeforeCommit \/ (pc[r] = "save_record" /\ KeyTaken(r))
  <2>1. ~Answer(r)
    BY <1>2 DEF Answer, Answered
  <2>2. QED
    BY <1>2, <2>1 DEF HandlerStep, HashFails, LookupMisses, KeyReused, Replay,
              CheckActiveRun, InsertRun, FetchServiceTitan, FetchQuickBooks, Fetch,
              PersistAndMatch, PersistFails, CommitRun, SaveRecord, SaveConflicts,
              CommitRecord, Raise, BeforeCommit
<1>3. ASSUME HandlerStep(r), pc[r] = "done" PROVE FALSE
  BY <1>3 DEF HandlerStep, HashFails, LookupMisses, KeyReused, Replay,
              CheckActiveRun, InsertRun, FetchServiceTitan, FetchQuickBooks,
              PersistAndMatch, PersistFails, CommitRun, SaveRecord, SaveConflicts,
              CommitRecord, Answer
<1>4. ASSUME NEW q \in Requests, Receive(q)
      PROVE  response'[r] = response[r] /\ (pc'[r] = pc[r] \/ pc[r] # "done")
  BY <1>4 DEF Receive
<1>5. ASSUME NEW q \in Requests, DatabaseFails(q) PROVE FALSE
  BY <1>5, ConstantsAssumption DEF DatabaseFails
<1>6. ASSUME NEW rec \in records, Expire(rec)
      PROVE  response'[r] = response[r] /\ pc'[r] = pc[r]
  BY <1>6 DEF Expire
<1>7. ASSUME Crash PROVE FALSE
  BY <1>7, ConstantsAssumption DEF Crash
<1>8. UNCHANGED vars => response'[r] = response[r] /\ pc'[r] = pc[r]
  BY DEF vars
<1>9. QED BY <1>1, <1>2, <1>3, <1>4, <1>5, <1>6, <1>7, <1>8 DEF Next, Quiet

(* Until something fails, a call that is answered 500 after its commit has *)
(* lost its key to another call: the unique index refused its record.      *)
THEOREM ErrorsExplained == Spec => []ErrorAfterCommitIsExplained
<1>1. Init => ErrorAfterCommitIsExplained
  BY DEF Init, ErrorAfterCommitIsExplained
<1>2. ASSUME TypeOK, Progress, RecordsAreSaved, ErrorAfterCommitIsExplained, [Next]_vars
      PROVE  ErrorAfterCommitIsExplained'
  <2> SUFFICES ASSUME NEW r \in Requests, faults' = 0, Executed(r)',
                      response'[r].code = "internal_server_error"
               PROVE  \E new \in records' : SameKey(new, request'[r]) /\ new.run # r
    BY DEF ErrorAfterCommitIsExplained
  <2>1. request' = request
    BY <1>2, RecordsOnlyGrow
  <2>2. \E rec \in records : SameKey(rec, request[r]) /\ rec.run # r
    <3>1. CASE pc[r] = "done"
      <4>1. faults = 0 /\ Executed(r)
        BY <1>2, <3>1, DoneIsFinal DEF Executed
      <4>2. response'[r] = response[r]
        BY <1>2, <3>1, WhoBreaks DEF BeforeCommit
      <4>3. QED BY <1>2, <4>1, <4>2 DEF ErrorAfterCommitIsExplained
    <3>2. CASE pc[r] # "done"
      <4>1. response[r].code # "internal_server_error"
        BY <1>2, <3>2 DEF Progress, ProgressOf
      <4>2. /\ runs'[r] = runs[r]
            /\ pc[r] \in BeforeCommit \/ (pc[r] = "save_record" /\ KeyTaken(r))
        BY <1>2, <4>1, WhoBreaks
      <4>3. pc[r] = "save_record" /\ KeyTaken(r)
        BY <1>2, <4>2 DEF Progress, ProgressOf, Executed, Terminal
      <4>4. \A rec \in records : rec.run # r
        BY <1>2, <4>3 DEF RecordsAreSaved
      <4>5. QED BY <4>3, <4>4 DEF KeyTaken
    <3>3. QED BY <3>1, <3>2
  <2>3. QED BY <1>2, <2>1, <2>2, RecordsOnlyGrow DEF SameKey
<1>3. QED BY <1>1, <1>2, TypeCorrect, ProgressAlways, RecordsAreSavedAlways, PTL DEF Spec

-----------------------------------------------------------------------------
(* Calls that come one after the other.                                    *)

(* What holds while at most one call is handled at a time, nothing fails   *)
(* and no record expires: the handler that missed a key in its lookup      *)
(* still finds it free when it saves, so that each run under a key gets    *)
(* the key's record.                                                       *)
BeforeSave == {"active", "insert", "servicetitan", "quickbooks", "match", "commit_run",
               "save_record", "commit_record"}
OneAtATime == IsFiniteSet(InFlight) /\ \A q, r \in InFlight : q = r
RecordsFresh == \A rec \in records : rec.fresh
KeyIsFree ==
    \A r \in Requests : pc[r] \in BeforeSave /\ Keyed(r) => ~KeyTaken(r)
EndedRunHasItsKey ==
    \A r \in Requests :
        pc[r] \in {"answer", "done"} /\ Executed(r) /\ Keyed(r) =>
            \E rec \in records : SameKey(rec, request[r]) /\ rec.run = r
InTurn == OneAtATime /\ RecordsFresh /\ KeyIsFree /\ EndedRunHasItsKey

(* The steps that are left, what they do with the records, and which way   *)
(* a handler goes.                                                         *)
LEMMA TurnSteps ==
    ASSUME TypeOK, [Next]_vars, MaxFaults = 0, RecordsExpire = FALSE
    PROVE  \/ \E r \in Requests : Receive(r) \/ HandlerStep(r)
           \/ UNCHANGED vars
<1>1. ASSUME NEW r \in Requests, DatabaseFails(r) PROVE FALSE
  BY <1>1 DEF DatabaseFails, TypeOK
<1>2. ASSUME Crash PROVE FALSE
  BY <1>2 DEF Crash, TypeOK
<1>3. ASSUME NEW rec \in records, Expire(rec) PROVE FALSE
  BY <1>3 DEF Expire
<1>4. QED BY <1>1, <1>2, <1>3 DEF Next, Quiet

LEMMA HandlerWays ==
    ASSUME TypeOK, NEW r \in Requests, HandlerStep(r)
    PROVE  /\ pc[r] \in Working /\ pc'[r] \in Working \cup {"done"}
           /\ request' = request
           /\ \A q \in Requests \ {r} : pc'[q] = pc[q] /\ runs'[q] = runs[q]
           /\ records' = records \/ CommitRecord(r)
           /\ pc'[r] \in BeforeSave =>
                 pc[r] \in BeforeSave \/ LookupMisses(r)
           /\ pc[r] \in BeforeSave /\ pc'[r] \in {"answer", "done"} =>
                 \/ runs'[r] = runs[r] /\ pc[r] \in BeforeCommit
                 \/ CommitRun(r) /\ ~Keyed(r)
                 \/ CommitRecord(r) \/ SaveConflicts(r)
           /\ pc[r] \notin BeforeSave => runs'[r] = runs[r]
<1> USE DEF TypeOK, Goto
<1>1. /\ pc[r] \in Working /\ pc'[r] \in Working \cup {"done"}
      /\ request' = request
      /\ \A q \in Requests \ {r} : pc'[q] = pc[q] /\ runs'[q] = runs[q]
  BY DEF HandlerStep, HashFails, LookupMisses, KeyReused, Replay,
              CheckActiveRun, InsertRun, FetchServiceTitan, FetchQuickBooks, Fetch,
              PersistAndMatch, PersistFails, CommitRun, SaveRecord, SaveConflicts,
              CommitRecord, Answer, Raise, Answered, Working
<1>2. records' = records \/ CommitRecord(r)
  BY DEF HandlerStep, HashFails, LookupMisses, KeyReused, Replay,
              CheckActiveRun, InsertRun, FetchServiceTitan, FetchQuickBooks, Fetch,
              PersistAndMatch, PersistFails, CommitRun, SaveRecord, SaveConflicts,
              Answer, Raise
<1>3. pc'[r] \in BeforeSave => pc[r] \in BeforeSave \/ LookupMisses(r)
  BY DEF HandlerStep, HashFails, KeyReused, Replay,
              CheckActiveRun, InsertRun, FetchServiceTitan, FetchQuickBooks, Fetch,
              PersistAndMatch, PersistFails, CommitRun, SaveRecord, SaveConflicts,
              CommitRecord, Answer, Raise, Answered, BeforeSave
<1>4. pc[r] \in BeforeSave /\ pc'[r] \in {"answer", "done"} =>
                 \/ runs'[r] = runs[r] /\ pc[r] \in BeforeCommit
                 \/ CommitRun(r) /\ ~Keyed(r)
                 \/ CommitRecord(r) \/ SaveConflicts(r)
  <2>1. CASE CommitRun(r)
    BY <2>1 DEF CommitRun, Keyed
  <2>2. CASE ~CommitRun(r)
    BY <2>2 DEF HandlerStep, HashFails, LookupMisses, KeyReused, Replay,
              CheckActiveRun, InsertRun, FetchServiceTitan, FetchQuickBooks, Fetch,
              PersistAndMatch, PersistFails, SaveRecord,
              Answer, Raise, Answered, BeforeCommit, BeforeSave
  <2>3. QED BY <2>1, <2>2
<1>5. pc[r] \notin BeforeSave => runs'[r] = runs[r]
  BY DEF HandlerStep, HashFails, LookupMisses, KeyReused, Replay,
              CheckActiveRun, InsertRun, FetchServiceTitan, FetchQuickBooks, Fetch,
              PersistAndMatch, PersistFails, CommitRun, SaveRecord, SaveConflicts,
              CommitRecord, Answer, Raise, BeforeSave
<1>6. QED BY <1>1, <1>2, <1>3, <1>4, <1>5

LEMMA HandlerInTurn ==
    ASSUME TypeOK, Progress, InTurn, NEW r \in Requests, HandlerStep(r)
    PROVE  InTurn'
<1>1. /\ pc[r] \in Working /\ pc'[r] \in Working \cup {"done"}
      /\ request' = request
      /\ \A q \in Requests \ {r} : pc'[q] = pc[q] /\ runs'[q] = runs[q]
  BY HandlerWays
<1>2. InFlight' \in SUBSET InFlight
  BY <1>1 DEF InFlight, Working
<1>3. OneAtATime'
  BY <1>2, FS_Subset DEF InTurn, OneAtATime
<1>4. \A q \in Requests \ {r} : pc[q] \notin Working
  BY <1>1 DEF InTurn, OneAtATime, InFlight
<1>5. records' = records \/ (CommitRecord(r) /\ records' = records \cup {RecordOf(r)})
  BY HandlerWays DEF CommitRecord
<1>6. RecordsFresh'
  <2>1. RecordOf(r).fresh
    BY DEF RecordOf
  <2>2. QED BY <1>5, <2>1 DEF InTurn, RecordsFresh
<1>7. KeyIsFree'
  <2> SUFFICES ASSUME NEW q \in Requests, pc'[q] \in BeforeSave, Keyed(q)'
               PROVE  ~KeyTaken(q)'
    BY DEF KeyIsFree
  <2>1. q = r
    BY <1>1, <1>4 DEF BeforeSave, Working
  <2>2. ~CommitRecord(r)
    BY <2>1 DEF CommitRecord, Goto, TypeOK, BeforeSave
  <2>3. ~KeyTaken(r)
    <3>1. CASE pc[r] \in BeforeSave
      BY <1>1, <2>1, <3>1 DEF InTurn, KeyIsFree, Keyed
    <3>2. CASE LookupMisses(r)
      BY <3>2 DEF LookupMisses, Lookup, KeyTaken, InTurn, RecordsFresh
    <3>3. QED BY <2>1, <3>1, <3>2, HandlerWays
  <2>4. QED BY <1>1, <1>5, <2>1, <2>2, <2>3 DEF KeyTaken, SameKey
<1>8. EndedRunHasItsKey'
  <2> SUFFICES ASSUME NEW q \in Requests, pc'[q] \in {"answer", "done"},
                      Executed(q)', Keyed(q)'
               PROVE  \E rec \in records' : SameKey(rec, request'[q]) /\ rec.run = q
    BY DEF EndedRunHasItsKey
  <2>1. Keyed(q)
    BY <1>1 DEF Keyed
  <2>2. CASE Executed(q) /\ pc[q] \in {"answer", "done"}
    BY <1>1, <1>5, <2>1, <2>2 DEF InTurn, EndedRunHasItsKey
  <2>3. CASE ~(Executed(q) /\ pc[q] \in {"answer", "done"})
    <3>1. q = r
      BY <1>1, <2>3 DEF Executed
    <3>2. pc[r] \in BeforeSave
      <4>1. ASSUME pc[r] \notin BeforeSave PROVE FALSE
        <5>1. Executed(r)
          BY <3>1, <4>1, HandlerWays DEF Executed
        <5>2. pc[r] = "lookup"
          BY <1>1, <2>3, <3>1, <4>1, <5>1 DEF BeforeSave, Working
        <5>3. QED BY <5>1, <5>2 DEF Progress, ProgressOf, Executed, BeforeCommit, Terminal
      <4>2. QED BY <4>1
    <3>3. ~KeyTaken(r)
      BY <2>1, <3>1, <3>2 DEF InTurn, KeyIsFree
    <3>4. ~(runs'[r] = runs[r] /\ pc[r] \in BeforeCommit)
      BY <3>1 DEF Progress, ProgressOf, Executed, Terminal
    <3>5. CommitRecord(r)
      BY <2>1, <3>1, <3>2, <3>3, <3>4, HandlerWays DEF SaveConflicts
    <3>6. records' = records \cup {RecordOf(r)}
      BY <3>5 DEF CommitRecord
    <3>7. SameKey(RecordOf(r), request[r]) /\ RecordOf(r).run = r
      BY DEF RecordOf, SameKey
    <3>8. QED BY <1>1, <3>1, <3>6, <3>7
  <2>4. QED BY <2>2, <2>3
<1>9. QED BY <1>3, <1>6, <1>7, <1>8 DEF InTurn

LEMMA ReceiveInTurn ==
    ASSUME TypeOK, Progress, InTurn, NEW r \in Requests, Receive(r), MaxInFlight <= 1
    PROVE  InTurn'
<1>1. /\ pc' = [pc EXCEPT ![r] = IF Keyed(r) THEN "lookup" ELSE "active"]
      /\ pc[r] = "idle"
      /\ UNCHANGED <<request, runs, records>>
  BY DEF Receive, Goto
<1>2. InFlight = {}
  <2>1. Cardinality(InFlight) \in Nat
    BY FS_CardinalityType DEF InTurn, OneAtATime
  <2>2. Cardinality(InFlight) = 0
    BY <2>1, ConstantsAssumption DEF Receive
  <2>3. QED BY <2>2, FS_EmptySet DEF InTurn, OneAtATime
<1>3. InFlight' = {r}
  BY <1>1, <1>2 DEF InFlight, TypeOK, Working
<1>4. OneAtATime'
  BY <1>3, FS_Singleton DEF OneAtATime
<1>5. RecordsFresh'
  BY <1>1 DEF InTurn, RecordsFresh
<1>6. KeyIsFree'
  BY <1>1 DEF InTurn, KeyIsFree, Keyed, KeyTaken, TypeOK, BeforeSave
<1>7. EndedRunHasItsKey'
  BY <1>1 DEF InTurn, EndedRunHasItsKey, Keyed, Executed, TypeOK
<1>8. QED BY <1>4, <1>5, <1>6, <1>7 DEF InTurn

(* When calls come one after the other, nothing fails but the sources and  *)
(* no record expires, a key of a tenant is executed at most once, for any  *)
(* calls, keys and bodies.  The three conditions are the least: the runs   *)
(* EndpointDoubleExecution and EndpointExpiredKey show what happens        *)
(* without the first and the last.                                         *)
THEOREM OneRunPerKeyInTurn ==
    ASSUME MaxInFlight <= 1, MaxFaults = 0, RecordsExpire = FALSE
    PROVE  Spec => []OneRunPerKey
<1>1. Init => InTurn
  <2>1. Init => InFlight = {}
    BY DEF Init, InFlight, Working
  <2>2. Init => OneAtATime
    BY <2>1, FS_EmptySet DEF OneAtATime
  <2>3. QED BY <2>2 DEF Init, InTurn, RecordsFresh, KeyIsFree, EndedRunHasItsKey, BeforeSave
<1>2. ASSUME TypeOK, Progress, InTurn, [Next]_vars PROVE InTurn'
  <2>1. CASE UNCHANGED vars
    BY <1>2, <2>1 DEF vars, InTurn, OneAtATime, InFlight, RecordsFresh, KeyIsFree, Keyed,
                      KeyTaken, EndedRunHasItsKey, Executed
  <2>2. QED BY <1>2, <2>1, TurnSteps, HandlerInTurn, ReceiveInTurn
<1>3. TypeOK /\ Progress /\ InTurn /\ Index => OneRunPerKey
  <2> SUFFICES ASSUME TypeOK, Progress, InTurn, Index,
                      NEW q \in Requests, NEW r \in Requests,
                      Executed(q), Executed(r), Keyed(q), SameKey(request[q], request[r])
               PROVE  q = r
    BY DEF OneRunPerKey
  <2>1. Keyed(r)
    BY DEF Keyed, SameKey
  <2>2. /\ pc[q] \in {"save_record", "commit_record", "answer", "done"}
        /\ pc[r] \in {"save_record", "commit_record", "answer", "done"}
    BY DEF TypeOK, Progress, ProgressOf, Executed, Terminal, Steps, Working, BeforeCommit
  <2>3. CASE pc[q] \in {"answer", "done"} /\ pc[r] \in {"answer", "done"}
    <3>1. PICK a \in records, b \in records :
              /\ SameKey(a, request[q]) /\ a.run = q
              /\ SameKey(b, request[r]) /\ b.run = r
      BY <2>1, <2>3 DEF InTurn, EndedRunHasItsKey
    <3>2. a = b
      BY <3>1 DEF Index, OneRecordPerKey, SameKey
    <3>3. QED BY <3>1, <3>2
  <2>4. ASSUME NEW x \in Requests, NEW y \in Requests, x # y, Keyed(x), Keyed(y),
               Executed(x), Executed(y), SameKey(request[x], request[y]),
               pc[x] \in {"save_record", "commit_record"},
               pc[y] \in {"save_record", "commit_record", "answer", "done"}
        PROVE  FALSE
    <3>1. x \in InFlight
      BY <2>4 DEF InFlight, Working
    <3>2. pc[y] \in {"answer", "done"}
      BY <2>4, <3>1 DEF InTurn, OneAtATime, InFlight, Working
    <3>3. KeyTaken(x)
      BY <2>4, <3>2 DEF InTurn, EndedRunHasItsKey, KeyTaken, SameKey
    <3>4. QED BY <2>4, <3>3 DEF InTurn, KeyIsFree, BeforeSave
  <2>5. SameKey(request[r], request[q])
    BY DEF SameKey
  <2>6. QED BY <2>1, <2>2, <2>3, <2>4, <2>5
<1>4. QED BY <1>1, <1>2, <1>3, TypeCorrect, ProgressAlways, IndexAlways, PTL DEF Spec
=============================================================================
