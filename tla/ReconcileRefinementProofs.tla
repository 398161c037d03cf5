---------------------- MODULE ReconcileRefinementProofs ----------------------
(***************************************************************************)
(* ReconcileEndpoint implements ReconcileLedger: a run becomes executed in *)
(* the ledger when its transaction commits, a key becomes bound when its   *)
(* record's transaction commits, and every other step of a handler that    *)
(* answers nobody is a stuttering step of the ledger.                      *)
(***************************************************************************)
EXTENDS ReconcileEndpointProofs

executedBar == {r \in Requests : Executed(r)}
boundBar == {[tenant |-> rec.tenant, key |-> rec.key, run |-> rec.run] :
                rec \in records}

(* The invariants of the endpoint that the step simulation needs.          *)
Reachable ==
    /\ TypeOK
    /\ Progress
    /\ Index
    /\ RecordsNameTheirRun
    /\ AnsweringIsRecorded

LEMMA ReachableAlways == Spec => []Reachable
BY TypeCorrect, ProgressAlways, IndexAlways, RecordsSound, AnsweringAlways, PTL
   DEF Reachable

LedgerStep == [Ledger!LedgerNext]_(Ledger!ledgerVars)

(* A step that changes none of the ledger's variables is a stutter.        *)
LEMMA StutterStep ==
    ASSUME UNCHANGED <<request, runs, records, response>>
    PROVE  LedgerStep
BY DEF LedgerStep, Ledger!ledgerVars, Executed

(* An exception refuses a call that has no run, or is a breakdown.         *)
LEMMA RaiseRefines ==
    ASSUME Reachable, NEW r \in Requests, pc[r] # "done",
           NEW code \in Refusals \cup Breakdowns,
           pc[r] \in BeforeCommit \/ code \in Breakdowns,
           Answered(r, code, NoRun), UNCHANGED <<request, runs, records>>
    PROVE  LedgerStep
<1>1. response[r] = Ledger!None /\ response \in [Requests -> Answers]
  BY DEF Reachable, TypeOK, Progress, ProgressOf, Ledger!None
<1>2. CASE code \in Refusals
  <2>1. ~Executed(r)
    BY <1>2 DEF Reachable, Progress, ProgressOf, Executed, Terminal, Refusals, Breakdowns
  <2>2. Ledger!Refuse(r, code)
    BY <1>1, <2>1 DEF Ledger!Refuse, Ledger!Unanswered, Ledger!Tell, Answered, Executed
  <2>3. QED BY <1>2, <2>2 DEF LedgerStep, Ledger!LedgerNext, Refusals
<1>3. CASE code \in Breakdowns
  <2>1. Ledger!BreakDown({r}, code)
    BY <1>1 DEF Ledger!BreakDown, Ledger!Unanswered, Answered, Executed
  <2>2. QED BY <1>3, <2>1 DEF LedgerStep, Ledger!LedgerNext, Breakdowns
<1>4. QED BY <1>2, <1>3

(* The run's commit is the ledger's Execute.                               *)
LEMMA CommitRunRefines ==
    ASSUME Reachable, NEW r \in Requests, CommitRun(r)
    PROVE  LedgerStep
<1>1. /\ response[r] = Ledger!None /\ ~Executed(r)
      /\ Executed(r)' /\ \A q \in Requests \ {r} : Executed(q)' <=> Executed(q)
  BY DEF Reachable, TypeOK, Progress, ProgressOf, BeforeCommit, CommitRun, Executed,
         Terminal, Ledger!None
<1>2. executedBar' = executedBar \cup {r}
  BY <1>1 DEF executedBar
<1>3. Ledger!Execute(r)
  BY <1>1, <1>2 DEF CommitRun, Ledger!Execute, Ledger!Unanswered, executedBar
<1>4. QED BY <1>3 DEF LedgerStep, Ledger!LedgerNext

(* The record's commit is the ledger's Bind.                               *)
LEMMA CommitRecordRefines ==
    ASSUME Reachable, NEW r \in Requests, CommitRecord(r), Keyed(r)
    PROVE  LedgerStep
<1>1. response[r] = Ledger!None /\ Executed(r)
  BY DEF Reachable, Progress, ProgressOf, AfterCommit, CommitRecord, Ledger!None
<1>2. boundBar' = boundBar \cup {Ledger!Binding(r, r)}
  <2> DEFINE BindingOf(rec) ==
               [tenant |-> rec.tenant, key |-> rec.key, run |-> rec.run]
             new == RecordOf(r)
  <2>1. BindingOf(new) = Ledger!Binding(r, r)
    BY DEF RecordOf, Ledger!Binding
  <2>2. records' = records \cup {new}
    BY DEF CommitRecord
  <2>3. /\ boundBar = {BindingOf(rec) : rec \in records}
        /\ boundBar' = {BindingOf(rec) : rec \in records'}
    BY DEF boundBar
  <2> HIDE DEF BindingOf, new
  <2>4. QED BY <2>1, <2>2, <2>3
<1>3. Ledger!KeyOf(r) \notin Ledger!BoundKeys
  <2>1. \A rec \in records : ~SameKey(rec, request[r])
    BY DEF Reachable, Index, HolderIsAlone, KeyTaken, CommitRecord
  <2>2. ASSUME NEW b \in boundBar, b.tenant = request[r].tenant, b.key = request[r].key
        PROVE  FALSE
    BY <2>1, <2>2 DEF boundBar, SameKey
  <2>3. \A b \in boundBar : [tenant |-> b.tenant, key |-> b.key] # Ledger!KeyOf(r)
    <3> SUFFICES ASSUME NEW b \in boundBar,
                        [tenant |-> b.tenant, key |-> b.key] = Ledger!KeyOf(r)
                 PROVE  FALSE
      OBVIOUS
    <3>1. b.tenant = request[r].tenant /\ b.key = request[r].key
      BY DEF Ledger!KeyOf
    <3>2. QED BY <2>2, <3>1
  <2>4. QED BY <2>3 DEF Ledger!BoundKeys, boundBar
<1>4. Ledger!Bind(r)
  BY <1>1, <1>2, <1>3
     DEF Ledger!Bind, Ledger!Unanswered, Ledger!IsKeyed, Keyed, boundBar,
         CommitRecord, Executed
<1>5. QED BY <1>4 DEF LedgerStep, Ledger!LedgerNext

(* An accepted answer is the ledger's Accept or Recall.                    *)
LEMMA AnswerRefines ==
    ASSUME Reachable, NEW r \in Requests, Answer(r)
    PROVE  LedgerStep
<1>1. response[r] = Ledger!None /\ Executed(r)
  BY DEF Reachable, Progress, ProgressOf, AfterCommit, Answer, Ledger!None
<1>2. CASE ~Keyed(r)
  <2>1. Ledger!Accept(r)
    BY <1>1, <1>2 DEF Ledger!Accept, Ledger!Unanswered, Ledger!IsKeyed, Ledger!Tell,
                      Keyed, Answer, Answered, Executed
  <2>2. QED BY <2>1 DEF LedgerStep, Ledger!LedgerNext
<1>3. CASE Keyed(r)
  <2>1. PICK rec \in records : SameKey(rec, request[r]) /\ rec.run = r
    BY <1>3 DEF Reachable, AnsweringIsRecorded, RecordedFor, Answer
  <2>2. Ledger!Binding(r, r) \in boundBar
    BY <2>1 DEF boundBar, Ledger!Binding, SameKey
  <2>3. Ledger!Recall(r, r)
    BY <1>1, <1>3, <2>2
       DEF Ledger!Recall, Ledger!Unanswered, Ledger!IsKeyed, Ledger!Tell, boundBar,
           Keyed, Answer, Answered, Executed
  <2>4. QED BY <2>3 DEF LedgerStep, Ledger!LedgerNext
<1>4. QED BY <1>2, <1>3

(* A replay is the ledger's Recall of the run another call executed.       *)
LEMMA ReplayRefines ==
    ASSUME Reachable, NEW r \in Requests, Replay(r)
    PROVE  LedgerStep
<1>1. PICK rec \in Lookup(r) :
         rec.body = request[r].body /\ Answered(r, "accepted", rec.run)
  BY DEF Replay
<1>2. /\ rec \in Records /\ rec \in records
      /\ rec.run \in Requests /\ Executed(rec.run)
      /\ SameKey(rec, request[r])
      /\ request[rec.run].body = request[r].body
  BY <1>1 DEF Reachable, TypeOK, RecordsNameTheirRun, Lookup, Records
<1>3. response[r] = Ledger!None /\ ~Executed(r)
  BY DEF Reachable, Progress, ProgressOf, BeforeCommit, Replay, Executed, Terminal,
         Ledger!None
<1>4. Keyed(r)
  BY <1>2, ConstantsAssumption DEF Keyed, SameKey, Records
<1>5. Ledger!Binding(r, rec.run) \in boundBar
  BY <1>2 DEF boundBar, Ledger!Binding, SameKey
<1>6. Ledger!Recall(r, rec.run)
  BY <1>1, <1>2, <1>3, <1>4, <1>5
     DEF Ledger!Recall, Ledger!Unanswered, Ledger!IsKeyed, Ledger!Tell, boundBar,
         Keyed, Replay, Answered, Executed
<1>7. QED BY <1>2, <1>6 DEF LedgerStep, Ledger!LedgerNext

(* Time passing over a record leaves its binding.                          *)
LEMMA ExpireRefines ==
    ASSUME Reachable, NEW rec \in records, Expire(rec)
    PROVE  LedgerStep
<1> DEFINE aged == [rec EXCEPT !.fresh = FALSE]
<1>1. /\ rec \in records
      /\ records' = (records \ {rec}) \cup {aged}
      /\ aged.tenant = rec.tenant /\ aged.key = rec.key /\ aged.run = rec.run
  BY DEF Reachable, TypeOK, Expire, Records
<1> HIDE DEF aged
<1>2. boundBar' = boundBar
  BY <1>1 DEF boundBar
<1>3. QED BY <1>2 DEF Expire, LedgerStep, Ledger!ledgerVars, boundBar, Executed

(* A crash is a breakdown of every request in flight.                      *)
LEMMA CrashRefines ==
    ASSUME Reachable, Crash
    PROVE  LedgerStep
<1>1. \A r \in InFlight : response[r] = Ledger!None
  BY DEF Reachable, Progress, ProgressOf, InFlight, Working, Ledger!None
<1>2. Ledger!BreakDown(InFlight, "lost")
  BY <1>1 DEF Crash, Ledger!BreakDown, Ledger!Unanswered, InFlight, Executed
<1>3. InFlight \in SUBSET Requests
  BY DEF InFlight
<1>4. QED BY <1>2, <1>3 DEF LedgerStep, Ledger!LedgerNext

(* Every step of the endpoint is a step or a stutter of the ledger.        *)
LEMMA NextRefines ==
    ASSUME Reachable, SavesAreKeyed, [Next]_vars
    PROVE  LedgerStep
<1>1. ASSUME NEW r \in Requests, HashFails(r) \/ KeyReused(r) \/ PersistFails(r)
                                 \/ SaveConflicts(r)
      PROVE  LedgerStep
  BY <1>1, RaiseRefines DEF HashFails, KeyReused, PersistFails, SaveConflicts, Raise,
                            Refusals, Breakdowns, BeforeCommit
<1>2. ASSUME NEW r \in Requests,
             Receive(r) \/ LookupMisses(r) \/ InsertRun(r) \/ PersistAndMatch(r)
                        \/ SaveRecord(r)
      PROVE  LedgerStep
  BY <1>2, StutterStep DEF Receive, LookupMisses, InsertRun, PersistAndMatch, SaveRecord
<1>3. ASSUME NEW r \in Requests, CheckActiveRun(r) PROVE LedgerStep
  BY <1>3, RaiseRefines, StutterStep DEF CheckActiveRun, Raise, Refusals, BeforeCommit
<1>4. ASSUME NEW r \in Requests, FetchServiceTitan(r) \/ FetchQuickBooks(r)
      PROVE  LedgerStep
  <2>1. pc[r] \in BeforeCommit /\ pc[r] # "done"
    BY <1>4 DEF FetchServiceTitan, FetchQuickBooks, BeforeCommit
  <2>2. \/ \E code \in {"unprocessable", "internal_server_error"} : Raise(r, code)
        \/ UNCHANGED <<request, runs, records, response>>
    BY <1>4 DEF FetchServiceTitan, FetchQuickBooks, Fetch
  <2>3. QED BY <2>1, <2>2, RaiseRefines, StutterStep DEF Raise, Refusals, Breakdowns
<1>5. ASSUME NEW r \in Requests, CommitRecord(r) PROVE LedgerStep
  BY <1>5, CommitRecordRefines DEF SavesAreKeyed, CommitRecord
<1>6. ASSUME NEW r \in Requests, DatabaseFails(r) PROVE LedgerStep
  BY <1>6, RaiseRefines DEF DatabaseFails, Working, Breakdowns
<1>7. CASE UNCHANGED vars
  BY <1>7, StutterStep DEF vars
<1>8. QED BY <1>1, <1>2, <1>3, <1>4, <1>5, <1>6, <1>7, CommitRunRefines,
             AnswerRefines, ReplayRefines, ExpireRefines, CrashRefines
          DEF Next, HandlerStep, Quiet

(* The endpoint implements the ledger: a key is bound once, for good, and  *)
(* callers are told only of durable runs, keyed callers of their key's.    *)
THEOREM EndpointImplementsLedger == Spec => ImplementsLedger
<1>1. Init => Ledger!LedgerInit
  BY DEF Init, Ledger!LedgerInit, Ledger!None, Calls, Executed, Terminal
<1>2. Reachable /\ SavesAreKeyed /\ [Next]_vars
        => [Ledger!LedgerNext]_(Ledger!ledgerVars)
  BY NextRefines DEF LedgerStep
<1>3. QED BY <1>1, <1>2, ReachableAlways, TypeCorrect, PTL
          DEF Spec, ImplementsLedger, Ledger!LedgerSpec
==============================================================================
