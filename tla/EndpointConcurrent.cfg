\* Three calls, two handled at the same time, one fault, records that expire, a
\* body that cannot be hashed and invoices that cannot be stored.
CONSTANTS
    Requests = {r1, r2, r3}
    Tenants = {t1, t2}
    Keys = {k1}
    NoKey = NoKey
    Bodies = {b1, b2, dated}
    DatedBodies = {dated}
    NoRun = NoRun
    FetchOutcomes = {"ok", "malformed", "auth"}
    MaxInFlight = 2
    MaxFaults = 1
    RecordsExpire = TRUE
SPECIFICATION Spec
SYMMETRY Symmetry
INVARIANTS
    CommittedRunsAreTerminal
    AnswerNamesItsRun
    KeyedAnswersAgree
    RecordsNameTheirRun
    RefusalsLeaveNothing
    AcceptedKeyIsRecorded
    ExecutedKeyIsRecorded
    ErrorAfterCommitIsExplained
PROPERTIES
    KeyBindingIsPermanent
    ImplementsLedger
