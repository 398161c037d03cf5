\* Two calls of one tenant that race for one key, all outcomes, one fault, with
\* the tasks, contexts and exception handlers around them.
CONSTANTS
    Requests = {r1, r2}
    Tenants = {t1}
    Keys = {k1}
    NoKey = NoKey
    Bodies = {b1, b2, dated}
    DatedBodies = {dated}
    NoRun = NoRun
    FetchOutcomes = {"ok", "malformed", "error", "auth", "escape"}
    MaxInFlight = 2
    MaxFaults = 1
    RecordsExpire = TRUE
    Nobody = Nobody
SPECIFICATION PipelineFairSpec
PROPERTIES
    EveryCallIsAnswered
    StatusTellsTheErrors
INVARIANTS
    TypeOK
    CorrelationNeverCrosses
