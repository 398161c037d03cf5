\* Two calls of one tenant, refused credentials and one failing statement.
CONSTANTS
    Requests = {r1, r2}
    Tenants = {t1}
    Keys = {k1}
    NoKey = NoKey
    Bodies = {b1}
    DatedBodies = {}
    NoRun = NoRun
    FetchOutcomes = {"ok", "auth"}
    MaxInFlight = 2
    MaxFaults = 1
    RecordsExpire = FALSE
    Nobody = Nobody
SPECIFICATION PipelineSpec
INVARIANT
    CallsCanBeTraced
