\* Two calls of one tenant at the same time.
CONSTANTS
    Requests = {r1, r2}
    Tenants = {t1}
    Keys = {k1}
    NoKey = NoKey
    Bodies = {b1}
    DatedBodies = {}
    NoRun = NoRun
    FetchOutcomes = {"ok"}
    MaxInFlight = 2
    MaxFaults = 0
    RecordsExpire = FALSE
SPECIFICATION Spec
INVARIANT
    OneActiveRunPerTenant
