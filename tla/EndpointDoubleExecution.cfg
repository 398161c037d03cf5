\* Two calls with one key, at the same time or one after the other, and one
\* crash or failing statement.
CONSTANTS
    Requests = {r1, r2}
    Tenants = {t1}
    Keys = {k1}
    NoKey = NoKey
    Bodies = {b1}
    DatedBodies = {}
    NoRun = NoRun
    FetchOutcomes = {"ok"}
    MaxInFlight = 2
    MaxFaults = 1
    RecordsExpire = FALSE
SPECIFICATION Spec
INVARIANT
    OneRunPerKey
