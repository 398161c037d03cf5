\* One call after the other, with a key whose record has expired.
CONSTANTS
    Requests = {r1, r2}
    Tenants = {t1}
    Keys = {k1}
    NoKey = NoKey
    Bodies = {b1}
    DatedBodies = {}
    NoRun = NoRun
    FetchOutcomes = {"ok"}
    MaxInFlight = 1
    MaxFaults = 0
    RecordsExpire = TRUE
SPECIFICATION Spec
INVARIANT
    ExecutedRunIsNotAnError
