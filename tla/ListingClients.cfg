\* Three runs, pages of at most two rows, two loads at a time.
CONSTANTS
    r1 = r1
    r2 = r2
    r3 = r3
    Runs = {r1, r2, r3}
    RowsOf <- MCRowsOf
    AllRuns = AllRuns
    AnySeverity = AnySeverity
    Callers = {c1, c2}
    MaxLimit = 2
    WalkLimits = {1, 2, 3}
    DashboardLimit = 3
    PageSize = 1
SPECIFICATION Spec
CHECK_DEADLOCK FALSE
INVARIANTS
    TypeOK
    WalkMissesNothing
    RunWalkIsExact
    RepeatsAreShifts
    PageInRange
    ShownIsOfOneLoad
PROPERTIES
    ReloadLosesFew
