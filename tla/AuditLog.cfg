\* Three events of two tenants in two transactions, at three times, walked by
\* pages of one or two.
CONSTANTS
    Sessions = {s1, s2}
    Tenants = {t1, t2}
    Actions = {approve, reject}
    AnyAction = AnyAction
    Times = {1, 2, 3}
    Limits = {1, 2}
    MaxEvents = 3
SYMMETRY Symmetry
SPECIFICATION Spec
INVARIANTS
    TypeOK
    AuditWalkMissesNothing
PROPERTY
    AuditIsAppendOnly
