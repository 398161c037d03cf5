\* All runs over up to two ServiceTitan invoices on the page and one past it, and
\* up to three QuickBooks invoices, with either source failing.
CONSTANTS
    Ids <- MCIds
    NoId = NoId
    Customers = {acme, bolt}
    Amounts <- MCAmounts
    Tolerance = 1
    WarningBelow = 3
    StLists <- MCStLists
    QbLists <- MCQbLists
    MaxSt = 2
    MaxQb = 3
    PageLimit = 2
SPECIFICATION FetchedSpec
PROPERTY
    ImplementsPromise
INVARIANTS
    TypeOK
    NoMissedMatch
    MismatchesDiffer
    MissingOnOneSideOnly
    EveryInvoiceAccountedOnce
    FiguresFollowTheRows
    MatchesEnough
    SucceededRunTellsTheTruth
