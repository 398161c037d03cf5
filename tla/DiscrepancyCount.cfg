\* A mismatch is one discrepancy and counts as two.
CONSTANTS
    Ids <- MCIds
    NoId = NoId
    Customers = {acme}
    Amounts <- MCAmounts
    Tolerance = 1
    WarningBelow = 3
    StLists <- MCStLists
    QbLists <- MCQbLists
    MaxSt = 1
    MaxQb = 1
    PageLimit = 1
SPECIFICATION FetchedSpec
INVARIANT
    DiscrepancyCountIsRows
