\* A QuickBooks request that is tried again.
CONSTANTS
    MaxRetries = 1
SPECIFICATION Spec
INVARIANT
    QuickBooksKeepsTheQuery
