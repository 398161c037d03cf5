\* Both fetches with three retries each, the default of core/config.py.
CONSTANTS
    MaxRetries = 3
SPECIFICATION FairSpec
INVARIANTS
    TypeOK
    RefusedCredentialsAreNotReused
    TokensAreReused
    ServiceTitanKeepsTheRange
    BackoffIsBounded
PROPERTIES
    FetchesEnd
    StepsOfEndpoint
