SPECIFICATION FairSpec
CONSTANTS
    MaxVersion = 4
    PagesOf <- MCPagesOf
    LastModified <- MCLastModified
    MaxPages = 3
    ChanCap = 1
    Minute = 1
    PageAttempts = 2
    Concurrency = 2
    Reserve = 2
    BudgetFloor = 1
    LimitFloor = 20
    Refills = {5, 8}
    Limits = {10, 50}
    Answers = {"ok", "unavailable", "limited", "late"}
INVARIANT TypeOK
INVARIANT ReserveKept
INVARIANT EveryResponseCounted
PROPERTY RetryRespectsGates
PROPERTY StreamRefined
