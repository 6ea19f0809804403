SPECIFICATION PromptSpec
CONSTANTS
    Regions = {1, 2}
    Priority <- MCPriority
    Plex = 2
    Minute = 3
    MaxAttempts = 2
    MaxRequests = 2
    RetryDelay = 2
    CanaryInterval = 1
    NextDues = {1, 3}
    Backoffs = {0, 1}
    BudgetFloor = 10
    LimitFloor = 20
    Remainings = {5, 10}
    Limits = {10, 50}
    Resets = {0, 1}
    Answers = {"ok", "down", "limited", "late"}
    Broken = {}
CHECK_DEADLOCK FALSE
PROPERTY BlockedMeansSilent
