SPECIFICATION PromptSpec
CONSTANTS
    Regions = {1, 2, 3}
    Priority <- MCThree
    Plex = 3
    Minute = 3
    MaxAttempts = 2
    MaxRequests = 1
    RetryDelay = 2
    CanaryInterval = 1
    NextDues = {1}
    Backoffs = {0}
    BudgetFloor = 10
    LimitFloor = 20
    Remainings = {10}
    Limits = {50}
    Resets = {3}
    Answers = {"ok"}
    Broken = {1}
CHECK_DEADLOCK FALSE
PROPERTY Recovery
