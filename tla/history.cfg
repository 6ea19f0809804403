SPECIFICATION Spec
CONSTANTS
    a = a
    u = u
    Keys <- MCKeys
    Regions <- MCRegions
    MaxStamp = 2
    FirstDay = 1
    LastDay = 3
    Today0 = 2
    BackfillDays = 2
    RecentDays = 1
    YearLength = 3
    MaxRecords <- MCMaxRecords
    BadDays = {1}
    MaxFaults = 1
INVARIANTS
    TypeOK
    NothingSkipped
PROPERTIES
    ImportsWholeFiles
    RecentDaysCaughtUp
    BackfillImported
CHECK_DEADLOCK FALSE
