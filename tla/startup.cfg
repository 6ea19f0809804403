SPECIFICATION Spec
CONSTANTS
    old = old
    new = new
    Procs <- MCProcs
    Files <- MCFiles
    MaxFile = 2
    MaxObject = 2
    MaxFaults = 3
INVARIANTS
    TypeOK
    CheckStillHolds
    AppliedInOrder
PROPERTIES
    EveryInstanceServes
    DiesWhole
CHECK_DEADLOCK FALSE
