SPECIFICATION Spec
CONSTANTS
    o1 = o1
    o2 = o2
    x = x
    y = y
    z = z
    r1 = r1
    r2 = r2
    Orders <- MCOrders
    Contents <- MCContents
    Hashed <- MCHashed
    Readers = {r1, r2}
    Slow = {r1}
    Frozen = {r2}
    Stagings <- MCStagings
    MaxFaults = 1
INVARIANTS
    TypeOK
    WholeSnapshots
PROPERTIES
    
    DriftHeals
    NobodyWaitsForEver
    LogPruned
