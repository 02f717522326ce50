SPECIFICATION FairSpec
CONSTANTS
    i1 = i1
    i2 = i2
    m = m
    n = n
    x = x
    y = y
    r1 = r1
    r2 = r2
    Ids = {i1, i2}
    Names = {m, n}
    Addrs = {x, y}
    Start <- UpDown
    Reports = {r1, r2}
    Faults <- FaultKinds
    MaxChanges = 3
    MaxFaults = 1
INVARIANTS
    IInv
    RowsOwned
    HonestRow
    Announced
PROPERTIES
    Truthful
