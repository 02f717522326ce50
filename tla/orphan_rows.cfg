SPECIFICATION Spec
CONSTANTS
    i1 = i1
    i2 = i2
    m = m
    n = n
    x = x
    y = y
    r1 = r1
    r2 = r2
    Ids = {i1}
    Names = {m}
    Addrs = {x}
    Start <- UpDown
    Reports = {r1}
    Faults = {}
    MaxChanges = 2
    MaxFaults = 0
INVARIANTS
    NoOrphans
