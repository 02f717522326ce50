SPECIFICATION FairSpec
CONSTANTS
    loop = loop
    r1 = r1
    s1 = s1
    s2 = s2
    s3 = s3
    s4 = s4
    Loops = {loop}
    Requests = {r1}
    Slots = {s1, s2, s3, s4}
    Faults <- FaultKinds
    MaxConfigs = 2
    MaxFaults = 3
INVARIANTS
    IInv
    NoStray
    RunsInstalled
    ExitClean
PROPERTIES
    Refinement
    Revived
