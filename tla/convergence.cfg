SPECIFICATION HeartbeatSpec
CONSTANTS
    t1 = t1
    t2 = t2
    a = a
    b = b
    h1 = h1
    h2 = h2
    p1 = p1
    p2 = p2
    Tunnels = {t1}
    Expiring = {t1}
    Payloads = {a}
    Admins = {h1}
    Publishers = {}
    Faults = {"agentCrash", "frpcDies", "timeout", "badConfig", "noStart", "saveFails"}
    MaxOps = 2
    MaxFaults = 1
    MaxEvents = 2
INVARIANTS
    BumpContract
PROPERTIES
    ExpiredRetired
    Convergence
