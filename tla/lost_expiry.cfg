SPECIFICATION FairSpec
CONSTANTS
    t1 = t1
    t2 = t2
    a = a
    b = b
    h1 = h1
    h2 = h2
    p1 = p1
    p2 = p2
    Tunnels = {t1}
    Expiring = {t1}
    Payloads = {a}
    Admins = {h1}
    Publishers = {}
    Faults = {"lostBump", "serverCrash"}
    MaxOps = 1
    MaxFaults = 1
    MaxEvents = 3
PROPERTIES
    ExpiredRetired
