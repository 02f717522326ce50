SPECIFICATION Spec
CONSTANTS
    t1 = t1
    t2 = t2
    a = a
    b = b
    h1 = h1
    h2 = h2
    p1 = p1
    p2 = p2
    Tunnels = {t1, t2}
    Expiring = {}
    Payloads = {a}
    Admins = {h1}
    Publishers = {p1, p2}
    Faults = {"timeout", "agentCrash", "noStart"}
    MaxOps = 0
    MaxFaults = 1
    MaxEvents = 3
SYMMETRY Symmetry
INVARIANTS
    TypeOK
    DeployInv
    PublishOk
PROPERTIES
    NoRollback
