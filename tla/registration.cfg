SPECIFICATION FairSpec
CONSTANTS
    a1 = a1
    a2 = a2
    base = base
    x = x
    y = y
    z = z
    k6 = k6
    k7 = k7
    k1 = k1
    k2 = k2
    k3 = k3
    k4 = k4
    k5 = k5
    q1 = q1
    q2 = q2
    q3 = q3
    Agents = {a1, a2}
    Ids = {base, x, y, z}
    Slug <- SameSlug
    Secrets = {k1, k2, k3, k4, k5, k6, k7}
    Requests = {q1, q2, q3}
    Tries = 1
    Faults <- FaultKinds
    MaxFaults = 1
INVARIANTS
    IInv
    AccountInv
    CredentialsWork
    OwnGateway
    FewGateways
PROPERTIES
    Registered
CHECK_DEADLOCK FALSE
