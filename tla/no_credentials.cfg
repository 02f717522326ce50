SPECIFICATION Spec
CONSTANTS
    a1 = a1
    a2 = a2
    base = base
    x = x
    y = y
    z = z
    k1 = k1
    k2 = k2
    k3 = k3
    k4 = k4
    k5 = k5
    k6 = k6
    k7 = k7
    q1 = q1
    q2 = q2
    q3 = q3
    Agents = {a1}
    Ids = {base, x}
    Slug <- SameSlug
    Secrets = {k1, k2}
    Requests = {q1}
    Tries = 1
    Faults = {"cutOff"}
    MaxFaults = 1
INVARIANTS
    Credentialed
CHECK_DEADLOCK FALSE
