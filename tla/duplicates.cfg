SPECIFICATION Spec
CONSTANTS
    g1 = g1
    g2 = g2
    i1 = i1
    i2 = i2
    i3 = i3
    a = a
    b = b
    c = c
    h1 = h1
    h2 = h2
    Gateways = {g1}
    Ids = {i1, i2, i3}
    Names = {a, b}
    Slugs = {a, b}
    Handlers = {h1, h2}
    PortMin = 1
    PortMax = 2
    Tries = 2
    Failures = FALSE
    MaxOps = 2
SYMMETRY Symmetry
INVARIANTS
    Unique
CHECK_DEADLOCK FALSE
