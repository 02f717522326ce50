SPECIFICATION Spec
CONSTANTS
    g1 = g1
    g2 = g2
    i1 = i1
    i2 = i2
    i3 = i3
    a = a
    b = b
    c = c
    d = d
    h1 = h1
    h2 = h2
    Gateways = {g1, g2}
    Ids = {i1, i2, i3}
    Names = {a, b, d}
    Slugs = {a, b}
    Handlers = {h1, h2}
    Rank <- DashFirst
    Sanitized <- DashRemoved
    PortMin = 1
    PortMax = 2
    Tries = 2
    Failures = TRUE
    MaxOps = 3
SYMMETRY Symmetry
INVARIANTS
    SerialInv
    SerialUnique
    SerialBlocks
PROPERTIES
    ExhaustedOnly
CHECK_DEADLOCK FALSE
