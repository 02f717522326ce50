SPECIFICATION Spec
CONSTANTS
    Rank <- DashedRank
    Sanitized <- DashedSanitized
    MaxTunnels = 3
INVARIANTS
    ServesWinners
PROPERTIES
    Stable
