\* An attestation that is revoked without a relay hint.
SPECIFICATION FairSpec
CONSTANTS
    R = R
    a = a
    b = b
    r1 = r1
    r2 = r2
    NoHint = NoHint
    NoRev = NoRev
    NoKey = NoKey
    Root = R
    Keys <- MCKeys
    Seeds <- MCSeeds
    Relays = {r1}
    Bootstrap = {r1}
    Planned <- MCRevoked
    OwnWeights = {60}
    RequireHint = TRUE
    HardReciprocal = FALSE
    MinEdgeWeight = 0
    MaxOutDegree = 2
    MaxHop = 2
    MaxNodes = 2
    MaxAt = 2
    MaxRestarts = 0
PROPERTIES RevocationReachesGraph
