\* Walks, live events, restarts and own publications over one relay.
SPECIFICATION FairSpec
CONSTANTS
    R = R
    a = a
    b = b
    r1 = r1
    r2 = r2
    NoHint = NoHint
    NoRev = NoRev
    NoKey = NoKey
    Root = R
    Keys <- MCKeys
    Seeds <- MCSeeds
    Relays = {r1}
    Bootstrap = {r1}
    Planned <- MCPlanned
    OwnWeights = {0, 60}
    RequireHint = TRUE
    HardReciprocal = TRUE
    MinEdgeWeight = 20
    MaxOutDegree = 2
    MaxHop = 2
    MaxNodes = 2
    MaxAt = 2
    MaxRestarts = 1
INVARIANTS TypeOK 
PROPERTIES GraphFollowsCache CacheFollowsRelays
