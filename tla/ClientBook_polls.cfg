\* Two calls of start() and one of stop(), two relays that differ.
SPECIFICATION FairSpec
CONSTANTS
    o1 = o1
    r1 = r1
    r2 = r2
    s1 = s1
    s2 = s2
    NoPoller = NoPoller
    Orders <- MCOrders
    Currencies <- MCCurrencies
    Mostro = "mostro"
    Revisions <- MCRevisions
    Noise <- MCNoise
    Relays <- MCRelays
    Starts <- MCStarts
    MaxStops = 1
INVARIANTS TypeOK OnePoller
PROPERTIES  TakenOrderLeavesBook
CHECK_DEADLOCK FALSE
