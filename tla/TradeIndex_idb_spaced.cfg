\* IndexedDB, no user row at first, one call in the store at a time.
SPECIFICATION Spec
CONSTANTS
    c1 = c1
    c2 = c2
    c3 = c3
    NoUser = NoUser
    Calls <- MCCalls
    Backend = "idb"
    Overlapping = FALSE
    InitialUser = NoUser
    DaemonUsed <- MCDaemonUsed
    RelayAnswers <- MCNoAnswers
    MaxCrashes = 1
INVARIANTS NoIndexReused
CHECK_DEADLOCK FALSE
