\* SQLite with a user row: calls interleave at every await.
SPECIFICATION Spec
CONSTANTS
    c1 = c1
    c2 = c2
    c3 = c3
    NoUser = NoUser
    Calls <- MCCalls
    Backend = "sql"
    Overlapping = TRUE
    InitialUser = 0
    DaemonUsed <- MCDaemonUsed
    RelayAnswers <- MCNoAnswers
    MaxCrashes = 1
INVARIANTS TypeOK NoIndexReused CounterCoversRows 
PROPERTIES ImplementsTradeKeys
CHECK_DEADLOCK FALSE
