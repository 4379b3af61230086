\* SQLite without an encryptor: a handler runs to completion.
SPECIFICATION FairSpec
CONSTANTS
    o1 = o1
    o2 = o2
    NoRow = NoRow
    Orders <- MCOrders
    OrderKind <- MCOrderKind
    Dms <- MCSellDms
    Openings <- AllOpenings
    Backend = "sql"
    Overlapping = FALSE
    MaxRestarts = 2
INVARIANTS TypeOK HandledDmsNeverOutrank
PROPERTIES ImplementsLifecycle FactsNeverLost TradeCompletes
CHECK_DEADLOCK FALSE
