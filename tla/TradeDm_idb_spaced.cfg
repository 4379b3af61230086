\* IndexedDB with the DMs of two orders far enough apart not to overlap.
SPECIFICATION Spec
CONSTANTS
    o1 = o1
    o2 = o2
    NoRow = NoRow
    Orders <- MCTwoOrders
    OrderKind <- MCTwoOrderKinds
    Dms <- MCTwoOrderDms
    Openings <- AllOpenings
    Backend = "idb"
    Overlapping = FALSE
    MaxRestarts = 1
PROPERTIES ImplementsLifecycle
CHECK_DEADLOCK FALSE
