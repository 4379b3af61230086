\* An order is taken and goes on.
SPECIFICATION Spec
CONSTANTS
    o1 = o1
    c1 = c1
    c2 = c2
    c3 = c3
    NoCall = NoCall
    NoDm = NoDm
    Orders <- MCOrders
    Calls <- MCCalls
    Op <- MCOp
    OrderOf <- MCOrderOf
    Updates <- MCUpdates
    MaxRestarts = 1
INVARIANTS TypeOK  TrackedWasOpened TimedOutUnanswered DmsReachTheirOrder
CHECK_DEADLOCK FALSE
