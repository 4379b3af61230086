\* A trade taken with a hold invoice, of which no row was saved.
SPECIFICATION RestoreSpec
CONSTANTS
    o1 = o1
    o2 = o2
    NoRow = NoRow
    NoAnswer = NoAnswer
    NoItem = NoItem
    Orders <- MCOrders
    OrderKind <- MCOrderKind
    Dms <- MCDms
    Openings <- MCUnsaved
    Backend = "sql"
    Overlapping = TRUE
    MaxRestarts = 1
    Answers <- MCAnswers
    MaxRestores = 1

PROPERTIES RestoreTracksEveryOrder
CHECK_DEADLOCK FALSE
