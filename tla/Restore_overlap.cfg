\* SQLite with a field encryptor: handlers and restore() interleave.
SPECIFICATION RestoreSpec
CONSTANTS
    o1 = o1
    o2 = o2
    NoRow = NoRow
    NoAnswer = NoAnswer
    NoItem = NoItem
    Orders <- MCOrders
    OrderKind <- MCOrderKind
    Dms <- MCDms
    Openings <- MCSaved
    Backend = "sql"
    Overlapping = TRUE
    MaxRestarts = 1
    Answers <- MCAnswers
    MaxRestores = 1
INVARIANTS RestoreTypeOK RestoredStatusKept
PROPERTIES DisputeNeverLost RestoreTracksItsOrders
CHECK_DEADLOCK FALSE
