\* A plain SQLite store or IndexedDB, a stop and a restart.
SPECIFICATION FairSpec
CONSTANTS
    Messages <- MCMessages
    Backends <- MCBackends
    MaxSessions = 1
INVARIANTS TypeOK NoMessageTwice HistoryMatchesStore
PROPERTIES PeerMessageReachesUser
CHECK_DEADLOCK FALSE
