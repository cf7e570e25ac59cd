CONSTANTS
    Peers = {a, b}
    Ids = {s1, s2}
    Devices = {phone, pad}
    None = None
    maximumSessions = 2
    maximumSessionsPerPeer = 1
SPECIFICATION Spec
SYMMETRY Symmetry
INVARIANTS ClientsKnowWhatTheyHold NobodyKeepsAGoneSession WatchersNameTheHolder PausedTogether
PROPERTIES ReleaseReachesWatchers ServesOneClient
CHECK_DEADLOCK FALSE
