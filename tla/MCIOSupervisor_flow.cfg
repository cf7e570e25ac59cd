CONSTANTS
    PeerIds = {1, 2}
    Helpers = {}
    ReplyOps = {}
    SilentOps = {"other"}
    OutputSizes = {1, 4}
    PauseAbove = 4
    ResumeBelow = 1
    PeerCongestion = 2
    Grace = 1
    InputPauseAbove = 1
    InputResumeBelow = 1
    SocketRoom = 1
    PollAttempts = 0
    MaxTags = 0
    MaxQueue = 3
    MaxSpawns = 1
    MaxSpawnFailures = 0
    MaxOutput = 3
SPECIFICATION FairSpec
INVARIANTS BudgetAddsUp OutputBounded SuspendedTogether
PROPERTIES OnlyStuckPeersAreCut ReadingResumes
CHECK_DEADLOCK FALSE
