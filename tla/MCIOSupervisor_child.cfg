CONSTANTS
    PeerIds = {1, 2}
    Helpers = {2}
    ReplyOps = {"other", "goodbye", "shutdown"}
    SilentOps = {}
    OutputSizes = {}
    PauseAbove = 4
    ResumeBelow = 1
    PeerCongestion = 2
    Grace = 1
    InputPauseAbove = 1
    InputResumeBelow = 1
    SocketRoom = 1
    PollAttempts = 2
    MaxTags = 3
    MaxQueue = 2
    MaxSpawns = 2
    MaxSpawnFailures = 1
    MaxOutput = 0
SPECIFICATION FairSpec
INVARIANTS AnsweredOnce DeadLinkIsReplaced ArrivalTakesExitBack
PROPERTIES RequestsAreAnswered
CHECK_DEADLOCK FALSE
