CONSTANTS
    PeerIds = {1}
    Helpers = {}
    ReplyOps = {"other", "goodbye", "shutdown"}
    SilentOps = {}
    OutputSizes = {}
    PauseAbove = 4
    ResumeBelow = 1
    PeerCongestion = 2
    Grace = 1
    InputPauseAbove = 1
    InputResumeBelow = 1
    SocketRoom = 1
    PollAttempts = 1
    MaxTags = 2
    MaxQueue = 2
    MaxSpawns = 2
    MaxSpawnFailures = 0
    MaxOutput = 0
SPECIFICATION Spec
INVARIANTS ProxyOutlivesChild
CHECK_DEADLOCK FALSE
