SPECIFICATION Spec
CONSTANTS
    SwitchFile = {TRUE, FALSE}
    MaxRequests = 3
    MaxCrashes = 1
    MaxSpawnFailures = 1
    MaxSlowExits = 1
INVARIANTS OneHelper CompletedOnce SetIsAnsweredTruly
PROPERTIES OnIsFollowed OffIsFollowed
CHECK_DEADLOCK FALSE
