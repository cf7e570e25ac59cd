CONSTANTS
    MaxAttempts = 2
    MaxOutput = 2
SPECIFICATION FairSpec
INVARIANTS ExitToldOnce SourceBalanced SignalsOwnChild
PROPERTIES ExitIsNoticed CloseIsFinal
CHECK_DEADLOCK FALSE
