SPECIFICATION Spec
CONSTANTS
    capacity = 1
    MaxOutput = 3
    MaxLinks = 2
    BusyLinks = 2
    MaxTakes = 0
    None = None
    Other = Other
INVARIANTS
    ElsewhereMeansTaken
CHECK_DEADLOCK FALSE
