CONSTANTS
    Pasters = {app}
    Typists = {cli}
    Pastes = 2
    Chunks = 3
    ChunkSize = 2
    Keys = 2
    InputCap = 5
    KernelRoom = 2
SPECIFICATION FairSpec
INVARIANTS AcceptedInputIsKept PasteHasNoHole
PROPERTIES HeldInputGoes
CHECK_DEADLOCK FALSE
