CONSTANTS
    PeerIds = {p, q}
    FrameSizes = {1, 3}
    MaxFrames = 3
    SocketRoom = 2
SPECIFICATION FairSpec
INVARIANTS FramesInOrder
PROPERTIES FramesArrive
CHECK_DEADLOCK FALSE
