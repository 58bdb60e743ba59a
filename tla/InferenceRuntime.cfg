CONSTANTS
    frame = frame
    other = other
    selfCheck = selfCheck
    v1 = v1
    v2 = v2
    Live <- MCLive
    Vod <- MCVod
    Cancellable <- MCCancellable
    track1 = track1
    track2 = track2
    track3 = track3
    socket = socket
    Clients <- MCClients
    Sockets <- MCSockets
    StreamOf <- MCStreamOf
    MaxQueue = 2
    MaxBatch = 2
    MaxFrames = 5
    Count = 3
    MaxRows = 2
SPECIFICATION MCSpec
INVARIANTS JobsAreInOrder EveryFaceIsCovered
PROPERTIES RuntimeImplementsContract LiveFramesRun ClosingStrandsNobody FramesComeBack
CHECK_DEADLOCK FALSE
