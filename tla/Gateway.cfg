CONSTANTS
    FrameIds <- MCFrameIds
    RequestWindow = 2
SPECIFICATION FairSessionSpec
INVARIANTS InStep HonestWorkersAreNotAccused
PROPERTIES SessionsEnd
CHECK_DEADLOCK FALSE
