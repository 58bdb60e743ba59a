CONSTANTS
    t1 = t1
    alice = alice
    bob = bob
    e1 = e1
    e2 = e2
    e3 = e3
    NoEntry = NoEntry
    Tracks <- MCTracks
    Persons <- MCPersons
    PersonOf <- MCPersonOf
    EntryIds <- MCEntryIds
    Enrollable <- MCEnrollable
    QuickRetryFrames = 1
    QuickRetryLimit = 1
    RevalidateFrames = 2
    MissingFrames = 1
    MaxPending = 2
    MaxVersion = 3
    MaxGeneration = 3
    f1 = f1
    f2 = f2
    k1 = k1
    k2 = k2
    Faces <- MCFaces
    Keys <- MCKeys
    NoKey = NoKey
    TrackBuffer = 2
    HoldFrames = 1
    MaskFrames = 2
    Retention = 3
    Refresh = 2
    Width = 26
    Height = 8
    Scenes <- MCScenes
    Settings <- MCSettings
    DefaultMargin = 2
    MaxMargin = 3
    MaxPad = 1
    MaxRadius = 4
    MaxPixel = 2
    MaxSigma = 1
SYMMETRY MCSymmetry
SPECIFICATION MCSpec
INVARIANTS ApprovedAreEnrolled WaitingForAToken AnswersShowTheWhole
PROPERTIES FacesStayCovered ApprovalIsKept IdentityIsPinned
CHECK_DEADLOCK FALSE
