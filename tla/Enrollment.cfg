CONSTANTS
    a = a
    b = b
    c = c
    e1 = e1
    e2 = e2
    e3 = e3
    s1 = s1
    s2 = s2
    r1 = r1
    r2 = r2
    f1 = f1
    SessionIds <- MCSessionIds
    EntryIds <- MCEntryIds
    Streams <- MCStreams
    MaxSessions = 2
    MaxEntries = 2
    MaxObjects = 3
    MaxVersion = 3
    Owners <- MCSessionIds
    Nobody = Nobody
    QueueCapacity = 2
    Requests <- MCRequests
    FaceJobs <- MCFaceJobs
    Jobs <- MCJobs
    CallStreams <- MCCallStreams
SYMMETRY MCSymmetry
SPECIFICATION EnrollmentSpec
INVARIANTS CountsMatchLeases CapacityIsExact AnswersAreTrue
CHECK_DEADLOCK FALSE
