CONSTANTS
    s1 = s1
    s2 = s2
    Recovered = Recovered
    Streams <- MCStreams
    Impatient <- MCImpatient
    MaxFailures = 3
    ComposeSlots = 1
SPECIFICATION FairLiveSpec
INVARIANTS CompositionKeepsState AdmitsOnACleanRuntime
PROPERTIES StreamsKeepAdmission FramesAreAnswered WorkerReturns
CHECK_DEADLOCK FALSE
