CONSTANTS
    s1 = s1
    s2 = s2
    Recovered = Recovered
    Streams <- MCStreams
    Impatient <- MCImpatient
    MaxFailures = 2
    ComposeSlots = 1
SPECIFICATION LiveSpec
INVARIANT TrackerOutlivesInference
CHECK_DEADLOCK FALSE
