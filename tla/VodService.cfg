CONSTANTS
    i1 = i1
    i2 = i2
    w1 = w1
    c1 = c1
    c2 = c2
    JobIds <- MCJobIds
    Watchers <- MCWatchers
    Callers <- MCCallers
    Patient <- MCPatient
    MaxJobs = 1
    MaxRetained = 0
    MaxStarts = 2
SPECIFICATION ServiceSpec
INVARIANT RunningJobsAreListed
PROPERTIES WatchersHearTheEnd CallsAreAnswered
CHECK_DEADLOCK FALSE
