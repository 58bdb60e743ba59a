CONSTANTS
    Releases = {"current", "next"}
    First = "current"
    DrainRetries = 1
    MaxSessions = 2
    MaxRuns = 2
    Reruns = TRUE
SPECIFICATION RollingSpec
INVARIANT FinishedRunsRelease
CHECK_DEADLOCK FALSE
