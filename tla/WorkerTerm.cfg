CONSTANTS
    MaxInterrupts = 1
    StartLimitBurst = 1
SPECIFICATION LauncherSpec
INVARIANT TermPausesJobs
CHECK_DEADLOCK FALSE
