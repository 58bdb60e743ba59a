CONSTANTS
    RequestWindow = 2
    MaxSequence = 4
    MaxRuns = 2
    Sessions <- MCSessions
    Presses <- MCPresses
    MaxHandlers = 3
    SessionRuns = 1
    Exercises <- MCExercises
    Pictures = 3
    Faces = 4
    AtOnce = 2
SPECIFICATION MCSpec
INVARIANTS NothingStaleIsShown DeletesSpareTheStream SaysTrue
PROPERTY VideosEnd
CHECK_DEADLOCK FALSE
