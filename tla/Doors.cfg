CONSTANTS
    Paths <- MCPaths
    Targets <- MCTargets
    Protected <- MCProtected
    Contents <- MCContents
    Answers <- MCAnswers
    HandEdits <- MCHandEdits
    TouchSets <- MCTouchSets
    MaxTaskRetries = 1
    MaxAttempts = 2
    MaxCommands = 1
    CommitPerTask = TRUE
    ProceedOnClarifications = TRUE
    InPlace = TRUE
    Ahead = TRUE
    MaxEdits = 1
    MaxCrashes = 1
SPECIFICATION Spec
CHECK_DEADLOCK FALSE
INVARIANTS DoorsRefuseAlike
