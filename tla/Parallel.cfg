CONSTANTS
    Tasks <- MCTasks
    Candidates <- MCCandidates
    Paths <- MCPaths
    Properties = {"P"}
    Must = {"P"}
    Deterministic = {"P"}
    Directories = {}
    HighRisk = {}
    MaxParallel = 2
    MaxTaskRetries = 1
    MaxLives = 2
SPECIFICATION Spec
CHECK_DEADLOCK FALSE
INVARIANTS OnlyCompletedWork Delivered ConflictFree
PROPERTIES RunEnds
