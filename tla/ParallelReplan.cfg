CONSTANTS
    Tasks <- MCTasks
    Candidates <- MCCandidates
    Paths <- MCPaths
    Properties = {"P"}
    Must = {"P"}
    Deterministic = {"P"}
    Directories = {}
    HighRisk = {}
    MaxParallel = 2
    MaxTaskRetries = 1
    MaxLives = 1
SPECIFICATION SpecNoCrash
CHECK_DEADLOCK FALSE
PROPERTIES ReplanComesToAnEnd
