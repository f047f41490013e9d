CONSTANTS
    Tasks <- MCTasks
    FirstPlans <- MCFirstPlans
    Dirts <- MCDirts
    AllowedDirt <- MCAllowedDirt
    Amendments <- MCAmendments
    Tiered = TRUE
    Properties = {"P"}
    Must = {"P"}
    Deterministic = {"P"}
    Directories = {}
    HighRisk <- MCHighRisk
    MaxTaskRetries = 1
    MaxReplans = 1
    MaxModelCalls = 3
    MaxCalls = 2
    MaxCrashes = 2
SPECIFICATION Spec
CHECK_DEADLOCK FALSE
INVARIANTS LogRemembers DependenciesFirst Bounded PlanSound
PROPERTIES LedgerSpec RunEnds HistoryKept
