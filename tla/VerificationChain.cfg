CONSTANTS
    SpecOrder <- ChainOrder
    PropertyOf <- ChainPropertyOf
    Kind <- ChainKind
    Must <- ChainMust
    Discriminating <- ChainDiscriminating
    Policy <- ChainPolicy
    Trees <- MCTrees
    Origin = "old"
    Passes <- ChainPasses
    Broken <- ChainBroken
    Lifted <- ChainLifted
    Names <- ChainLifted
    Dirts = {TRUE, FALSE}
    Requires = {TRUE}
    AllowAgentOnly = FALSE
    MaxRuns = 2
    MaxEdits = 2
    MaxCrashes = 0
SPECIFICATION Spec
CHECK_DEADLOCK FALSE
INVARIANTS FlipsEarned SatisfiedHolds ContinuationKeeps ReplayAgrees
