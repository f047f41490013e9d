CONSTANTS
    SpecOrder <- CourtOrder
    PropertyOf <- CourtPropertyOf
    Kind <- CourtKind
    Must <- CourtMust
    Discriminating <- CourtDiscriminating
    Policy <- CourtPolicy
    Trees <- MCTrees
    Origin = "old"
    Passes <- CourtPasses
    Broken <- CourtBroken
    Lifted = {}
    Names = {}
    Dirts = {FALSE}
    Requires = {TRUE}
    AllowAgentOnly = FALSE
    MaxRuns = 1
    MaxEdits = 1
    MaxCrashes = 1
SPECIFICATION Spec
CHECK_DEADLOCK FALSE
INVARIANTS RedDescribesBase
