CONSTANTS
    Invokers = {i1, i2}
    Pkgs <- MCPkgs
    Deps <- MCDeps
    Versions = {"good", "bad"}
    Good = {"good"}
    SpecOrder <- MCSpecs
    Acceptance <- MCAcceptance
    Kind <- MCKind
    Id <- MCId
    Prop <- MCProp
    Must <- MCMust
    Command <- MCCommand
    Filter <- MCFilter
    WithDeps <- MCWithDeps
    Reads <- MCReads
    Builds <- MCBuilds
    Slow <- MCSlow
    Denied <- MCDenied
    Origin = "open"
    First <- MCFirst
    Results <- MCResults
    MaxEdits = 1
    MaxCommits = 2
    MaxStarts = 2
    MaxLosses = 1
SPECIFICATION Spec
SYMMETRY Symmetry
CHECK_DEADLOCK FALSE
INVARIANTS ReuseIsSound CachedHolds  PartialIsHonest
