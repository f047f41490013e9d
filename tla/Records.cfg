CONSTANTS
    Owner = owner
    Resolvers = {r1}
    Followups = {f1, f2}
    MaxLines = 4
    MaxDeaths = 1
SPECIFICATION Spec
CHECK_DEADLOCK FALSE
INVARIANTS AddsKeepEvidence Agreement HonestRunReplays
