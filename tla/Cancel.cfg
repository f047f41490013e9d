SPECIFICATION Spec
CONSTANTS
    Coordinators = {p1, p2}
    Cancellers = {c1}
    Recoverers = {v1}
    Reporters = {}
    NoProc = NoProc
    NoRun = NoRun
    PlanOf <- OwnPlans
    Outcomes = {"succeeded"}
    HardEscalation = TRUE
    PowerLoss = FALSE
SYMMETRY Symmetry
CHECK_DEADLOCK FALSE
INVARIANT LockHeldWhileOwning
INVARIANT BlockCoversWork
INVARIANT EventFirst
PROPERTY LeaseSpec
INVARIANT OneTerminalEvent
INVARIANT InterruptedRunBlocks
PROPERTY FinishedStaysFinished
