SPECIFICATION Spec
CONSTANTS
    Coordinators = {p1}
    Cancellers = {c1, c2}
    Recoverers = {v1}
    Reporters = {o1}
    NoProc = NoProc
    NoRun = NoRun
    PlanOf <- OwnPlans
    Outcomes = {"succeeded"}
    HardEscalation = TRUE
    PowerLoss = TRUE
SYMMETRY Symmetry
CHECK_DEADLOCK FALSE
PROPERTY CauseMonotonic
