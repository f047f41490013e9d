CONSTANTS
    c1 = c1
    c2 = c2
    Calls <- MCCalls
    Run <- MCRun
    Payload <- MCPayload
    Seeded <- MCSeeded
    Agents = {a1, a2}
    Candidates = {k}
    Worth <- MCWorth
    None = None
    Window <- MCWindow
    StaleAge = 2
    MAX_REQUEUE_REFRESHES = 1
    MaxCommands = 2
    MaxCrashes = 1
SPECIFICATION Spec
CHECK_DEADLOCK FALSE
INVARIANTS RespondsToLive EndedLeavesQueue StampHonest
PROPERTIES StaysDead CallEnds
