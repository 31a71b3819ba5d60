SPECIFICATION FairSpec
CONSTANTS
    None = None
    Jobs = {j1}
    Requests = {r1, r2}
    MaxToolCalls = 1
INVARIANTS
    ClientClosedOnce
    ReviewKeepsItsClient
    DecisionIsShown
PROPERTIES
    OneDecision
    TurnLockIsFreed
    EndedRunReleasesItsClient
CHECK_DEADLOCK FALSE
