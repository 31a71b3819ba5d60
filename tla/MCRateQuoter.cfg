SPECIFICATION Spec
CONSTANTS
    None = None
    Torn = Torn
    ups = ups
    usps = usps
    heavy = heavy
    light = light
    Carriers <- MCCarriers
    Parcels <- MCParcels
    Reference = heavy
    Answers <- MCAnswers
    MaxAttempts = 2
    MaxRuns = 3
INVARIANTS
    AnswersHonourThePin
PROPERTIES
    StableAnswers
    RerunIsFree
    RunEnds
CHECK_DEADLOCK FALSE
