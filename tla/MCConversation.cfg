SPECIFICATION ConversationSpec
CONSTANTS
    None = None
    Carriers <- MCCarriers
    Dates <- MCDates
    Saturdays <- MCSaturdays
    SaturdayCarriers <- MCSaturdayCarriers
    MaxCarriersPerRun = 2
    Eligible <- MCEligible
    Suppressed <- MCSuppressed
    Input <- MCInput
    ShipDates <- MCShipDates
    Pinned <- MCPinned
    MaxEdits = 2
    MaxIterations = 2
    MaxTurns = 2
INVARIANTS
    ToolsAreTraced
    NothingWithheldWasShown
    ForgetsOnlyWhatWasWithheld
CHECK_DEADLOCK FALSE
