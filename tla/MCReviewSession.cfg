SPECIFICATION Spec
CONSTANTS
    None = None
    Carriers <- MCCarriers
    Dates <- MCDates
    Saturdays <- MCSaturdays
    SaturdayCarriers <- MCSaturdayCarriers
    MaxCarriersPerRun = 2
    Eligible <- MCEligible
    Suppressed <- MCSuppressed
    Input <- MCInput
    ShipDates <- MCShipDates
    Pinned <- MCPinned
    MaxEdits = 3
INVARIANTS
    NoRecipientLost
    GateHolds
    LedgerHoldsThePlan
    ApprovalIsComplete
    HistoryExplainsThePlan
PROPERTIES
    CarriersMoveByConsent
    EndIsFinal
CHECK_DEADLOCK FALSE
