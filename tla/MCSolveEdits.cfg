SPECIFICATION Spec
CONSTANTS
    None = None
    Carriers <- MCCarriers
    Dates <- MCDates
    Saturdays <- MCSaturdays
    SaturdayCarriers <- MCSaturdayCarriers
    MaxCarriersPerRun = 2
    Shipments = {a, b, c}
    OptionSets <- MCOptionSets
SYMMETRY Symmetry
INVARIANTS
    BestIsOptimal
    BestUsesAllItsCarriers
    SaturdayShipmentForcesTheFlag
    RunnersUpAreAlternatives
PROPERTIES
    EditsMoveCostOneWay
CHECK_DEADLOCK FALSE
