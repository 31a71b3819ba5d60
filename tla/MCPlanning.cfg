SPECIFICATION Spec
CONSTANTS
    None = None
    Incomplete = Incomplete
    ann = ann
    bob = bob
    cid = cid
    sat = sat
    mon = mon
    elm = elm
    elmTypo = elmTypo
    elmPlus4 = elmPlus4
    oak = oak
    Keys <- MCKeys
    Dates <- MCDates
    Addresses <- MCAddresses
    Door <- MCDoor
    Valid <- MCValid
    Corrected <- MCCorrected
    Inputs <- MCInputs
    MaxReply = 2
INVARIANTS
    EveryKeyIsAccountedFor
    EachEntryOnOneList
    DoorstepKeepsEachPin
    FoldedOntoAParcel
    ShipsToCheckedAddresses
    EscalationsAgree
CHECK_DEADLOCK FALSE
