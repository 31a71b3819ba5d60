SPECIFICATION Spec
CONSTANTS
    a = a
    a2 = a2
    b = b
    bad = bad
    Off = Off
    Missing = Missing
    None = None
    Texts <- MCTexts
    Variation <- MCVariation
    Mistooled = {bad}
    MaxImages = 2
    Consoles <- MCConsoles
INVARIANTS
    HashesResolve
    NothingIsRevived
    TheRowIsExplained
PROPERTY
    FallbackIsKept
