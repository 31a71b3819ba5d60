SPECIFICATION Spec
CONSTANTS
    None = None
    Garbage = Garbage
    a = a
    b = b
    k = k
    l = l
    Appenders <- MCAppenders
    Keys <- MCKeys
    Owner <- MCOwner
    Fields = {f}
    Values = {x, y}
    MaxLines = 4
INVARIANTS
    FoldIsLatest
    AcknowledgedIsKept
CHECK_DEADLOCK FALSE
