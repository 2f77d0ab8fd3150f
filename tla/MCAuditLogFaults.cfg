SPECIFICATION Spec
CONSTANTS
    p1 = p1  p2 = p2
    a = a  b = b
    Processes = {p1, p2}
    Payloads = {a, b}
    Genesis = Genesis
    WriteMayFail = TRUE
    CrashMayTear = TRUE
    MayEdit = TRUE
    MaxEntries = 2
CHECK_DEADLOCK FALSE
INVARIANT LossNoticed
PROPERTY OnlyGrows
