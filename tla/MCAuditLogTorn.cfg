SPECIFICATION Spec
CONSTANTS
    p1 = p1  p2 = p2
    a = a  b = b
    Processes = {p1}
    Payloads = {a, b}
    Genesis = Genesis
    WriteMayFail = FALSE
    CrashMayTear = TRUE
    MayEdit = FALSE
    MaxEntries = 3
CHECK_DEADLOCK FALSE
INVARIANT AlwaysLoadable
