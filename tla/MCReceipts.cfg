SPECIFICATION ReceiptsSpec
CONSTANTS
    p1 = p1
    a = a  b = b
    verify = verify
    k1 = k1  k2 = k2
    KeyUsers = {p1, verify}
    Verifier = verify
    Keys = {k1, k2}
    NoFile = NoFile  Empty = Empty
    Processes = {p1}
    Payloads = {a, b}
    Genesis = Genesis
    WriteMayFail = FALSE
    CrashMayTear = FALSE
    MayEdit = TRUE
    MaxEntries = 5
    NoReceipt = NoReceipt
SYMMETRY ReceiptsSymmetry
CHECK_DEADLOCK FALSE
INVARIANTS
    TypeOK
    ChainIntact
    SeqsCount
    EditNoticed
    OneKeyPair
    ReceiptsAgree
