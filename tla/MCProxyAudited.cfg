SPECIFICATION Spec
CONSTANTS
    alice = alice  bob = bob
    read = read  send = send  wipe = wipe
    mail = mail  agent = agent
    g1 = g1  g2 = g2
    r1 = r1  r2 = r2
    issuerKey = issuerKey  keyId = keyId
    auto = auto  ttl = ttl  timeout = timeout  policy = policy  python = python
    one = one  two = two
    good = good  empty = empty  notOffered = notOffered  listedTwice = listedTwice
    misspelt = misspelt  garbled = garbled  partial = partial
    Missing = Missing  Malformed = Malformed
    NoParent = NoParent
    Inherit = Inherit
    Nobody = Nobody
    NoPolicy = NoPolicy
    Raised = Raised  Untyped = Untyped  Unreadable = Unreadable
    Scalars <- MCScalars
    Strings <- MCScalars
    GrantIds = {g1, g2}
    TrustedKeys <- MCTrustedKeys
    IssuerKey = issuerKey
    IssuerKeyId = keyId
    Requests = {r1, r2}
    ToolCalls <- MCToolCalls
    Withheld = {send}
    AutoOption = auto  TtlOption = ttl  WebTimeoutOption = timeout  PolicyOption = policy
    Number <- MCNumber
    PolicyFile <- MCPolicyFile
    OfferedTools <- MCOfferedTools
    DefaultTtl = 2
    DefaultQuota = 2
    DefaultAudience = mail
    Commands <- MCMisspeltCommands
    TtlAnswers = {Untyped}
    QuotaAnswers = {Untyped}
    DiskMayFail = FALSE
    MaxTime = 2
    MaxSessions = 2
SYMMETRY ProxySymmetry
CHECK_DEADLOCK FALSE
INVARIANT EveryCallAudited
