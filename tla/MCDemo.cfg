SPECIFICATION FairDemoSpec
CONSTANTS
    read = read  draftTool = draftTool  send = send
    mail = mail  agent = agent
    g1 = g1
    issuerKey = issuerKey  keyId = keyId
    followUp = followUp  draftText = draftText
    otherText = otherText  approvedBody = approvedBody
    auto = auto  ttl = ttl  timeout = timeout  policy = policy  python = python
    one = one  example = example  missing = missing
    Missing = Missing  Malformed = Malformed
    NoParent = NoParent
    Inherit = Inherit
    Nobody = Nobody
    NoPolicy = NoPolicy
    Raised = Raised  Untyped = Untyped  Unreadable = Unreadable
    Scalars <- MCScalars
    Strings <- MCScalars
    GrantIds = {g1}
    TrustedKeys <- MCTrustedKeys
    IssuerKey = issuerKey
    IssuerKeyId = keyId
    Requests = {1, 2, 3, 4}
    ToolCalls <- MCToolCalls
    Withheld = {send}
    AutoOption = auto  TtlOption = ttl  WebTimeoutOption = timeout  PolicyOption = policy
    Number <- MCNumber
    PolicyFile <- MCPolicyFile
    OfferedTools <- MCOfferedTools
    DefaultTtl = 5
    DefaultQuota = 3
    DefaultAudience = mail
    Commands <- MCCommands
    TtlAnswers = {Untyped}
    QuotaAnswers = {Untyped}
    DiskMayFail = TRUE
    MaxTime = 1
    MaxSessions = 1
    ScriptedClient = ScriptedClient
    PolicyClient = PolicyClient
    AnyClient = AnyClient
    ReadThread = read  DraftReply = draftTool  SendReply = send
    FollowUp = followUp  DraftText = draftText
    OtherText = otherText  ApprovedBody = approvedBody
    Python = python  TtlWord = one  ExamplePolicy = example
    AnyCommands <- MCAnyCommands
    AnyRequests = {1, 2}
CHECK_DEADLOCK FALSE
INVARIANTS
    ReplayDiesByExpiry
    NothingUnapprovedSent
    LaunchedAsWritten
PROPERTIES
    EveryCallSettles
    ScriptConcludes
