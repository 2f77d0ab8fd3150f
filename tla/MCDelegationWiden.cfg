SPECIFICATION Spec
CONSTANTS
    alice = alice  bob = bob
    read = read  send = send
    mail = mail  crm = crm
    g1 = g1  g2 = g2  g3 = g3
    issuerKey = issuerKey  otherKey = otherKey
    id1 = id1  id2 = id2
    Missing = Missing  Malformed = Malformed
    NoParent = NoParent
    Inherit = Inherit
    Scalars <- MCScalars
    Strings <- MCScalars
    GrantIds = {g1, g2, g3}
    TrustedKeys <- MCTrustedKeys
    Tools = {read, send}
    Audiences = {mail, crm}
    KeyIds = {id1, id2}
    Arguments <- MCArguments
    MintRequests <- ChainMintRequests
    Narrowings <- ChainNarrowings
    IssuerKey = issuerKey
    IssuerKeyId = id1
    ForeignKeys = {otherKey}
    MaxTime = 3
    MaxIssued = 3
INVARIANT NeverWidens
