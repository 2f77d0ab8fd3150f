SPECIFICATION FairSpec
CONSTANTS
    c1 = c1  c2 = c2  c3 = c3
    read = read  send = send
    Connections = {c1}
    Asked <- MCAsked
    Forms <- MCForms
    Page = Page
    Nothing = Nothing
    Withheld = {send}
    Untyped = Untyped  Unreadable = Unreadable  Raised = Raised
    TtlAnswers = {Untyped, Unreadable}
    QuotaAnswers = {Untyped, 0}
CHECK_DEADLOCK FALSE
PROPERTY BoundedByTimeout
