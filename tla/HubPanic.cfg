CONSTANTS
    Clients = {c1, c2}
    Msgs = {m1, m2}
    OrgCalls = {o1}
    Hub = Hub
    OrgOf <- MCOrgOf
    Inbox <- MCInbox
    InboxSize = 1
    SendSize = 1
SPECIFICATION Spec
INVARIANTS CallerSurvives
CHECK_DEADLOCK FALSE
