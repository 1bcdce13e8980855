SPECIFICATION Spec
CONSTANTS
    c1 = c1
    k1 = k1
    Conversations <- OneConversation
    Clients <- OneClient
    MaxConn = 2
    MaxEpoch = 2
    MaxSession = 2
    MaxSubmit = 1
    MaxRequest = 1
    MaxEvent = 2
    MaxFault = 1
    Restores = 3
    None = None
INVARIANTS
    RoutesAgree
    ForwardedOnce
PROPERTIES
    FallbackKeepsMessages
CHECK_DEADLOCK FALSE
