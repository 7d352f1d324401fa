SPECIFICATION Spec
CONSTANTS
    u1 = u1
    Users <- OneUser
    Msgs <- TwoMsgs
    UserOf <- TwoByOneUser
    Commands = {2}
    Unsupported = {}
    Replies <- VoicesOrRaise
    Fragile = {1}
    MaxAttempts = 2
    MaxSends = 2
    Permits = 2
    Overlap = TRUE
    MayDrop = TRUE
\* The system stops when the users have nothing more to write.
CHECK_DEADLOCK FALSE
INVARIANTS
    TypeOK
    DeliveredOnce
PROPERTIES
    StrandedOnly
