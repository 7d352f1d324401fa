SPECIFICATION Spec
CONSTANTS
    u1 = u1
    Users <- OneUser
    Msgs <- TwoMsgs
    UserOf <- TwoByOneUser
    Commands = {}
    Unsupported = {}
    Replies <- OnlyText
    Fragile = {}
    MaxAttempts = 3
    MaxSends = 2
    Permits = 1
    Overlap = FALSE
    MayDrop = FALSE
\* The system stops when the users have nothing more to write.
CHECK_DEADLOCK FALSE
INVARIANTS
    ProducedOnce
