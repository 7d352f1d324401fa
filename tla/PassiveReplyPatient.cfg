SPECIFICATION FairSpec
CONSTANTS
    u1 = u1
    Users <- OneUser
    Msgs <- ThreeMsgs
    UserOf <- ThreeByOneUser
    Commands = {}
    Unsupported = {2}
    Replies <- PartsThenVideo
    Fragile = {1}
    MaxAttempts = 3
    MaxSends = 2
    Permits = 1
    Overlap = FALSE
    MayDrop = FALSE
\* The system stops when the users have nothing more to write.
CHECK_DEADLOCK FALSE
INVARIANTS
    NoReplyLost
    PartsInOrder
    NoOrphanEntry
    RunningMeansTask
PROPERTIES
    SuccessMeansNothing
    EveryRequestAnswered
