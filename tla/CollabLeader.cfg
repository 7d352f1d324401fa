SPECIFICATION FairSpec
CONSTANTS
    s1 = s1
    s2 = s2
    s3 = s3
    NoSession = NoSession
    Sessions <- ThreeSessions
    Editing <- Second
    Closing <- First
    Expiring <- First
    MaxHandlers = 2
PROPERTY
    RequestIsHeard
INVARIANTS
    TypeOK
    OneLeader
\* The system stops when every tab has joined and done its edits.
CHECK_DEADLOCK FALSE
