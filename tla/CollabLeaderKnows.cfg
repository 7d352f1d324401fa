SPECIFICATION Spec
CONSTANTS
    s1 = s1
    s2 = s2
    s3 = s3
    NoSession = NoSession
    Sessions <- TwoSessions
    Editing <- None
    Closing <- First
    Expiring <- None
    MaxHandlers = 2
INVARIANT
    LeaderKnows
\* The system stops when every tab has joined and done its edits.
CHECK_DEADLOCK FALSE
