SPECIFICATION Spec
CONSTANTS
    s1 = s1
    s2 = s2
    Nil = Nil
    Sessions <- TwoSessions
    Msgs <- Talk
    SessionOf <- TalkSession
    KindOf <- TalkKind
    Concurrency = 2
    MaxMessages = 2
    Expiry = FALSE
INVARIANT
    BoundedConversation
\* The system stops when every message was handled.
CHECK_DEADLOCK FALSE
