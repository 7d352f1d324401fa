SPECIFICATION Spec
CONSTANTS
    s1 = s1
    s2 = s2
    Nil = Nil
    Sessions <- TwoSessions
    Msgs <- Talk
    SessionOf <- TalkSession
    KindOf <- TalkKind
    Concurrency = 1
    MaxMessages = 2
    Expiry = TRUE
INVARIANTS
    BoundedConversation
    SessionFound
PROPERTIES
    AnswerRemembered
    ResetForgets
\* The system stops when every message was handled.
CHECK_DEADLOCK FALSE
