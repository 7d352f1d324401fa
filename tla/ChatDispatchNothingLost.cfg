SPECIFICATION Spec
CONSTANTS
    s1 = s1
    s2 = s2
    Nil = Nil
    Sessions <- TwoSessions
    Msgs <- OrderMsgs
    SessionOf <- OrderSession
    KindOf <- OrderKind
    MaxWorkers = 2
    Concurrency = 1
INVARIANT
    NothingLost
