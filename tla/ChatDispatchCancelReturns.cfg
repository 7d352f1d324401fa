SPECIFICATION Spec
CONSTANTS
    s1 = s1
    s2 = s2
    Nil = Nil
    Sessions <- TwoSessions
    Msgs <- MixedMsgs
    SessionOf <- MixedSession
    KindOf <- MixedKind
    MaxWorkers = 2
    Concurrency = 2
INVARIANT
    CancelReturns
