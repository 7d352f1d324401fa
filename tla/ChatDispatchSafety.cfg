SPECIFICATION Spec
CONSTANTS
    s1 = s1
    s2 = s2
    Nil = Nil
    Sessions <- TwoSessions
    Msgs <- MixedMsgs
    SessionOf <- MixedSession
    KindOf <- MixedKind
    MaxWorkers = 2
    Concurrency = 2
INVARIANTS
    PermitAccounting
    ConsumerSurvives
    ResetReachesPending
PROPERTIES
    CommandsFirst
    ImplementsLimiter
\* #resetall may stop for ever on its own lock.
CHECK_DEADLOCK FALSE
