SPECIFICATION FairSpec
CONSTANTS
    t1 = t1
    t2 = t2
    c1 = c1
    c2 = c2
    c3 = c3
    First = First
    Tabs <- TwoTabs
    Calls <- ThreeCalls
    TabOf <- TwoAndOne
    Closing <- OnlyTheOther
INVARIANTS
    TabSendsOnce
    SessionSurvives
    RefusedByRace
PROPERTY
    EveryCallSettles
\* The system stops when every call is over and every tab is gone.
CHECK_DEADLOCK FALSE
