SPECIFICATION Spec
CONSTANTS
    t1 = t1
    t2 = t2
    c1 = c1
    c2 = c2
    c3 = c3
    First = First
    Tabs <- TwoTabs
    Calls <- ThreeCalls
    TabOf <- TwoAndOne
    Closing <- OnlyTheOther
INVARIANT
    OnlyOneSends
CHECK_DEADLOCK FALSE
