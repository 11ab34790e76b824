SPECIFICATION Spec
CONSTANTS
    t1 = t1
    t2 = t2
    s1 = s1
    s2 = s2
    m1 = m1
    m2 = m2
    Topics <- MCTopics
    Synapses <- MCSynapses
    Ends <- MCEnds
    Metacodes <- MCMetacodes
    Metacode <- MCMetacode
    Own <- MCOwn
    Budgets <- MCBudgets
    Me = me
    Other = other
    None = none
INVARIANTS
    TypeOK
    SelectionIsDrawn
    EdgesMatchSynapses
    QuietPageShowsTheMap
    DrawnOnce
    FilterIsOffered
PROPERTIES
    LoadsEnd
CHECK_DEADLOCK FALSE
