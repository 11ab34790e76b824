SPECIFICATION MCSpec
CONSTANTS
    u1 = u1
    u2 = u2
    m1 = m1
    m2 = m2
    t1 = t1
    t2 = t2
    s1 = s1
    Users <- MCUsers
    Admins = {}
    Maps <- MCMaps
    Topics <- MCTopics
    Synapses <- MCSynapses
    Ends <- MCEnds
    None = none
    Gone = gone
    Requests <- MCRequests
INVARIANTS
    TypeOK
    PermissionIsCopied
    PoliciesAgree
    MappingsStand
PROPERTIES
    RemovingShowsNothingNew
CHECK_DEADLOCK FALSE
