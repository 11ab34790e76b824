CONSTANTS
    u1 = u1
    u2 = u2
    m1 = m1
    m2 = m2
    s1 = s1
    s2 = s2
    s3 = s3
    NoUser = NoUser
    NoMap = NoMap
    NoSocket = NoSocket
    User = {u1, u2}
    Map = {m1, m2}
    Socket = {s1, s2, s3}
    Owner <- OwnerOf
    Opens <- OpenedMaps
    MaxMoves <- TwoForFirst
    MaxLosses <- None
    MaxClicks <- None
SPECIFICATION FairSpec
VIEW View
CHECK_DEADLOCK FALSE
INVARIANTS
    TypeOK
    ServerSeesPages
    PagesSeeEachOther
    OneMapAtATime
PROPERTIES
    PagesAreSeenInTheEnd
