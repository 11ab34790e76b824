CONSTANTS
    u1 = u1
    u2 = u2
    u3 = u3
    m1 = m1
    m2 = m2
    NoUser = NoUser
    NoMap = NoMap
    User = {u1, u2}
    Socket = {u1, u2, u3}
    Map = {m1, m2}
    Owner <- TwoTabs
    Opens <- OpenedMaps
    VideoMap = {m1, m2}
SPECIFICATION Spec
VIEW View
INVARIANTS
    RoomsFollowSockets
    NoPhantoms
PROPERTIES
    VideoPeersAreTold
