---------------------------- MODULE RealtimeServer ----------------------------
(***************************************************************************)
(* The node realtime server: realtime/global.js, map.js, junto.js and      *)
(* signal.js around the store of module JuntoStore.                        *)
(*                                                                         *)
(* Node runs one handler at a time, and all the callbacks registered for   *)
(* one event of one socket run in a row, in the order realtime-server.js   *)
(* registers the files (global, signal, junto, map): an event is one       *)
(* atomic action here.  The store is therefore updated from the fields     *)
(* the socket has BEFORE map.js changes them.                              *)
(*                                                                         *)
(* `emitted' is the output of the last event: a sequence of messages, each *)
(* with the set of sockets it is written to.  The channels to the clients  *)
(* are the concern of the modules that use this one.                       *)
(***************************************************************************)
EXTENDS JuntoStore, Sequences

CONSTANTS
    Socket,   \* connections the server can hold at a time
    Owner,    \* Owner[s] is the user whose page opens connection s
    Opens,    \* Opens[u] is the set of maps the pages of user u ever show
    VideoMap  \* maps on which somebody's camera is ever switched on

ASSUME VideoMapAssumption == VideoMap \subseteq Map
ASSUME OpensAssumption == Opens \in [User -> SUBSET Map]
ASSUME OwnerAssumption == Owner \in [Socket -> User]

VARIABLES
    connected,    \* io.sockets.connected
    mapid,        \* socket.mapid
    userid,       \* socket.userid
    mapRoom,      \* adapter.rooms["maps/<map>"]
    userMapRoom,  \* adapter.rooms["mappers/<user>/maps/<map>"]
    videoRoom,    \* socket.room: the room "map-<map>" of signal.js
    junto,        \* store.getState()
    emitted,      \* the messages the last event sent
    strays        \* history: what clients did that the handlers do not expect

serverVars == <<connected, mapid, userid, mapRoom, userMapRoom, videoRoom, junto>>
vars == <<serverVars, emitted, strays>>

-----------------------------------------------------------------------------
\* Messages.  `about' is the user a message names (or, for "remove", the socket);
\* NoUser when it names none.  A socket that never joined a map is lost under no name.

MessageType ==
    {"JUNTO_UPDATED", "NEW_MAPPER", "LOST_MAPPER", "MAPPER_LIST_UPDATED",
     "PEER_COORDS_UPDATED", "TOPIC_DRAGGED", "CALL_IN_PROGRESS",
     "INVITED_TO_CALL", "INVITED_TO_JOIN", "CALL_ACCEPTED", "CALL_STARTED",
     "CALL_DENIED", "INVITE_DENIED", "MAPPER_JOINED_CALL", "MAPPER_LEFT_CALL",
     "remove"}

\* Who a message of this type may name: a socket that never joined a map has no user.
Named(type) ==
    CASE type = "remove" -> Socket
      [] type = "LOST_MAPPER" -> UserKey
      [] type \in {"JUNTO_UPDATED", "TOPIC_DRAGGED", "CALL_IN_PROGRESS", "CALL_STARTED"} -> {NoUser}
      [] OTHER -> User

Emission == {e \in [to : SUBSET Socket, type : MessageType, about : UserKey \cup Socket] :
                e.about \in Named(e.type)}

Emit(to, type, about) == [to |-> to, type |-> type, about |-> about]

\* store.subscribe in global.js: every dispatch ends by telling every socket.
JuntoUpdated(sockets) == Emit(sockets, "JUNTO_UPDATED", NoUser)

\* Members of maps/<m>; the rooms named maps/null and maps/undefined are empty.
MapRoom(m) == IF m \in Map THEN mapRoom[m] ELSE {}
UserMapRoom(u, m) == IF u \in User /\ m \in Map THEN userMapRoom[u][m] ELSE {}

\* Members of the video room of map m.
VideoRoom(m) == {s \in connected : videoRoom[s] = m}

\* Mutant of LeaveMapRoom: the socket stays in the room.
LeaveMapRoom_Stays(s, m) == mapRoom' = mapRoom

LeaveMapRoom(s, m) ==
    mapRoom' = [k \in Map |-> IF k = m THEN mapRoom[k] \ {s} ELSE mapRoom[k]]

\* Mutant of LeaveUserMapRoom: the socket stays in the room.
LeaveUserMapRoom_Stays(s, u, m) == userMapRoom' = userMapRoom

LeaveUserMapRoom(s, u, m) ==
    userMapRoom' = [v \in User |-> [k \in Map |->
        IF v = u /\ k = m THEN userMapRoom[v][k] \ {s} ELSE userMapRoom[v][k]]]

\* Mutant of LostMapper: the broadcast goes to nobody.
LostMapper_Nobody(s, u, m) == Emit({}, "LOST_MAPPER", u)

\* leaveMap's broadcast.
LostMapper(s, u, m) == Emit(MapRoom(m) \ {s}, "LOST_MAPPER", u)

-----------------------------------------------------------------------------
Init ==
    /\ connected = {}
    /\ mapid = [s \in Socket |-> NoMap]
    /\ userid = [s \in Socket |-> NoUser]
    /\ mapRoom = [m \in Map |-> {}]
    /\ userMapRoom = [u \in User |-> [m \in Map |-> {}]]
    /\ videoRoom = [s \in Socket |-> NoMap]
    /\ junto = EmptyStore
    /\ emitted = <<>>
    /\ strays = {}

\* io.on('connection'): a fresh socket object; everybody is sent the state.
Connect(s) ==
    /\ s \notin connected
    /\ connected' = connected \cup {s}
    /\ emitted' = <<JuntoUpdated(connected')>>
    /\ UNCHANGED <<mapid, userid, mapRoom, userMapRoom, videoRoom, junto, strays>>

\* JOIN_MAP: the store first, then the socket's fields and rooms.
JoinMap(s, m) ==
    LET u == Owner[s] IN
    /\ s \in connected
    /\ junto' = ReduceJoinMap(junto, m, u)
    /\ mapid' = [mapid EXCEPT ![s] = m]
    /\ userid' = [userid EXCEPT ![s] = u]
    /\ mapRoom' = [mapRoom EXCEPT ![m] = @ \cup {s}]
    /\ userMapRoom' = [userMapRoom EXCEPT ![u][m] = @ \cup {s}]
    /\ emitted' = <<JuntoUpdated(connected), Emit(mapRoom[m] \ {s}, "NEW_MAPPER", u)>>
    /\ strays' = strays \cup (IF mapid[s] \in {NoMap, m} THEN {} ELSE {"join"})
    /\ UNCHANGED <<connected, videoRoom>>

\* LEAVE_MAP carries no data: the socket's own fields say what is left.
LeaveMap(s) ==
    LET m == mapid[s]
        u == userid[s] IN
    /\ s \in connected
    /\ junto' = ReduceLeaveMap(junto, m, u)
    /\ LeaveMapRoom(s, m)
    /\ LeaveUserMapRoom(s, u, m)
    /\ mapid' = [mapid EXCEPT ![s] = NoMap]
    /\ emitted' = <<JuntoUpdated(connected), LostMapper(s, u, m)>>
    /\ UNCHANGED <<connected, userid, videoRoom, strays>>

\* JOIN_CALL: the payload is the client's data, whatever map the socket is on.
JoinCall(s, m) ==
    LET u == Owner[s] IN
    /\ s \in connected
    /\ junto' = ReduceJoinCall(junto, m, u)
    /\ emitted' = <<JuntoUpdated(connected),
                    Emit(mapRoom[m] \ {s}, "MAPPER_JOINED_CALL", u)>>
    /\ strays' = strays \cup (IF mapid[s] = m THEN {} ELSE {"call"})
    /\ UNCHANGED <<connected, mapid, userid, mapRoom, userMapRoom, videoRoom>>

\* LEAVE_CALL: the store is given the socket, the room is told the client's data.
LeaveCall(s, m) ==
    /\ s \in connected
    /\ junto' = ReduceLeaveCall(junto, mapid[s], userid[s])
    /\ emitted' = <<JuntoUpdated(connected),
                    Emit(mapRoom[m] \ {s}, "MAPPER_LEFT_CALL", Owner[s])>>
    /\ UNCHANGED <<connected, mapid, userid, mapRoom, userMapRoom, videoRoom, strays>>

-----------------------------------------------------------------------------
\* signal.js

\* Mutant of RemoveFeed: the room is not told.
RemoveFeed_Quietly(s) == <<>>

\* removeFeed(): tell the room, this socket included, then leave it.
RemoveFeed(s) ==
    IF videoRoom[s] = NoMap THEN <<>>
    ELSE <<Emit(VideoRoom(videoRoom[s]), "remove", s)>>

JoinVideoRoom(s, m) ==
    /\ s \in connected
    /\ m \in VideoMap
    /\ videoRoom' = [videoRoom EXCEPT ![s] = m]
    /\ emitted' = RemoveFeed(s)
    /\ UNCHANGED <<connected, mapid, userid, mapRoom, userMapRoom, junto, strays>>

LeaveVideoRoom(s) ==
    /\ s \in connected
    /\ videoRoom' = [videoRoom EXCEPT ![s] = NoMap]
    /\ emitted' = RemoveFeed(s)
    /\ UNCHANGED <<connected, mapid, userid, mapRoom, userMapRoom, junto, strays>>

-----------------------------------------------------------------------------
\* socket.io takes the socket out of all its rooms, then runs the 'disconnect'
\* callbacks: the store, removeFeed and leaveMap, with the fields it had.
Disconnect(s) ==
    LET m == mapid[s]
        u == userid[s] IN
    /\ s \in connected
    /\ connected' = connected \ {s}
    /\ junto' = ReduceDisconnect(junto, m, u)
    /\ mapRoom' = [k \in Map |-> mapRoom[k] \ {s}]
    /\ userMapRoom' = [v \in User |-> [k \in Map |-> userMapRoom[v][k] \ {s}]]
    /\ emitted' = <<JuntoUpdated(connected')>>
                  \o (IF videoRoom[s] = NoMap THEN <<>>
                      ELSE <<Emit(VideoRoom(videoRoom[s]) \ {s}, "remove", s)>>)
                  \o <<LostMapper(s, u, m)>>
    /\ mapid' = [mapid EXCEPT ![s] = NoMap]
    /\ userid' = [userid EXCEPT ![s] = NoUser]
    /\ videoRoom' = [videoRoom EXCEPT ![s] = NoMap]
    /\ UNCHANGED strays

\* The process dies and is started again: everything is in memory.
Restart ==
    /\ connected' = {}
    /\ mapid' = [s \in Socket |-> NoMap]
    /\ userid' = [s \in Socket |-> NoUser]
    /\ mapRoom' = [m \in Map |-> {}]
    /\ userMapRoom' = [u \in User |-> [m \in Map |-> {}]]
    /\ videoRoom' = [s \in Socket |-> NoMap]
    /\ junto' = EmptyStore
    /\ emitted' = <<>>
    /\ strays' = {}

-----------------------------------------------------------------------------
\* Events that only pass a message on, or answer one.

Relay(s, messages) ==
    /\ s \in connected
    /\ emitted' = messages
    /\ UNCHANGED <<serverVars, strays>>

SendMapperInfo(s, m, peer) ==
    Relay(s, <<Emit(userMapRoom[peer][m] \ {s}, "MAPPER_LIST_UPDATED", Owner[s])>>)

SendCoords(s, m) ==
    Relay(s, <<Emit(mapRoom[m] \ {s}, "PEER_COORDS_UPDATED", Owner[s])>>)

DragTopic(s, m) == Relay(s, <<Emit(mapRoom[m] \ {s}, "TOPIC_DRAGGED", NoUser)>>)

CheckForCall(s, m) ==
    Relay(s, IF VideoRoom(m) = {} THEN <<>>
             ELSE <<Emit({s}, "CALL_IN_PROGRESS", NoUser)>>)

InviteACall(s, m, peer) ==
    Relay(s, <<Emit(userMapRoom[peer][m] \ {s}, "INVITED_TO_CALL", Owner[s])>>)

InviteToJoin(s, m, peer) ==
    Relay(s, <<Emit(userMapRoom[peer][m] \ {s}, "INVITED_TO_JOIN", Owner[s])>>)

AcceptCall(s, m, peer) ==
    Relay(s, <<Emit(userMapRoom[peer][m] \ {s}, "CALL_ACCEPTED", Owner[s]),
               Emit(mapRoom[m] \ {s}, "CALL_STARTED", NoUser)>>)

DenyCall(s, m, peer) ==
    Relay(s, <<Emit(userMapRoom[peer][m] \ {s}, "CALL_DENIED", Owner[s])>>)

DenyInvite(s, m, peer) ==
    Relay(s, <<Emit(userMapRoom[peer][m] \ {s}, "INVITE_DENIED", Owner[s])>>)

-----------------------------------------------------------------------------
\* What a page that shows map m may send.  It normally is on m, but need not be:
\* see strays.
MapEvent(s, m) ==
    \/ JoinMap(s, m)
    \/ JoinCall(s, m)
    \/ LeaveCall(s, m)
    \/ JoinVideoRoom(s, m)
    \/ CheckForCall(s, m)

\* What only the controls of a map the socket has joined send.
RelayEvent(s, m) ==
    \/ SendCoords(s, m)
    \/ DragTopic(s, m)
    \/ \E peer \in User \ {Owner[s]} :
          \/ SendMapperInfo(s, m, peer)
          \/ InviteACall(s, m, peer)
          \/ InviteToJoin(s, m, peer)
          \/ AcceptCall(s, m, peer)
          \/ DenyCall(s, m, peer)
          \/ DenyInvite(s, m, peer)

SocketEvent(s) ==
    \/ Connect(s)
    \/ LeaveMap(s)
    \/ LeaveVideoRoom(s)
    \/ Disconnect(s)
    \/ \E m \in Opens[Owner[s]] : MapEvent(s, m)
    \/ mapid[s] # NoMap /\ RelayEvent(s, mapid[s])

Next == Restart \/ \E s \in Socket : SocketEvent(s)

Spec == Init /\ [][Next]_vars

-----------------------------------------------------------------------------
\* Properties.

\* Every user has at most one page open (and its old connection is gone before
\* the next one opens).
OneTab == \A s, t \in Socket : Owner[s] = Owner[t] => s = t

\* The types of the variables; a socket that is not connected is in no room and
\* has the fields of a fresh socket object.
TypeOK ==
    /\ connected \subseteq Socket
    /\ mapid \in [Socket -> MapKey]
    /\ userid \in [Socket -> UserKey]
    /\ mapRoom \in [Map -> SUBSET Socket]
    /\ userMapRoom \in [User -> [Map -> SUBSET Socket]]
    /\ videoRoom \in [Socket -> MapKey]
    /\ junto \in Store
    /\ emitted \in Seq(Emission)
    /\ strays \subseteq {"join", "call"}

\* A socket that is on a map hears what is sent to that map and to its user on
\* that map, and rooms hold connected sockets only (signal.js describeRoom and
\* every broadcast look their members up in the table of connected sockets).
RoomsFollowSockets ==
    /\ \A s \in connected : mapid[s] # NoMap =>
          /\ userid[s] = Owner[s]
          /\ s \in mapRoom[mapid[s]]
          /\ s \in userMapRoom[userid[s]][mapid[s]]
    /\ \A m \in Map : mapRoom[m] \subseteq connected
    /\ \A m \in Map, u \in User : userMapRoom[u][m] \subseteq {s \in mapRoom[m] : Owner[s] = u}
    /\ \A s \in Socket \ connected : mapid[s] = NoMap /\ videoRoom[s] = NoMap

\* Whoever hears a map's broadcasts is on the list of people other pages show
\* for that map, whatever order pages join and leave maps in.
AudienceIsListed ==
    \A m \in Map : \A s \in mapRoom[m] : Owner[s] \in PeopleOn(junto, m)

\* connectedPeople is the directory of exactly the users some map lists: a map
\* card looks every listed user up in it (MapCard.js mapperList) and fails when
\* there is none.  Needs calls to be joined from the map the socket is on.
DirectoryMatchesLists ==
    "call" \notin strays =>
        junto.connectedPeople = {u \in User : \E m \in Map : u \in PeopleOn(junto, m)}

\* When pages leave a map before they join the next one, a map is live exactly
\* when some socket is on it, and it lists exactly the users of those sockets.
StoreIsExact ==
    strays = {} =>
        \A m \in Map :
            LET here == {Owner[s] : s \in {t \in connected : mapid[t] = m}}
            IN  /\ PeopleOn(junto, m) = here
                /\ m \in DOMAIN junto.liveMaps <=> here # {}

\* Whatever the number of tabs, the store may forget somebody but never invents
\* presence: a listed user has a socket on that map, and a user in the directory
\* has a socket on some map.
NoPhantoms ==
    strays = {} =>
        /\ \A m \in Map : \A u \in PeopleOn(junto, m) :
              \E s \in connected : mapid[s] = m /\ userid[s] = u
        /\ \A u \in junto.connectedPeople :
              \E s \in connected : mapid[s] # NoMap /\ userid[s] = u

\* A user goes off a map's list only in a step that tells everyone still in the
\* map's room that this user was lost.
NobodyVanishesSilently ==
    [][\A m \in Map : \A u \in PeopleOn(junto, m) \ PeopleOn(junto', m) :
          \/ connected' = {}
          \/ \E i \in DOMAIN emitted' :
                /\ emitted'[i].type = "LOST_MAPPER"
                /\ emitted'[i].about = u
                /\ mapRoom'[m] \subseteq emitted'[i].to]_vars

\* A feed leaves a video room (a leave, a join of another room, a lost connection)
\* only in a step that tells everyone still in the room to remove that feed.
VideoPeersAreTold ==
    [][\A s \in connected :
          videoRoom[s] # NoMap /\ videoRoom'[s] # videoRoom[s] =>
              \/ connected' = {}
              \/ \E i \in DOMAIN emitted' :
                    /\ emitted'[i].type = "remove"
                    /\ emitted'[i].about = s
                    /\ {t \in connected' : videoRoom'[t] = videoRoom[s]} \subseteq emitted'[i].to]_vars

\* reducer.js:45 "if the map will empty, remove it from liveMaps, if the map will
\* not empty, just remove the mapper": a map's entry goes away only when the user
\* who leaves is the only one listed.
MapRemovedOnlyWhenItEmpties ==
    [][\A m \in DOMAIN junto.liveMaps \cap Map :
          m \notin DOMAIN junto'.liveMaps =>
              \/ connected' = {}
              \/ \E s \in connected : mapid[s] = m /\ PeopleOn(junto, m) = {userid[s]}
                                       /\ mapid'[s] # m]_vars

\* The store, read as who is on and who is talking on each map, behaves as the
\* specification Presence: no event touches the presence of two users at once.
Listing == INSTANCE Presence WITH
    on <- [m \in Map |-> PeopleOn(junto, m)],
    talking <- [m \in Map |-> TalkingOn(junto, m)]

StoreKeepsPresence == Listing!Spec
=============================================================================
