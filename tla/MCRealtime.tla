------------------------------ MODULE MCRealtime ------------------------------
(***************************************************************************)
(* Instances of Realtime for TLC.                                          *)
(***************************************************************************)
EXTENDS Realtime

CONSTANTS u1, u2, m1, m2, s1, s2, s3

\* User u1 may lose its connection and make another, user u2 keeps s3.
OwnerOf == [s \in Socket |-> IF s = s3 THEN u2 ELSE u1]

\* User u1 goes about, user u2 stays on m1.
OpenedMaps == [u \in User |-> IF u = u1 THEN Map ELSE {m1}]

\* Bounds.
None == [u \in User |-> 0]
OneForFirst == [u \in User |-> IF u = u1 THEN 1 ELSE 0]
TwoForFirst == [u \in User |-> IF u = u1 THEN 2 ELSE 0]
TwoAndOne == [u \in User |-> IF u = u1 THEN 2 ELSE 1]

\* Both pages are opened on m1.
OnMap1 == Init /\ mapId = [u \in User |-> m1]

SpecOnMap == OnMap1 /\ [][Next]_vars

\* ... and the page of u2 has connected, loaded and joined its map, before u1's does
\* anything: a state Spec reaches.
Joined ==
    /\ connected = {s3}
    /\ mapid = [s \in Socket |-> IF s = s3 THEN m1 ELSE NoMap]
    /\ userid = [s \in Socket |-> IF s = s3 THEN u2 ELSE NoUser]
    /\ mapRoom = [m \in Map |-> IF m = m1 THEN {s3} ELSE {}]
    /\ userMapRoom = [u \in User |-> [m \in Map |-> IF u = u2 THEN mapRoom[m] ELSE {}]]
    /\ videoRoom = [s \in Socket |-> NoMap]
    /\ junto = Server!ReduceJoinMap(Server!EmptyStore, m1, u2)
    /\ emitted = <<>>
    /\ strays = {}
    /\ mapId = [u \in User |-> m1]
    /\ activeMap = mapId
    /\ loading = [u \in User |-> [m \in Map |-> IF u = u1 /\ m = m1 THEN 1 ELSE 0]]
    /\ chat = [u \in User |-> u = u2]
    /\ participants = [u \in User |-> {}]
    /\ mappersOnMap = [u \in User |-> [v \in {} |-> FALSE]]
    /\ inConversation = [u \in User |-> FALSE]
    /\ live = inConversation
    /\ participating = inConversation
    /\ waiting = inConversation
    /\ toast = [u \in User |-> {}]
    /\ link = [u \in User |-> IF u = u2 THEN s3 ELSE NoSocket]
    /\ sendBuffer = [u \in User |-> <<>>]
    /\ toServer = [s \in Socket |-> <<>>]
    /\ toClient = [s \in Socket |-> <<>>]
    /\ incidents = {}
    /\ moves = [u \in User |-> 0]
    /\ losses = moves
    /\ clicks = moves

SpecJoined == Joined /\ [][Next]_vars

\* The messages of the last event have been delivered: they tell no states apart.
View == <<connected, mapid, userid, mapRoom, userMapRoom, junto, strays, pageVars, peopleVars,
          callVars, netVars, incidents, clicks>>
=============================================================================
