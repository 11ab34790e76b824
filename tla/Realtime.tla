------------------------------- MODULE Realtime -------------------------------
(***************************************************************************)
(* The pages of the users (frontend/src/Metamaps/Realtime, Map.launch and  *)
(* Map.end, the router) together with the realtime server they talk to:    *)
(* module RealtimeServer, whose actions are taken here by the messages     *)
(* that arrive.                                                            *)
(*                                                                         *)
(* Every page belongs to a user who may edit the maps it shows.  A page    *)
(* has at most one live connection; a connection is a pair of FIFO         *)
(* channels, lost as a whole, and the server notices a loss later than     *)
(* the page.  A browser runs one callback at a time, so each is one action;*)
(* what a throw in the middle of one leaves undone is left undone here.    *)
(*                                                                         *)
(* Left out: cursors, topic drags, CHECK_FOR_CALL and the video room (see  *)
(* RealtimeServer), refusals of an invitation, sounds and drawing.         *)
(***************************************************************************)
EXTENDS Naturals, Sequences, FiniteSets, SequencesExt

CONSTANTS
    User, Map, NoUser, NoMap, Socket, Owner, Opens,   \* see RealtimeServer
    NoSocket,    \* a page that is not connected
    MaxMoves,    \* bound: navigations of each user's page
    MaxLosses,   \* bound: connections lost by each page
    MaxClicks    \* bound: uses of the call controls of each page

ASSUME KeyAssumption == NoUser \notin User /\ NoMap \notin Map
ASSUME PageAssumption == Owner \in [Socket -> User] /\ Opens \in [User -> SUBSET Map]
ASSUME NoSocketAssumption == NoSocket \notin Socket
ASSUME BoundsAssumption == {MaxMoves, MaxLosses, MaxClicks} \subseteq [User -> Nat]

VARIABLES
    connected, mapid, userid, mapRoom, userMapRoom, videoRoom, junto, emitted,
    strays,          \* the server's, see RealtimeServer
    mapId,           \* ReactApp.mapId: the map in the address bar
    activeMap,       \* Active.Map
    loading,         \* loading[u][m]: answers of /maps/m/contains.json to come
    chat,            \* setupChat has run: before that ChatView has no participants
    participants,    \* the other users in ChatView.participants
    mappersOnMap,    \* Realtime.mappersOnMap: user |-> inConversation
    inConversation,  \* Realtime.inConversation
    live,            \* ChatView.conversationLive
    participating,   \* ChatView.isParticipating
    waiting,         \* a readyToCall callback waits for the camera
    toast,           \* callbacks bound to the buttons of the toast on screen
    link,            \* the page's connection
    sendBuffer,      \* what the socket.io client holds while disconnected
    toServer,        \* messages on their way, per connection
    toClient,
    incidents,       \* history: what happened that breaks the usual order
    moves, losses, clicks

Server == INSTANCE RealtimeServer WITH VideoMap <- {}

serverVars == <<connected, mapid, userid, mapRoom, userMapRoom, videoRoom, junto>>
pageVars == <<mapId, activeMap, loading, moves>>
peopleVars == <<chat, participants, mappersOnMap>>
callVars == <<inConversation, live, participating, waiting, toast>>
netVars == <<link, sendBuffer, toServer, toClient, losses>>
vars == <<serverVars, emitted, strays, pageVars, peopleVars, callVars, netVars, incidents, clicks>>

-----------------------------------------------------------------------------
\* Messages of the pages.  `peer' is the user a message is for, NoUser if none;
\* `talking' is userinconversation, FALSE where there is no such field.

Say(type, m, peer, talking) ==
    [type |-> type, map |-> m, peer |-> peer, talking |-> talking]

JoinMapMessage(m) == Say("JOIN_MAP", m, NoUser, FALSE)
LeaveMapMessage == Say("LEAVE_MAP", NoMap, NoUser, FALSE)
JoinCallMessage(m) == Say("JOIN_CALL", m, NoUser, FALSE)
LeaveCallMessage(m) == Say("LEAVE_CALL", m, NoUser, FALSE)

\* socket.emit: sent, or held back until the next connection.
Send(u, messages) ==
    IF link[u] = NoSocket
    THEN /\ sendBuffer' = [sendBuffer EXCEPT ![u] = @ \o messages]
         /\ UNCHANGED toServer
    ELSE /\ toServer' = [toServer EXCEPT ![link[u]] = @ \o messages]
         /\ UNCHANGED sendBuffer

NothingFromServer == emitted' = <<>> /\ UNCHANGED <<serverVars, strays>>

-----------------------------------------------------------------------------
\* A page is opened on no map or straight on one; the latter has Active.Map from
\* the server's page before the router asks for the map again.
Init ==
    /\ Server!Init
    /\ mapId \in [User -> Map \cup {NoMap}]
    /\ \A u \in User : mapId[u] \in Opens[u] \cup {NoMap}
    /\ activeMap = mapId
    /\ loading = [u \in User |-> [m \in Map |-> IF m = mapId[u] THEN 1 ELSE 0]]
    /\ chat = [u \in User |-> FALSE]
    /\ participants = [u \in User |-> {}]
    /\ mappersOnMap = [u \in User |-> [v \in {} |-> FALSE]]
    /\ inConversation = [u \in User |-> FALSE]
    /\ live = [u \in User |-> FALSE]
    /\ participating = [u \in User |-> FALSE]
    /\ waiting = [u \in User |-> FALSE]
    /\ toast = [u \in User |-> {}]
    /\ link = [u \in User |-> NoSocket]
    /\ sendBuffer = [u \in User |-> <<>>]
    /\ toServer = [s \in Socket |-> <<>>]
    /\ toClient = [s \in Socket |-> <<>>]
    /\ incidents = {}
    /\ moves = [u \in User |-> 0]
    /\ losses = [u \in User |-> 0]
    /\ clicks = [u \in User |-> 0]

-----------------------------------------------------------------------------
\* The connection.

\* The page has joined other maps than m while it was not connected.
JoinsOther(messages, m) ==
    \E i \in DOMAIN messages : messages[i].type = "JOIN_MAP" /\ messages[i].map # m

\* ... and the call of another map than m.
CallsOther(messages, m) ==
    \E i \in DOMAIN messages : messages[i].type = "JOIN_CALL" /\ messages[i].map # m

\* Mutant of Rejoin: the page relies on having joined before.
Rejoin_Never(u) == <<>>

\* What the 'connect' handler sends.
Rejoin(u) == IF activeMap[u] = NoMap THEN <<>> ELSE <<JoinMapMessage(activeMap[u])>>

\* socket.on('connect'): joins Active.Map again, then socket.io sends what it held.
Connect(u) ==
    /\ link[u] = NoSocket
    /\ \E s \in Socket \ connected :
          /\ Owner[s] = u
          /\ Server!Connect(s)
          /\ link' = [link EXCEPT ![u] = s]
          /\ toServer' = [toServer EXCEPT ![s] = Rejoin(u) \o sendBuffer[u]]
    /\ sendBuffer' = [sendBuffer EXCEPT ![u] = <<>>]
    /\ incidents' = incidents
          \cup (IF activeMap[u] \in {NoMap, mapId[u]} THEN {} ELSE {"rejoined"})
          \cup (IF activeMap[u] # NoMap /\ JoinsOther(sendBuffer[u], activeMap[u])
                THEN {"replayed"} ELSE {})
          \cup (IF CallsOther(sendBuffer[u], activeMap[u]) THEN {"recalled"} ELSE {})
    /\ UNCHANGED <<pageVars, peopleVars, callVars, toClient, losses, clicks>>

\* The connection breaks: some of what the page sent last never arrives, nor
\* does anything the server sent.
Lose(u) ==
    LET s == link[u] IN
    /\ s # NoSocket
    /\ losses[u] < MaxLosses[u]
    /\ losses' = [losses EXCEPT ![u] = @ + 1]
    /\ link' = [link EXCEPT ![u] = NoSocket]
    /\ \E n \in 0..Len(toServer[s]) :
          toServer' = [toServer EXCEPT ![s] = SubSeq(@, 1, n)]
    /\ toClient' = [toClient EXCEPT ![s] = <<>>]
    /\ NothingFromServer
    /\ UNCHANGED <<pageVars, peopleVars, callVars, sendBuffer, incidents, clicks>>

\* What a client is told about: the store itself and the feeds are left out.
Told == Server!MessageType \ {"JUNTO_UPDATED", "remove"}

\* The messages of one event for socket t, in order.
For(t, messages, talking) ==
    FlattenSeq([i \in DOMAIN messages |->
        LET e == messages[i] IN
        IF t \in e.to /\ e.type \in Told
        THEN <<[type |-> e.type, about |-> e.about, talking |-> talking]>> ELSE <<>>])

\* Written to every live connection it is for.
Deliver(talking) ==
    toClient' = [t \in Socket |->
        IF link[Owner[t]] = t THEN toClient[t] \o For(t, emitted', talking) ELSE toClient[t]]

\* The page is back on its map before the server has found its old connection dead.
Doubled(s, mapids) ==
    \E t \in connected \ {s} : /\ Owner[t] = Owner[s]
                                /\ mapids[t] = mapids[s]
                                /\ mapids[s] # NoMap

\* The server takes the next message of connection s.
Handle(s) ==
    /\ toServer[s] # <<>>
    /\ LET e == Head(toServer[s]) IN
          /\ \/ e.type = "JOIN_MAP" /\ Server!JoinMap(s, e.map)
             \/ e.type = "LEAVE_MAP" /\ Server!LeaveMap(s)
             \/ e.type = "JOIN_CALL" /\ Server!JoinCall(s, e.map)
             \/ e.type = "LEAVE_CALL" /\ Server!LeaveCall(s, e.map)
             \/ e.type = "SEND_MAPPER_INFO" /\ Server!SendMapperInfo(s, e.map, e.peer)
             \/ e.type = "INVITE_A_CALL" /\ Server!InviteACall(s, e.map, e.peer)
             \/ e.type = "INVITE_TO_JOIN" /\ Server!InviteToJoin(s, e.map, e.peer)
             \/ e.type = "ACCEPT_CALL" /\ Server!AcceptCall(s, e.map, e.peer)
          /\ Deliver(e.talking)
    /\ toServer' = [toServer EXCEPT ![s] = Tail(@)]
    /\ incidents' = incidents \cup (IF Doubled(s, mapid') THEN {"doubled"} ELSE {})
    /\ UNCHANGED <<pageVars, peopleVars, callVars, link, sendBuffer, losses, clicks>>

\* Mutant of Dead: a live connection may be given up, and the page never knows.
Dead_OrSlow(s) == toServer[s] = <<>>

Dead(s) == link[Owner[s]] # s /\ toServer[s] = <<>>

\* The server finds connection s dead, after reading all that came through.
Disconnect(s) ==
    /\ Dead(s)
    /\ Server!Disconnect(s)
    /\ Deliver(FALSE)
    /\ UNCHANGED <<pageVars, peopleVars, callVars, link, sendBuffer, toServer, losses,
                   incidents, clicks>>

-----------------------------------------------------------------------------
\* Moving about.

\* countOthersInConversation, for a mappersOnMap.
CountOthers(mappers) == Cardinality({v \in DOMAIN mappers : mappers[v]})

\* Map.end does something only while a map is shown and Active.Map is there.
Ends(u) == mapId[u] # NoMap /\ activeMap[u] # NoMap

LeavesCall(u) == Ends(u) /\ inConversation[u]

\* Mutant of Farewell: the call is left, the map is not.
Farewell_StaysOnMap(u) == IF LeavesCall(u) THEN <<LeaveCallMessage(activeMap[u])>> ELSE <<>>

\* What endActiveMap sends.
Farewell(u) == (IF LeavesCall(u) THEN <<LeaveCallMessage(activeMap[u])>> ELSE <<>>)
               \o (IF Ends(u) THEN <<LeaveMapMessage>> ELSE <<>>)

\* The router goes to map m, or to a page with no map.  Realtime.endActiveMap
\* leaves the call and the map; Active.Map stays until the next map has loaded.
\* (Left out: a page in a call before its chat is set up, which throws here.)
Navigate(u, m) ==
    /\ LeavesCall(u) => chat[u]
    /\ moves[u] < MaxMoves[u]
    /\ m # mapId[u] \/ (m = NoMap /\ activeMap[u] # NoMap)
    /\ moves' = [moves EXCEPT ![u] = @ + 1]
    /\ mapId' = [mapId EXCEPT ![u] = m]
    /\ activeMap' = [activeMap EXCEPT ![u] = IF m = NoMap THEN NoMap ELSE @]
    /\ loading' = IF m = NoMap THEN loading ELSE [loading EXCEPT ![u][m] = @ + 1]
    /\ Send(u, Farewell(u))
    /\ inConversation' = [inConversation EXCEPT ![u] = @ /\ ~LeavesCall(u)]
    /\ participating' = [participating EXCEPT ![u] = @ /\ ~LeavesCall(u)]
    /\ live' = [live EXCEPT ![u] =
                   @ /\ ~(LeavesCall(u) /\ CountOthers(mappersOnMap[u]) = 1)]
    /\ NothingFromServer
    /\ UNCHANGED <<peopleVars, waiting, toast, link, toClient, losses, incidents, clicks>>

\* Mutant of Greeting: the map is shown, but not joined.
Greeting_None(m) == <<>>

\* What startActiveMap sends.
Greeting(m) == <<JoinMapMessage(m)>>

\* Messages about the map the page came from may still be on their way to it.
Leaving(u) ==
    \/ LeaveMapMessage \in ToSet(sendBuffer[u])
    \/ link[u] # NoSocket /\ (toClient[link[u]] # <<>> \/ LeaveMapMessage \in ToSet(toServer[link[u]]))

\* The answer of contains.json for map m, wherever the page is by now: Active.Map,
\* then Realtime.startActiveMap.  mappersOnMap keeps what it has.
Loaded(u, m) ==
    /\ loading[u][m] > 0
    /\ loading' = [loading EXCEPT ![u][m] = @ - 1]
    /\ activeMap' = [activeMap EXCEPT ![u] = m]
    /\ chat' = [chat EXCEPT ![u] = TRUE]
    /\ participants' = [participants EXCEPT ![u] = {}]
    /\ live' = [live EXCEPT ![u] = FALSE]
    /\ participating' = [participating EXCEPT ![u] = FALSE]
    /\ Send(u, Greeting(m))
    /\ incidents' = incidents \cup (IF m = mapId[u] THEN {} ELSE {"late"})
                             \cup (IF Leaving(u) THEN {"hasty"} ELSE {})
    /\ NothingFromServer
    /\ UNCHANGED <<mapId, moves, mappersOnMap, inConversation, waiting, toast, link, toClient,
                   losses, clicks>>

-----------------------------------------------------------------------------
\* The conversation.

\* callEnded: nothing is sent.
CallEnds(u, ends) ==
    /\ inConversation' = [inConversation EXCEPT ![u] = @ /\ ~ends]
    /\ live' = [live EXCEPT ![u] = @ /\ ~ends]
    /\ participating' = [participating EXCEPT ![u] = @ /\ ~ends]
    /\ UNCHANGED <<waiting, toast>>

\* The test of lostMapper and mapperLeftCall, with the mappersOnMap they leave.
LastOneTalks(u, mappers) ==
    CountOthers(mappers) = IF inConversation[u] THEN 0 ELSE 1

\* Every 'connect' subscribes again to every message (subscribeToEvents): a callback
\* runs once for each connection the page has had.
Handlers(u) == losses[u] + 1

Repeat(messages, times) == FlattenSeq([i \in 1..times |-> messages])

\* joinCall, run a number of times in a row.  Without an Active.Map it throws once
\* inConversation is set.
StartTalking(u, times) ==
    /\ inConversation' = [inConversation EXCEPT ![u] = TRUE]
    /\ UNCHANGED <<live, participating>>
    /\ IF activeMap[u] = NoMap
       THEN UNCHANGED <<waiting, toast, sendBuffer, toServer>>
       ELSE /\ Send(u, Repeat(<<JoinCallMessage(activeMap[u])>>, times))
            /\ waiting' = [waiting EXCEPT ![u] = TRUE]
            /\ toast' = [toast EXCEPT ![u] = {}]

\* Bound when a message about user `whom' arrives, by each of its handlers.
Callback(u, does, whom) == [does |-> does, whom |-> whom, times |-> Handlers(u)]

\* notifyUser with a question: shown at once or queued behind another toast.  The
\* callback is bound, in either case, to the buttons on screen, if there are any.
Ask(u, callback) ==
    \/ UNCHANGED toast
    \/ clicks[u] < MaxClicks[u] /\ toast' = [toast EXCEPT ![u] = @ \cup {callback}]

\* The page shows the map it is for, and no other is about to replace it.
OnMap(u) ==
    /\ activeMap[u] # NoMap
    /\ activeMap[u] = mapId[u]
    /\ \A m \in Map : loading[u][m] = 0

\* The page uses a control of the map it shows.
Click(u) ==
    /\ clicks[u] < MaxClicks[u]
    /\ clicks' = [clicks EXCEPT ![u] = @ + 1]
    /\ NothingFromServer
    /\ incidents' = incidents
          \cup (IF OnMap(u) THEN {} ELSE {"early"})
    /\ UNCHANGED <<pageVars, peopleVars, link, toClient, losses>>

InviteMessage(type, u, v) == Say(type, activeMap[u], v, FALSE)

\* The buttons beside a participant.  Whether an invitation is pending, and whether
\* the participant is shown as talking, is left out.
Invite(u, v) ==
    /\ Click(u)
    /\ activeMap[u] # NoMap
    /\ v \in participants[u]
    /\ \/ /\ ~live[u]
          /\ Send(u, <<InviteMessage("INVITE_A_CALL", u, v)>>)
          /\ toast' = [toast EXCEPT ![u] = {}]
       \/ /\ participating[u]
          /\ Send(u, <<InviteMessage("INVITE_TO_JOIN", u, v)>>)
          /\ UNCHANGED toast
    /\ UNCHANGED <<inConversation, live, participating, waiting>>

\* JOIN in the chat, while a conversation is on.
JoinButton(u) ==
    /\ Click(u)
    /\ activeMap[u] # NoMap /\ live[u] /\ ~participating[u]
    /\ StartTalking(u, 1)

\* LEAVE in the chat: leaveCall, which throws once the message is sent when the chat
\* is not set up.
LeaveButton(u) ==
    /\ Click(u)
    /\ activeMap[u] # NoMap /\ live[u] /\ participating[u]
    /\ Send(u, <<LeaveCallMessage(activeMap[u])>>)
    /\ inConversation' = [inConversation EXCEPT ![u] = @ /\ ~chat[u]]
    /\ participating' = [participating EXCEPT ![u] = ~chat[u]]
    /\ live' = [live EXCEPT ![u] = ~(chat[u] /\ CountOthers(mappersOnMap[u]) = 1)]
    /\ UNCHANGED <<waiting, toast>>

\* What callback c of the Yes button sends: acceptCall, joinCall or inviteACall.
Answer(u, c) ==
    LET joins == <<JoinCallMessage(activeMap[u])>>
    IN  Repeat(CASE c.does = "accept" -> <<InviteMessage("ACCEPT_CALL", u, c.whom)>> \o joins
                 [] c.does = "join"   -> joins
                 [] c.does = "invite" -> <<InviteMessage("INVITE_A_CALL", u, c.whom)>>,
               c.times)

\* What the callbacks in T send, one after the other.
AnswerAll(u, T) ==
    LET callbacks == SetToSeq(T)
    IN  FlattenSeq([i \in DOMAIN callbacks |-> Answer(u, callbacks[i])])

\* Yes: every callback bound to the button runs.  Without an Active.Map the first
\* one throws, which leaves a trace only in joinCall.
AnswerYes(u) ==
    LET talks == \E c \in toast[u] : c.does # "invite"
    IN  /\ Click(u)
        /\ toast[u] # {}
        /\ UNCHANGED <<live, participating>>
        /\ \/ /\ activeMap[u] # NoMap
              /\ Send(u, AnswerAll(u, toast[u]))
              /\ inConversation' = [inConversation EXCEPT ![u] = @ \/ talks]
              /\ waiting' = [waiting EXCEPT ![u] = @ \/ talks]
              /\ toast' = [toast EXCEPT ![u] = {}]
           \/ /\ activeMap[u] = NoMap
              /\ \E c \in toast[u] :
                    inConversation' = [inConversation EXCEPT ![u] = @ \/ c.does = "join"]
              /\ UNCHANGED <<waiting, toast, sendBuffer, toServer>>

\* No, when newMapper has bound its invitation to every button of the toast.
AnswerNo(u) ==
    LET invites == {c \in toast[u] : c.does = "invite"}
    IN  /\ Click(u)
        /\ activeMap[u] # NoMap
        /\ invites # {}
        /\ Send(u, AnswerAll(u, invites))
        /\ toast' = [toast EXCEPT ![u] = {}]
        /\ UNCHANGED <<inConversation, live, participating, waiting>>

\* No to a question that is all there is to it, or the timer of the toast.
Dismiss(u) ==
    /\ toast[u] # {}
    /\ toast' = [toast EXCEPT ![u] = {}]
    /\ NothingFromServer
    /\ UNCHANGED <<pageVars, peopleVars, inConversation, live, participating, waiting, netVars,
                   incidents, clicks>>

\* The readyToCall callback of joinCall, however long the user thinks about it.
CameraReady(u) ==
    /\ waiting[u]
    /\ waiting' = [waiting EXCEPT ![u] = FALSE]
    /\ live' = [live EXCEPT ![u] = TRUE]
    /\ participating' = [participating EXCEPT ![u] = TRUE]
    /\ NothingFromServer
    /\ UNCHANGED <<pageVars, peopleVars, inConversation, toast, netVars, incidents, clicks>>

-----------------------------------------------------------------------------
\* What the page of u does with a message about user v (Realtime/receivable.js).

Knows(u, mappers) == mappersOnMap' = [mappersOnMap EXCEPT ![u] = mappers]

\* addParticipant, which throws when the chat is not set up.
AddParticipant(u, v) ==
    participants' = [participants EXCEPT ![u] = IF chat[u] /\ v # u THEN @ \cup {v} ELSE @]

\* Mutant of Details: the page does not answer.
Details_None(u, v) == <<>>

\* sendMapperInfo, by each handler; it throws without an Active.Map.
Details(u, v) ==
    IF activeMap[u] = NoMap THEN <<>>
    ELSE Repeat(<<Say("SEND_MAPPER_INFO", activeMap[u], v, inConversation[u])>>, Handlers(u))

\* Answers with its own details, but throws first when the chat is not set up or
\* there is no Active.Map.
NewMapper(u, v) ==
    /\ Knows(u, Server!Assign(mappersOnMap[u], v, FALSE))
    /\ AddParticipant(u, v)
    /\ IF v # u /\ chat[u]
       THEN /\ Ask(u, Callback(u, "invite", v))
            /\ Send(u, Details(u, v))
       ELSE UNCHANGED <<toast, sendBuffer, toServer>>
    /\ UNCHANGED <<inConversation, live, participating, waiting>>

\* Throws before the test of the call when the chat is not set up.
LostMapper(u, v) ==
    LET others == Server!Omit(mappersOnMap[u], v) IN
    /\ Knows(u, others)
    /\ participants' = [participants EXCEPT ![u] = @ \ {v}]
    /\ CallEnds(u, chat[u] /\ LastOneTalks(u, others))
    /\ UNCHANGED <<sendBuffer, toServer>>

MapperListUpdated(u, v, talking) ==
    /\ Knows(u, Server!Assign(mappersOnMap[u], v, talking))
    /\ AddParticipant(u, v)
    /\ UNCHANGED <<callVars, sendBuffer, toServer>>

\* Mutant of MapperJoinedCall: a page in the call shows a note instead.
MapperJoinedCall_OrNotified(u, v) ==
    /\ v \in DOMAIN mappersOnMap[u]
    /\ Knows(u, IF inConversation[u] THEN mappersOnMap[u]
                ELSE Server!Assign(mappersOnMap[u], v, TRUE))
    /\ UNCHANGED <<participants, callVars, sendBuffer, toServer>>

MapperJoinedCall(u, v) ==
    /\ v \in DOMAIN mappersOnMap[u]
    /\ Knows(u, Server!Assign(mappersOnMap[u], v, TRUE))
    /\ UNCHANGED <<participants, callVars, sendBuffer, toServer>>

\* Mutant of MapperLeftCall: it does not look whether anybody is left in the call.
MapperLeftCall_GoesOn(u, v) ==
    /\ v \in DOMAIN mappersOnMap[u]
    /\ Knows(u, Server!Assign(mappersOnMap[u], v, FALSE))
    /\ UNCHANGED <<participants, callVars, sendBuffer, toServer>>

\* Throws before the test of the call when the chat is not set up.
MapperLeftCall(u, v) ==
    LET mappers == Server!Assign(mappersOnMap[u], v, FALSE) IN
    /\ v \in DOMAIN mappersOnMap[u]
    /\ Knows(u, mappers)
    /\ CallEnds(u, chat[u] /\ LastOneTalks(u, mappers))
    /\ UNCHANGED <<participants, sendBuffer, toServer>>

\* invitedToCall and invitedToJoin.
Invited(u, v, does) ==
    /\ v \in DOMAIN mappersOnMap[u]
    /\ Ask(u, Callback(u, does, v))
    /\ UNCHANGED <<mappersOnMap, participants, inConversation, live, participating, waiting,
                   sendBuffer, toServer>>

CallAccepted(u) ==
    /\ StartTalking(u, Handlers(u))
    /\ UNCHANGED <<mappersOnMap, participants>>

\* conversationInProgress() makes isParticipating undefined.
CallStarted(u) ==
    /\ ~inConversation[u]
    /\ Ask(u, Callback(u, "join", NoUser))
    /\ live' = [live EXCEPT ![u] = TRUE]
    /\ participating' = [participating EXCEPT ![u] = FALSE]
    /\ UNCHANGED <<mappersOnMap, participants, inConversation, waiting, sendBuffer, toServer>>

\* Messages about users the page has not heard of, and a call that starts while it is
\* in one: nothing changes (some of these callbacks throw).
Ignored(u, e) ==
    /\ \/ /\ e.type \in {"MAPPER_JOINED_CALL", "MAPPER_LEFT_CALL", "INVITED_TO_CALL",
                         "INVITED_TO_JOIN"}
          /\ e.about \notin DOMAIN mappersOnMap[u]
       \/ e.type = "CALL_STARTED" /\ inConversation[u]
    /\ UNCHANGED <<mappersOnMap, participants, callVars, sendBuffer, toServer>>

\* A page with its chat set up and an Active.Map sends its details to newcomers,
\* even on its way to another map.
Answers(u) == chat[u] /\ activeMap[u] # NoMap

\* The page takes the next message of its connection.  All the callbacks but those
\* that send or bind something do the same when run again.
Receive(u) ==
    LET s == link[u] IN
    /\ s # NoSocket
    /\ toClient[s] # <<>>
    /\ LET e == Head(toClient[s]) IN
          \/ e.type = "NEW_MAPPER" /\ NewMapper(u, e.about)
          \/ e.type = "LOST_MAPPER" /\ LostMapper(u, e.about)
          \/ e.type = "MAPPER_LIST_UPDATED" /\ MapperListUpdated(u, e.about, e.talking)
          \/ e.type = "MAPPER_JOINED_CALL" /\ MapperJoinedCall(u, e.about)
          \/ e.type = "MAPPER_LEFT_CALL" /\ MapperLeftCall(u, e.about)
          \/ e.type = "INVITED_TO_CALL" /\ Invited(u, e.about, "accept")
          \/ e.type = "INVITED_TO_JOIN" /\ Invited(u, e.about, "join")
          \/ e.type = "CALL_ACCEPTED" /\ CallAccepted(u)
          \/ e.type = "CALL_STARTED" /\ CallStarted(u)
          \/ Ignored(u, e)
    /\ toClient' = [toClient EXCEPT ![s] = Tail(@)]
    /\ incidents' = incidents
          \cup (IF Head(toClient[s]).type = "NEW_MAPPER" /\ Answers(u) /\ ~OnMap(u)
                THEN {"crossed"} ELSE {})
          \cup (IF Head(toClient[s]).type = "CALL_ACCEPTED" /\ ~OnMap(u)
                THEN {"early"} ELSE {})
    /\ NothingFromServer
    /\ UNCHANGED <<pageVars, chat, link, losses, clicks>>

-----------------------------------------------------------------------------
PageEvent(u) ==
    \/ Connect(u)
    \/ Lose(u)
    \/ \E m \in Opens[u] \cup {NoMap} : Navigate(u, m)
    \/ \E m \in Map : Loaded(u, m)
    \/ \E v \in User : Invite(u, v)
    \/ JoinButton(u)
    \/ LeaveButton(u)
    \/ AnswerYes(u)
    \/ AnswerNo(u)
    \/ Dismiss(u)
    \/ CameraReady(u)
    \/ Receive(u)

Next ==
    \/ \E u \in User : PageEvent(u)
    \/ \E s \in Socket : Handle(s) \/ Disconnect(s)

Spec == Init /\ [][Next]_vars

\* Messages arrive, answers come, lost connections are found and made again.  Nothing
\* is assumed of the users.
Delivery ==
    /\ \A u \in User :
          /\ WF_vars(Connect(u))
          /\ WF_vars(Receive(u))
          /\ \A m \in Map : WF_vars(Loaded(u, m))
    /\ \A s \in Socket : WF_vars(Handle(s)) /\ WF_vars(Disconnect(s))

FairSpec == Spec /\ Delivery

-----------------------------------------------------------------------------
\* Properties.

\* Nothing is on its way, and the server knows of no connection but the pages' own.
Quiet ==
    /\ \A u \in User : /\ link[u] # NoSocket
                       /\ \A m \in Map : loading[u][m] = 0
    /\ \A s \in Socket : toServer[s] = <<>> /\ toClient[s] = <<>>
    /\ connected = {link[u] : u \in User}

Showing(m) == {u \in User : activeMap[u] = m}

\* Connections and answers that come while the page moves on, or too late.
Disorder == {"rejoined", "replayed", "late"}

\* Calls joined of a map the connection is not on.
Miscall == {"early", "recalled"}

Incident == Disorder \cup Miscall \cup {"doubled", "hasty", "crossed"}

TypeOK ==
    /\ mapId \in [User -> Map \cup {NoMap}]
    /\ activeMap \in [User -> Map \cup {NoMap}]
    /\ \A u \in User : loading[u] \in [Map -> 0..MaxMoves[u] + 1]
    /\ {chat, inConversation, live, participating, waiting} \subseteq [User -> BOOLEAN]
    /\ participants \in [User -> SUBSET User]
    /\ \A u \in User : mappersOnMap[u] \in [DOMAIN mappersOnMap[u] -> BOOLEAN]
    /\ \A u \in User : toast[u] \subseteq
          [does : {"accept", "join", "invite"}, whom : User \cup {NoUser},
           times : 1..MaxLosses[u] + 1]
    /\ link \in [User -> Socket \cup {NoSocket}]
    /\ \A u \in User : link[u] # NoSocket => link[u] \in connected /\ Owner[link[u]] = u
    /\ incidents \subseteq Incident

\* Once everything has arrived, the server lists on every map exactly the users whose
\* pages show it, however they got there.
ServerSeesPages ==
    Quiet /\ incidents \cap (Disorder \cup Miscall \cup {"doubled"}) = {} =>
        \A m \in Map : Server!PeopleOn(junto, m) = Showing(m)

\* ... and the chat of a page misses nobody who is on its map.  It lists nobody else
\* either, unless the page lost its connection, which makes it miss a LOST_MAPPER.
PagesSeeEachOther ==
    Quiet /\ incidents = {} =>
        \A m \in Map : \A u \in Showing(m) :
            /\ Showing(m) \ {u} \subseteq participants[u]
            /\ losses[u] = 0 => participants[u] \subseteq Showing(m) \ {u}

\* Pages leave a map before they join the next one, the way the handlers of the server
\* rely on, unless a map's answer or a connection came while the page was moving on.
OneMapAtATime == "join" \in strays => incidents \cap Disorder # {}

\* When the users stop moving about, every page is in the end listed on the map in its
\* address bar, and on no other, and seen there by the other pages on that map.
PagesAreSeenInTheEnd ==
    <>[](incidents = {} =>
            \A u \in User :
                /\ \A m \in Map : u \in Server!PeopleOn(junto, m) <=> m = mapId[u]
                /\ \A v \in User \ {u} : mapId[v] = mapId[u] /\ mapId[u] # NoMap =>
                                            u \in participants[v])

\* A page joins a call only on the map its connection has joined, unless somebody
\* answers while the page is between two maps, or it leaves while not connected the
\* map whose call it has just joined.
CallsFromTheMap == "call" \in strays => incidents \cap (Disorder \cup Miscall) # {}

\* Once everything has arrived, the server counts each of two users who talks as talking,
\* if both have kept their connections (a page that connects again joins its map, but not
\* its call) and only one has moved: after both have, a page may answer a toast of the
\* map before, not having heard of the other page there yet, and then ignores the
\* MAPPER_LEFT_CALL by which the server ends the call (receivable.js:183).
TalkersAreListed ==
    /\ Quiet
    /\ incidents = {}
    /\ Cardinality(User) <= 2
    /\ \A u \in User : losses[u] = 0
    /\ Cardinality({u \in User : moves[u] > 0}) <= 1
    => \A u \in User : inConversation[u] => u \in Server!TalkingOn(junto, activeMap[u])

\* Once everything has arrived, the pages on a map count everybody there as talking who
\* talks, of any number of users, unless it is the talker who lost its connection: the
\* NEW_MAPPER of its next one says that it does not talk.
PagesCountTalkers ==
    Quiet /\ incidents = {} =>
        \A m \in Map : \A u, v \in Showing(m) :
            u # v /\ inConversation[v] /\ losses[v] = 0 =>
                v \in DOMAIN mappersOnMap[u] /\ mappersOnMap[u][v]

\* map.js:48 "this will ping a new person with awareness of who's already on the map":
\* whoever is sent MAPPER_LIST_UPDATED is told about a user who is on that map.
NewcomersLearnWhoIsOnTheMap ==
    [][\A i \in DOMAIN emitted' : emitted'[i].type = "MAPPER_LIST_UPDATED" =>
          \A t \in emitted'[i].to : emitted'[i].about \in Server!PeopleOn(junto, mapid[t])]_vars

\* sendable.js:90 "if there's only two people in the room, and we're leaving we should
\* shut down the call locally": when nothing is on its way and two users of one map
\* talk, the one who leaves does not see the call as live any more.
LeavingTwoEndsTheCall ==
    [][\A u, v \in User :
          /\ Quiet
          /\ u # v /\ activeMap[u] = activeMap[v]
          /\ {w \in User : inConversation[w]} = {u, v}
          /\ LeaveButton(u)
          => ~live'[u]]_vars
=============================================================================
