---------------------------- MODULE Realtime_proofs ----------------------------
(***************************************************************************)
(* Theorems about the pages and their connections, for any number of       *)
(* pages, connections and messages on their way.  There are five           *)
(* inductive invariants, each needing the ones before.                     *)
(*                                                                         *)
(* Types is stronger than TypeOK where a step needs it: messages name the  *)
(* map and the user their event reads, notices name who the server may     *)
(* name (Named in RealtimeServer), a question that will be answered names  *)
(* a user, and the answers still to come are no more than the navigations  *)
(* made.  The events that leave a page where it is are taken together      *)
(* (Stays): all they do to its connection is to say something that joins   *)
(* and leaves no map.                                                      *)
(*                                                                         *)
(* Order is about the order in which the pages join and leave maps.  The   *)
(* server takes the messages of a page one at a time, so what matters is   *)
(* the maps a page will be on when it comes to the j-th of them: At.       *)
(* Appending, dropping the end of a queue and taking its head change At in *)
(* simple ways; Order only speaks of At.                                   *)
(*                                                                         *)
(* Lists is about what the server makes of it: whom it lists on a map.     *)
(*                                                                         *)
(* Sound and Complete are about what the pages make of it.  What matters   *)
(* is whom a page will list once it has taken the messages on their way to *)
(* it: Sees.  Sound says that it sees nobody who is not there, Complete    *)
(* that it sees everybody who is, unless one of the two has still to join, *)
(* to hear of the other or to be answered: WillSee.  Both are kept only    *)
(* while nothing happens out of order (Peaceful), and need to know what    *)
(* the rooms of the server hold and what is said to newcomers: Background. *)
(*                                                                         *)
(* Talkers is about who talks.  What matters is what a page will make of   *)
(* another once it has taken what is on its way to it and the server has   *)
(* taken what the other has said: Known and Counted, of which the last     *)
(* word counts (Lasts).  It needs to know that pages talk on their maps    *)
(* only (TalkersOnMap), and after they have joined them (JoinsInOrder),    *)
(* and speaks of pages that have not lost a connection: Unheard, Alone.    *)
(*                                                                         *)
(* The server is the one of RealtimeServer_proofs: its lemmas are used for *)
(* the steps that take a message.                                          *)
(***************************************************************************)
EXTENDS Realtime, SequenceFacts

\* The facts about the server alone.
P == INSTANCE RealtimeServer_proofs WITH VideoMap <- {}

-----------------------------------------------------------------------------
\* socket.emit several times over.
LEMMA RepeatType ==
    ASSUME NEW S, NEW c \in Seq(S), NEW n \in Nat
    PROVE  Repeat(c, n) \in Seq(S)
  <1>1. [i \in 1..n |-> c] \in Seq(Seq(S))
    OBVIOUS
  <1> QED
    BY <1>1, FlattenType DEF Repeat

-----------------------------------------------------------------------------
\* The actions of the server are those of module RealtimeServer_proofs.

\* The server's proofs assume of the constants no more than this module does.
LEMMA ServerAssumptions ==
    /\ P!VideoMapAssumption /\ P!OpensAssumption /\ P!OwnerAssumption
    /\ P!NoUserAssumption /\ P!NoMapAssumption
  BY KeyAssumption, PageAssumption
     DEF P!VideoMapAssumption, P!OpensAssumption, P!OwnerAssumption, P!NoUserAssumption,
         P!NoMapAssumption

\* The helpers of the store are the same.
LEMMA SameStore ==
    /\ \A store, m : Server!LiveMapOf(store, m) = P!LiveMapOf(store, m)
    /\ \A store, m : Server!PeopleOn(store, m) = P!PeopleOn(store, m)
    /\ Server!EmptyStore = P!EmptyStore
  BY DEF Server!LiveMapOf, P!LiveMapOf, Server!PeopleOn, P!PeopleOn, Server!EmptyStore,
         P!EmptyStore

\* The server starts in the same state.
LEMMA SameInit == Server!Init => P!Init
  BY SameStore DEF Server!Init, P!Init

\* A connection is the same step.
LEMMA SameConnect ==
    ASSUME NEW s, Server!Connect(s) PROVE P!Connect(s)
  BY DEF Server!Connect, P!Connect, Server!JuntoUpdated, P!JuntoUpdated, Server!Emit, P!Emit

\* JOIN_MAP is the same step.
LEMMA SameJoinMap ==
    ASSUME NEW s, NEW m, Server!JoinMap(s, m) PROVE P!JoinMap(s, m)
  BY DEF Server!JoinMap, P!JoinMap, Server!ReduceJoinMap, P!ReduceJoinMap, Server!Assign,
         P!Assign, Server!addMapperToMap, P!addMapperToMap, Server!LiveMapOf, P!LiveMapOf,
         Server!JuntoUpdated, P!JuntoUpdated, Server!Emit, P!Emit,
         Server!NOT_IN_CONVERSATION, P!NOT_IN_CONVERSATION

\* LEAVE_MAP is the same step.
LEMMA SameLeaveMap ==
    ASSUME NEW s, Server!LeaveMap(s) PROVE P!LeaveMap(s)
  BY DEF Server!LeaveMap, P!LeaveMap, Server!ReduceLeaveMap, P!ReduceLeaveMap,
         Server!Assign, P!Assign, Server!Omit, P!Omit, Server!Forget, P!Forget,
         Server!mapWillEmpty, P!mapWillEmpty, Server!userStillPresent, P!userStillPresent,
         Server!LeaveMapRoom, P!LeaveMapRoom, Server!LeaveUserMapRoom, P!LeaveUserMapRoom,
         Server!LostMapper, P!LostMapper, Server!MapRoom, P!MapRoom, Server!PeopleOn,
         P!PeopleOn, Server!LiveMapOf, P!LiveMapOf, Server!JuntoUpdated, P!JuntoUpdated,
         Server!Emit, P!Emit

\* A disconnection is the same step.
LEMMA SameDisconnect ==
    ASSUME NEW s, Server!Disconnect(s) PROVE P!Disconnect(s)
  BY DEF Server!Disconnect, P!Disconnect, Server!ReduceDisconnect, P!ReduceDisconnect,
         Server!Assign, P!Assign, Server!Omit, P!Omit, Server!Forget, P!Forget,
         Server!mapWillEmpty, P!mapWillEmpty, Server!userStillPresent, P!userStillPresent,
         Server!callWillFinish, P!callWillFinish, Server!EverybodyHangsUp,
         P!EverybodyHangsUp, Server!NOT_IN_CONVERSATION, P!NOT_IN_CONVERSATION,
         Server!LostMapper, P!LostMapper, Server!MapRoom, P!MapRoom, Server!PeopleOn,
         P!PeopleOn, Server!LiveMapOf, P!LiveMapOf, Server!JuntoUpdated, P!JuntoUpdated,
         Server!VideoRoom, P!VideoRoom, Server!Emit, P!Emit

\* JOIN_CALL and LEAVE_CALL are the same steps.
LEMMA SameCalls ==
    ASSUME NEW s, NEW m
    PROVE  /\ Server!JoinCall(s, m) => P!JoinCall(s, m)
           /\ Server!LeaveCall(s, m) => P!LeaveCall(s, m)
  BY DEF Server!JoinCall, P!JoinCall, Server!ReduceJoinCall, P!ReduceJoinCall,
         Server!LeaveCall, P!LeaveCall, Server!ReduceLeaveCall, P!ReduceLeaveCall,
         Server!Assign, P!Assign, Server!callWillFinish, P!callWillFinish,
         Server!EverybodyHangsUp, P!EverybodyHangsUp, Server!PeopleOn, P!PeopleOn,
         Server!LiveMapOf, P!LiveMapOf, Server!JuntoUpdated, P!JuntoUpdated,
         Server!Emit, P!Emit, Server!NOT_IN_CONVERSATION, P!NOT_IN_CONVERSATION,
         Server!IN_CONVERSATION, P!IN_CONVERSATION

\* The messages the server passes on are the same steps.
LEMMA SameRelays ==
    ASSUME NEW s, NEW m, NEW peer
    PROVE  /\ Server!SendMapperInfo(s, m, peer) => P!SendMapperInfo(s, m, peer)
           /\ Server!InviteACall(s, m, peer) => P!InviteACall(s, m, peer)
           /\ Server!InviteToJoin(s, m, peer) => P!InviteToJoin(s, m, peer)
           /\ Server!AcceptCall(s, m, peer) => P!AcceptCall(s, m, peer)
  BY DEF Server!SendMapperInfo, P!SendMapperInfo, Server!InviteACall, P!InviteACall,
         Server!InviteToJoin, P!InviteToJoin, Server!AcceptCall, P!AcceptCall,
         Server!Relay, P!Relay, Server!Emit, P!Emit, Server!serverVars, P!serverVars

-----------------------------------------------------------------------------
\* Types.

\* Messages that name the user they are for.
Passed == {"SEND_MAPPER_INFO", "INVITE_A_CALL", "INVITE_TO_JOIN", "ACCEPT_CALL"}

MessageKind == {"JOIN_MAP", "LEAVE_MAP", "JOIN_CALL", "LEAVE_CALL"} \cup Passed

Message ==
    {e \in [type : MessageKind, map : Map \cup {NoMap}, peer : User \cup {NoUser},
            talking : BOOLEAN] :
        /\ e.type # "LEAVE_MAP" => e.map \in Map
        /\ e.type = "LEAVE_MAP" => e = LeaveMapMessage
        /\ e.type \in Passed => e.peer \in User}

Notice ==
    {n \in [type : Told, about : P!UserKey \cup Socket, talking : BOOLEAN] :
        n.about \in P!Named(n.type)}

Mappers == P!Dictionary(User, BOOLEAN)

AnyCallback == [does : {"accept", "join", "invite"}, whom : User \cup {NoUser}, times : Nat]

Question(u) ==
    [does : {"accept", "join", "invite"}, whom : User \cup {NoUser},
     times : 1..MaxLosses[u] + 1]

\* A question with a user to invite or to answer names one.
Callbacks(u) == {c \in Question(u) : c.does # "join" => c.whom \in User}

PageTypes ==
    /\ mapId \in [User -> Map \cup {NoMap}]
    /\ activeMap \in [User -> Map \cup {NoMap}]
    /\ loading \in [User -> [Map -> Nat]]
    /\ moves \in [User -> Nat]
    /\ \A u \in User : moves[u] <= MaxMoves[u]
    /\ \A u \in User, m \in Map : loading[u][m] <= moves[u] + 1

PeopleTypes ==
    /\ chat \in [User -> BOOLEAN]
    /\ participants \in [User -> SUBSET User]
    /\ mappersOnMap \in [User -> Mappers]

CallTypes ==
    /\ inConversation \in [User -> BOOLEAN]
    /\ live \in [User -> BOOLEAN]
    /\ participating \in [User -> BOOLEAN]
    /\ waiting \in [User -> BOOLEAN]
    /\ toast \in [User -> SUBSET AnyCallback]
    /\ \A u \in User : toast[u] \subseteq Callbacks(u) /\ IsFiniteSet(toast[u])

NetTypes ==
    /\ link \in [User -> Socket \cup {NoSocket}]
    /\ \A u \in User : link[u] # NoSocket => link[u] \in connected /\ Owner[link[u]] = u
    /\ sendBuffer \in [User -> Seq(Message)]
    /\ toServer \in [Socket -> Seq(Message)]
    /\ toClient \in [Socket -> Seq(Notice)]
    /\ losses \in [User -> Nat]
    /\ \A u \in User : losses[u] <= MaxLosses[u]
    /\ clicks \in [User -> Nat]
    /\ incidents \subseteq Incident

Types == P!TypeOK /\ PageTypes /\ PeopleTypes /\ CallTypes /\ NetTypes

\* The type invariant the runs check follows.
LEMMA TypesAreOK == Types => TypeOK
  <1> SUFFICES ASSUME Types PROVE TypeOK
    OBVIOUS
  <1>1. \A u \in User : loading[u] \in [Map -> 0..MaxMoves[u] + 1]
    BY BoundsAssumption DEF Types, PageTypes
  <1>2. \A u \in User : toast[u] \subseteq Question(u)
    BY DEF Types, CallTypes, Callbacks
  <1>3. \A u \in User : mappersOnMap[u] \in [DOMAIN mappersOnMap[u] -> BOOLEAN]
    <2> SUFFICES ASSUME NEW u \in User
                 PROVE  mappersOnMap[u] \in [DOMAIN mappersOnMap[u] -> BOOLEAN]
      OBVIOUS
    <2>1. mappersOnMap[u] \in P!Dictionary(User, BOOLEAN)
      BY DEF Types, PeopleTypes, Mappers
    <2> QED
      BY <2>1, P!DictionaryIs, ServerAssumptions
  <1> QED
    BY <1>1, <1>2, <1>3
       DEF Types, PageTypes, PeopleTypes, CallTypes, NetTypes, TypeOK, Question

\* What a page says is a message.
LEMMA SayTypes ==
    /\ LeaveMapMessage \in Message
    /\ \A m \in Map : JoinMapMessage(m) \in Message
    /\ \A m \in Map : JoinCallMessage(m) \in Message
    /\ \A m \in Map : LeaveCallMessage(m) \in Message
    /\ \A type \in Passed, m \in Map, v \in User, talking \in BOOLEAN :
          Say(type, m, v, talking) \in Message
  BY DEF Message, MessageKind, Passed, Say, LeaveMapMessage, JoinMapMessage,
         JoinCallMessage, LeaveCallMessage

\* What a page says joins the end of its queue.
LEMMA SendType ==
    ASSUME NetTypes, NEW u \in User, NEW c \in Seq(Message), Send(u, c)
    PROVE  /\ sendBuffer' \in [User -> Seq(Message)]
           /\ toServer' \in [Socket -> Seq(Message)]
  <1>1. CASE link[u] = NoSocket
    <2>1. sendBuffer[u] \o c \in Seq(Message)
      BY ConcatProperties DEF NetTypes
    <2> QED
      BY <1>1, <2>1 DEF Send, NetTypes
  <1>2. CASE link[u] # NoSocket
    <2>1. link[u] \in Socket /\ toServer[link[u]] \in Seq(Message)
      BY <1>2 DEF NetTypes
    <2>2. toServer[link[u]] \o c \in Seq(Message)
      BY <2>1, ConcatProperties
    <2> QED
      BY <1>2, <2>1, <2>2 DEF Send, NetTypes
  <1> QED
    BY <1>1, <1>2

\* A handler that says nothing.
LEMMA SendNothing ==
    ASSUME NetTypes, NEW u \in User, UNCHANGED <<sendBuffer, toServer>>
    PROVE  Send(u, <<>>)
  <1>1. CASE link[u] = NoSocket
    <2>1. sendBuffer[u] \o <<>> = sendBuffer[u]
      BY ConcatEmptySeq DEF NetTypes
    <2> QED
      BY <1>1, <2>1 DEF Send, NetTypes
  <1>2. CASE link[u] # NoSocket
    <2>1. link[u] \in Socket /\ toServer[link[u]] \in Seq(Message)
      BY <1>2 DEF NetTypes
    <2>2. toServer[link[u]] \o <<>> = toServer[link[u]]
      BY <2>1, ConcatEmptySeq
    <2> QED
      BY <1>2, <2>1, <2>2 DEF Send, NetTypes
  <1> QED
    BY <1>1, <1>2

-----------------------------------------------------------------------------
\* What pages say while they stay where they are: a call they join is the one of
\* the map they show, and only joined when they are on it or answer too early; they
\* tell newcomers of that map too, over a connection, and likewise.

Informs(u) == link[u] # NoSocket /\ (OnMap(u) \/ "crossed" \in incidents')

Speech(u, settled) ==
    {e \in Message : /\ e.type \notin {"JOIN_MAP", "LEAVE_MAP"}
                     /\ e.type = "JOIN_CALL" => e.map = activeMap[u] /\ settled
                     /\ e.type = "SEND_MAPPER_INFO" => e.map = activeMap[u] /\ Informs(u)}

Stays(u) ==
    /\ \E c \in Seq(Speech(u, OnMap(u) \/ "early" \in incidents')) : Send(u, c)
    /\ incidents \subseteq incidents'
    /\ incidents' \subseteq incidents \cup {"early", "crossed"}
    /\ NothingFromServer
    /\ UNCHANGED <<pageVars, link>>

\* What a page may say where it is, is a message.
LEMMA SpeechTypes ==
    ASSUME Types, NEW u \in User, NEW settled \in BOOLEAN
    PROVE  /\ Speech(u, settled) \subseteq Message
           /\ \A m \in Map : LeaveCallMessage(m) \in Speech(u, settled)
           /\ \A type \in Passed, m \in Map, v \in User, talking \in BOOLEAN :
                 (type = "SEND_MAPPER_INFO" => m = activeMap[u] /\ Informs(u))
                    => Say(type, m, v, talking) \in Speech(u, settled)
           /\ activeMap[u] # NoMap /\ settled =>
                 JoinCallMessage(activeMap[u]) \in Speech(u, settled)
  <1>1. activeMap[u] # NoMap => activeMap[u] \in Map
    BY DEF Types, PageTypes
  <1> QED
    BY <1>1, SayTypes DEF Speech, Passed, Say, LeaveCallMessage, JoinCallMessage

\* A click that changes nothing on the page.
LEMMA ClickStays ==
    ASSUME Types, NEW u \in User, Click(u), UNCHANGED <<pageVars, link>>,
           NEW c \in Seq(Speech(u, OnMap(u) \/ "early" \in incidents')), Send(u, c)
    PROVE  Stays(u)
  <1>1. /\ incidents \subseteq incidents'
        /\ incidents' \subseteq incidents \cup {"early", "crossed"}
        /\ NothingFromServer
    BY DEF Click
  <1> QED
    BY <1>1 DEF Stays

\* An event in which nothing is said.
LEMMA QuietStays ==
    ASSUME Types, NEW u \in User, NothingFromServer, UNCHANGED <<pageVars, netVars, incidents>>
    PROVE  Stays(u)
  <1>1. UNCHANGED <<sendBuffer, toServer, link>>
    BY DEF netVars
  <1>2. Send(u, <<>>)
    BY <1>1, SendNothing DEF Types
  <1>3. <<>> \in Seq(Speech(u, OnMap(u) \/ "early" \in incidents'))
    OBVIOUS
  <1> QED
    BY <1>1, <1>2, <1>3 DEF Stays

\* Starting to talk says something only where the page is.
LEMMA StartTalkingStays ==
    ASSUME Types, NEW u \in User, NEW n \in Nat, StartTalking(u, n),
           OnMap(u) \/ "early" \in incidents'
    PROVE  \E c \in Seq(Speech(u, OnMap(u) \/ "early" \in incidents')) : Send(u, c)
  <1> DEFINE S == Speech(u, OnMap(u) \/ "early" \in incidents')
  <1>1. CASE activeMap[u] = NoMap
    <2>1. UNCHANGED <<sendBuffer, toServer>>
      BY <1>1 DEF StartTalking
    <2>2. Send(u, <<>>) /\ <<>> \in Seq(S)
      BY <2>1, SendNothing DEF Types
    <2> QED
      BY <2>2
  <1>2. CASE activeMap[u] # NoMap
    <2>1. JoinCallMessage(activeMap[u]) \in S
      BY <1>2, SpeechTypes
    <2>2. Repeat(<<JoinCallMessage(activeMap[u])>>, n) \in Seq(S)
      <3> HIDE DEF S
      <3>1. <<JoinCallMessage(activeMap[u])>> \in Seq(S)
        BY <2>1
      <3> QED
        BY <3>1, RepeatType
    <2>3. Send(u, Repeat(<<JoinCallMessage(activeMap[u])>>, n))
      BY <1>2 DEF StartTalking
    <2> QED
      BY <2>2, <2>3
  <1> QED
    BY <1>1, <1>2

\* Inviting somebody.
LEMMA InviteStays ==
    ASSUME Types, NEW u \in User, NEW v \in User, Invite(u, v)
    PROVE  Stays(u)
  <1>1. Click(u) /\ activeMap[u] \in Map /\ UNCHANGED <<pageVars, link>>
    BY DEF Invite, Click, Types, PageTypes
  <1>2. PICK type \in {"INVITE_A_CALL", "INVITE_TO_JOIN"} :
           Send(u, <<InviteMessage(type, u, v)>>)
    BY DEF Invite
  <1>3. InviteMessage(type, u, v) \in Speech(u, OnMap(u) \/ "early" \in incidents')
    BY <1>1, <1>2, SpeechTypes DEF InviteMessage, Passed
  <1>4. <<InviteMessage(type, u, v)>> \in Seq(Speech(u, OnMap(u) \/ "early" \in incidents'))
    BY <1>3
  <1> QED
    BY <1>1, <1>2, <1>4, ClickStays

\* The button that joins the call.
LEMMA JoinButtonStays ==
    ASSUME Types, NEW u \in User, JoinButton(u)
    PROVE  Stays(u)
  <1>1. Click(u) /\ StartTalking(u, 1) /\ UNCHANGED <<pageVars, link>>
    BY DEF JoinButton, Click
  <1>2. OnMap(u) \/ "early" \in incidents'
    BY <1>1 DEF Click
  <1>3. PICK c \in Seq(Speech(u, OnMap(u) \/ "early" \in incidents')) : Send(u, c)
    BY <1>1, <1>2, StartTalkingStays
  <1> QED
    BY <1>1, <1>3, ClickStays

\* The button that leaves the call.
LEMMA LeaveButtonStays ==
    ASSUME Types, NEW u \in User, LeaveButton(u)
    PROVE  Stays(u)
  <1>1. /\ Click(u) /\ activeMap[u] \in Map /\ UNCHANGED <<pageVars, link>>
        /\ Send(u, <<LeaveCallMessage(activeMap[u])>>)
    BY DEF LeaveButton, Click, Types, PageTypes
  <1>2. LeaveCallMessage(activeMap[u]) \in Speech(u, OnMap(u) \/ "early" \in incidents')
    BY <1>1, SpeechTypes
  <1>3. <<LeaveCallMessage(activeMap[u])>> \in
            Seq(Speech(u, OnMap(u) \/ "early" \in incidents'))
    BY <1>2
  <1> QED
    BY <1>1, <1>3, ClickStays

\* What the callbacks of a toast send.
LEMMA AnswerType ==
    ASSUME Types, NEW u \in User, activeMap[u] # NoMap, NEW c \in Callbacks(u)
    PROVE  Answer(u, c) \in Seq(Speech(u, TRUE))
  <1> DEFINE S == Speech(u, TRUE)
             joins == <<JoinCallMessage(activeMap[u])>>
             invites == <<InviteMessage("INVITE_A_CALL", u, c.whom)>>
             accepts == <<InviteMessage("ACCEPT_CALL", u, c.whom)>>
  <1>1. activeMap[u] \in Map
    BY DEF Types, PageTypes
  <1>2. /\ c.does \in {"accept", "join", "invite"}
        /\ c.does # "join" => c.whom \in User
        /\ c.times \in Nat
    BY BoundsAssumption DEF Callbacks, Question
  <1>3. JoinCallMessage(activeMap[u]) \in S
    BY SpeechTypes
  <1>4. c.does # "join" => /\ InviteMessage("INVITE_A_CALL", u, c.whom) \in S
                           /\ InviteMessage("ACCEPT_CALL", u, c.whom) \in S
    BY <1>1, <1>2, SpeechTypes DEF InviteMessage, Passed
  <1>5. Answer(u, c) = Repeat(CASE c.does = "accept" -> accepts \o joins
                                [] c.does = "join"   -> joins
                                [] c.does = "invite" -> invites, c.times)
    BY DEF Answer
  <1>6. joins \in Seq(S) /\ (c.does # "join" => invites \in Seq(S) /\ accepts \in Seq(S))
    <2> HIDE DEF S
    <2> QED
      BY <1>3, <1>4
  <1> HIDE DEF S, joins, invites, accepts
  <1>7. c.does # "join" => accepts \o joins \in Seq(S)
    BY <1>6, ConcatProperties
  <1>8. c.does = "accept" => Answer(u, c) \in Seq(S)
    BY <1>2, <1>5, <1>7, RepeatType
  <1>9. c.does = "join" => Answer(u, c) \in Seq(S)
    BY <1>2, <1>5, <1>6, RepeatType
  <1>10. c.does = "invite" => Answer(u, c) \in Seq(S)
    BY <1>2, <1>5, <1>6, RepeatType
  <1> QED
    BY <1>2, <1>8, <1>9, <1>10 DEF S

\* What several callbacks send.
LEMMA AnswerAllType ==
    ASSUME Types, NEW u \in User, activeMap[u] # NoMap, NEW T \in SUBSET toast[u]
    PROVE  AnswerAll(u, T) \in Seq(Speech(u, TRUE))
  <1> DEFINE S == Speech(u, TRUE)
             callbacks == SetToSeq(T)
             answers == [i \in DOMAIN callbacks |-> Answer(u, callbacks[i])]
  <1>1. T \subseteq Callbacks(u) /\ IsFiniteSet(T)
    BY FS_Subset DEF Types, CallTypes
  <1>2. callbacks \in Seq(T)
    BY <1>1, SequenceOf
  <1>3. \A c \in T : Answer(u, c) \in Seq(S)
    BY <1>1, AnswerType
  <1>4. answers \in Seq(Seq(S))
    <2> HIDE DEF S, callbacks
    <2>1. \A i \in DOMAIN callbacks : callbacks[i] \in T
      BY <1>2
    <2>2. DOMAIN callbacks = 1..Len(callbacks) /\ Len(callbacks) \in Nat
      BY <1>2
    <2> QED
      BY <1>3, <2>1, <2>2
  <1>5. FlattenSeq(answers) \in Seq(S)
    <2> HIDE DEF S, answers
    <2> QED
      BY <1>4, FlattenType
  <1> QED
    BY <1>5 DEF AnswerAll

\* Yes to whatever the toasts ask.
LEMMA AnswerYesStays ==
    ASSUME Types, NEW u \in User, AnswerYes(u)
    PROVE  Stays(u)
  <1> DEFINE S == Speech(u, OnMap(u) \/ "early" \in incidents')
  <1>1. Click(u) /\ UNCHANGED <<pageVars, link>>
    BY DEF AnswerYes, Click
  <1>2. OnMap(u) \/ "early" \in incidents'
    BY <1>1 DEF Click
  <1>3. CASE activeMap[u] # NoMap
    <2>1. AnswerAll(u, toast[u]) \in Seq(S)
      BY <1>2, <1>3, AnswerAllType
    <2>2. Send(u, AnswerAll(u, toast[u]))
      BY <1>3 DEF AnswerYes
    <2> QED
      BY <1>1, <2>1, <2>2, ClickStays
  <1>4. CASE activeMap[u] = NoMap
    <2>1. UNCHANGED <<sendBuffer, toServer>>
      BY <1>4 DEF AnswerYes
    <2>2. Send(u, <<>>) /\ <<>> \in Seq(S)
      BY <2>1, SendNothing DEF Types
    <2> QED
      BY <1>1, <2>2, ClickStays
  <1> QED
    BY <1>3, <1>4

\* No, where invitations are bound to the button.
LEMMA AnswerNoStays ==
    ASSUME Types, NEW u \in User, AnswerNo(u)
    PROVE  Stays(u)
  <1> DEFINE S == Speech(u, OnMap(u) \/ "early" \in incidents')
             invites == {c \in toast[u] : c.does = "invite"}
  <1>1. Click(u) /\ UNCHANGED <<pageVars, link>> /\ activeMap[u] # NoMap
    BY DEF AnswerNo, Click
  <1>2. OnMap(u) \/ "early" \in incidents'
    BY <1>1 DEF Click
  <1>3. AnswerAll(u, invites) \in Seq(S)
    BY <1>1, <1>2, AnswerAllType
  <1>4. Send(u, AnswerAll(u, invites))
    BY DEF AnswerNo
  <1> QED
    BY <1>1, <1>3, <1>4, ClickStays

\* Messages from the server.
LEMMA HeadNotice ==
    ASSUME Types, NEW u \in User, link[u] # NoSocket, toClient[link[u]] # <<>>
    PROVE  /\ link[u] \in Socket
           /\ Head(toClient[link[u]]) \in Notice
           /\ Tail(toClient[link[u]]) \in Seq(Notice)
  <1>1. link[u] \in Socket /\ toClient[link[u]] \in Seq(Notice)
    BY DEF Types, NetTypes
  <1> QED
    BY <1>1, HeadTailProperties

\* A notice names a user where its handler reads one.
LEMMA NoticeNames ==
    ASSUME NEW e \in Notice
    PROVE  /\ e.type \in {"NEW_MAPPER", "MAPPER_LIST_UPDATED", "INVITED_TO_CALL",
                          "INVITED_TO_JOIN"} => e.about \in User
           /\ e.talking \in BOOLEAN
  BY DEF Notice, P!Named

\* A notice taken by its handler.
LEMMA ReceiveStays ==
    ASSUME Types, NEW u \in User, Receive(u)
    PROVE  Stays(u)
  <1> DEFINE S == Speech(u, OnMap(u) \/ "early" \in incidents')
             e == Head(toClient[link[u]])
  <1>1. /\ link[u] # NoSocket /\ toClient[link[u]] # <<>>
        /\ incidents \subseteq incidents'
        /\ incidents' \subseteq incidents \cup {"early", "crossed"}
        /\ NothingFromServer
        /\ UNCHANGED <<pageVars, link, losses>>
    BY DEF Receive
  <1>2. e \in Notice
    BY <1>1, HeadNotice
  <1>3. Handlers(u) \in Nat
    BY DEF Handlers, Types, NetTypes
  <1> SUFFICES \E c \in Seq(S) : Send(u, c)
    BY <1>1 DEF Stays
  <1>4. ASSUME UNCHANGED <<sendBuffer, toServer>> PROVE \E c \in Seq(S) : Send(u, c)
    <2>1. Send(u, <<>>) /\ <<>> \in Seq(S)
      BY <1>4, SendNothing DEF Types
    <2> QED
      BY <2>1
  <1>5. CASE e.type = "NEW_MAPPER" /\ NewMapper(u, e.about)
    <2>1. e.about \in User
      BY <1>2, <1>5, NoticeNames
    <2>2. CASE ~(e.about # u /\ chat[u])
      <3>1. UNCHANGED <<sendBuffer, toServer>>
        BY <1>5, <2>2 DEF NewMapper
      <3> QED
        BY <1>4, <3>1
    <2>3. CASE e.about # u /\ chat[u]
      <3>1. Send(u, Details(u, e.about))
        BY <1>5, <2>3 DEF NewMapper
      <3>2. Details(u, e.about) \in Seq(S)
        <4>1. CASE activeMap[u] = NoMap
          BY <4>1 DEF Details
        <4>2. CASE activeMap[u] # NoMap
          <5> DEFINE info == Say("SEND_MAPPER_INFO", activeMap[u], e.about, inConversation[u])
          <5>1. activeMap[u] \in Map /\ inConversation[u] \in BOOLEAN
            BY <4>2 DEF Types, PageTypes, CallTypes
          <5>2. info \in S
            <6>1. Informs(u)
              BY <1>1, <1>5, <2>3, <4>2 DEF Informs, Receive, Answers
            <6> QED
              BY <2>1, <5>1, <6>1, SpeechTypes DEF Passed
          <5>3. Details(u, e.about) = Repeat(<<info>>, Handlers(u))
            BY <4>2 DEF Details
          <5> HIDE DEF info, S, e
          <5>4. <<info>> \in Seq(S)
            BY <5>2
          <5> QED
            BY <1>3, <5>3, <5>4, RepeatType
        <4> QED
          BY <4>1, <4>2
      <3> QED
        BY <3>1, <3>2
    <2> QED
      BY <2>2, <2>3
  <1>6. CASE e.type = "CALL_ACCEPTED" /\ CallAccepted(u)
    <2>1. StartTalking(u, Handlers(u))
      BY <1>6 DEF CallAccepted
    <2>2. OnMap(u) \/ "early" \in incidents'
      BY <1>6 DEF Receive
    <2> QED
      BY <1>3, <2>1, <2>2, StartTalkingStays
  <1>7. CASE \/ LostMapper(u, e.about)
             \/ MapperListUpdated(u, e.about, e.talking)
             \/ MapperJoinedCall(u, e.about)
             \/ MapperLeftCall(u, e.about)
             \/ Invited(u, e.about, "accept")
             \/ Invited(u, e.about, "join")
             \/ CallStarted(u)
             \/ Ignored(u, e)
    <2>1. UNCHANGED <<sendBuffer, toServer>>
      BY <1>7 DEF LostMapper, MapperListUpdated, MapperJoinedCall, MapperLeftCall, Invited,
                  CallStarted, Ignored
    <2> QED
      BY <1>4, <2>1
  <1> QED
    BY <1>5, <1>6, <1>7 DEF Receive

\* The events of a page that neither move it nor touch its connection.
StayingEvent(u) ==
    \/ \E v \in User : Invite(u, v)
    \/ JoinButton(u)
    \/ LeaveButton(u)
    \/ AnswerYes(u)
    \/ AnswerNo(u)
    \/ Dismiss(u)
    \/ CameraReady(u)
    \/ Receive(u)

\* All the events that leave a page where it is.
LEMMA StayingStays ==
    ASSUME Types, NEW u \in User, StayingEvent(u)
    PROVE  Stays(u)
  <1>1. CASE Dismiss(u) \/ CameraReady(u)
    <2>1. NothingFromServer /\ UNCHANGED <<pageVars, netVars, incidents>>
      BY <1>1 DEF Dismiss, CameraReady
    <2> QED
      BY <2>1, QuietStays
  <1> QED
    BY <1>1, InviteStays, JoinButtonStays, LeaveButtonStays, AnswerYesStays, AnswerNoStays,
       ReceiveStays
       DEF StayingEvent

-----------------------------------------------------------------------------
\* Every step keeps the types.

\* The initial states are of the right types.
LEMMA InitTypes == Init => Types
  <1> SUFFICES ASSUME Init PROVE Types
    OBVIOUS
  <1>1. P!TypeOK
    BY SameInit, P!InitType, ServerAssumptions DEF Init
  <1>2. mapId \in [User -> Map \cup {NoMap}]
    BY DEF Init
  <1>3. PageTypes
    <2>1. \A u \in User : MaxMoves[u] \in Nat
      BY BoundsAssumption
    <2> QED
      BY <1>2, <2>1 DEF Init, PageTypes
  <1>4. PeopleTypes
    <2>1. [v \in {} |-> FALSE] \in Mappers
      <3> DEFINE none == [v \in {} |-> FALSE]
      <3>1. DOMAIN none \subseteq User /\ none \in [DOMAIN none -> BOOLEAN]
        OBVIOUS
      <3> QED
        BY <3>1, P!DictionaryIs, ServerAssumptions DEF Mappers
    <2> QED
      BY <2>1 DEF Init, PeopleTypes
  <1>5. CallTypes
    BY FS_EmptySet DEF Init, CallTypes
  <1>6. NetTypes
    <2>1. \A u \in User : MaxLosses[u] \in Nat
      BY BoundsAssumption
    <2> QED
      BY <2>1 DEF Init, NetTypes
  <1> QED
    BY <1>1, <1>3, <1>4, <1>5, <1>6 DEF Types

\* The server's types hold on in a step that is none of its own.
LEMMA ServerRests ==
    ASSUME Types, NothingFromServer
    PROVE  P!TypeOK' /\ connected' = connected
  <1>1. emitted' \in Seq(P!Emission)
    BY DEF NothingFromServer
  <1>2. UNCHANGED <<connected, mapid, userid, mapRoom, userMapRoom, videoRoom, junto, strays>>
    BY DEF NothingFromServer, serverVars
  <1> QED
    BY <1>1, <1>2 DEF Types, P!TypeOK

\* What a page says where it is keeps the types of the pages and the network.
LEMMA StaysTypes ==
    ASSUME Types, NEW u \in User, Stays(u),
           toClient' \in [Socket -> Seq(Notice)], losses' = losses,
           clicks' \in [User -> Nat]
    PROVE  P!TypeOK' /\ PageTypes' /\ NetTypes'
  <1>1. P!TypeOK' /\ connected' = connected
    BY ServerRests DEF Stays
  <1>2. PageTypes'
    BY DEF Stays, pageVars, Types, PageTypes
  <1>3. PICK c \in Seq(Speech(u, OnMap(u) \/ "early" \in incidents')) : Send(u, c)
    BY DEF Stays
  <1>4. c \in Seq(Message)
    BY <1>3 DEF Speech
  <1>5. sendBuffer' \in [User -> Seq(Message)] /\ toServer' \in [Socket -> Seq(Message)]
    BY <1>3, <1>4, SendType DEF Types
  <1>6. incidents' \subseteq Incident /\ link' = link
    BY DEF Stays, Types, NetTypes, Incident, Miscall
  <1>7. NetTypes'
    BY <1>1, <1>5, <1>6 DEF Types, NetTypes
  <1> QED
    BY <1>1, <1>2, <1>7

\* Closing the toasts keeps their types.
LEMMA ToastCleared ==
    ASSUME CallTypes, NEW u \in User, toast' = [toast EXCEPT ![u] = {}]
    PROVE  /\ toast' \in [User -> SUBSET AnyCallback]
           /\ \A v \in User : toast'[v] \subseteq Callbacks(v) /\ IsFiniteSet(toast'[v])
  BY FS_EmptySet DEF CallTypes

\* A question put in a toast keeps their types.
LEMMA AskTypes ==
    ASSUME CallTypes, NetTypes, NEW u \in User, NEW does \in {"accept", "join", "invite"},
           NEW whom \in User \cup {NoUser}, does # "join" => whom \in User,
           Ask(u, Callback(u, does, whom))
    PROVE  /\ toast' \in [User -> SUBSET AnyCallback]
           /\ \A v \in User : toast'[v] \subseteq Callbacks(v) /\ IsFiniteSet(toast'[v])
  <1> DEFINE c == Callback(u, does, whom)
  <1>1. c \in Callbacks(u) /\ c \in AnyCallback
    <2>1. losses[u] + 1 \in 1..(MaxLosses[u] + 1)
      BY BoundsAssumption DEF NetTypes
    <2> QED
      BY <2>1 DEF Callback, Callbacks, Question, AnyCallback, Handlers
  <1>2. CASE toast' = toast
    BY <1>2 DEF CallTypes
  <1>3. CASE toast' = [toast EXCEPT ![u] = @ \cup {c}]
    <2> HIDE DEF c
    <2>1. toast' \in [User -> SUBSET AnyCallback]
      BY <1>1, <1>3 DEF CallTypes
    <2>2. IsFiniteSet(toast[u] \cup {c})
      BY FS_AddElement DEF CallTypes
    <2>3. \A v \in User : toast'[v] = IF v = u THEN toast[u] \cup {c} ELSE toast[v]
      BY <1>3 DEF CallTypes
    <2> QED
      BY <1>1, <2>1, <2>2, <2>3 DEF CallTypes
  <1> QED
    BY <1>2, <1>3 DEF Ask

\* Starting to talk keeps the types of the call.
LEMMA StartTalkingTypes ==
    ASSUME CallTypes, NEW u \in User, NEW n, StartTalking(u, n)
    PROVE  CallTypes'
  <1>1. CASE activeMap[u] = NoMap
    BY <1>1 DEF StartTalking, CallTypes
  <1>2. CASE activeMap[u] # NoMap
    <2>1. toast' = [toast EXCEPT ![u] = {}]
      BY <1>2 DEF StartTalking
    <2> QED
      BY <1>2, <2>1, ToastCleared DEF StartTalking, CallTypes
  <1> QED
    BY <1>1, <1>2

\* The end of a call keeps the types of the call.
LEMMA CallEndsTypes ==
    ASSUME CallTypes, NEW u \in User, NEW ends \in BOOLEAN, CallEnds(u, ends)
    PROVE  CallTypes'
  BY DEF CallEnds, CallTypes

\* The people a page knows of, changed by one, are of the right type.
LEMMA KnowsTypes ==
    ASSUME PeopleTypes, NEW u \in User
    PROVE  /\ \A v \in User, talking \in BOOLEAN :
                 Server!Assign(mappersOnMap[u], v, talking) \in Mappers
           /\ \A v : Server!Omit(mappersOnMap[u], v) \in Mappers
           /\ \A mappers \in Mappers : Knows(u, mappers) => mappersOnMap' \in [User -> Mappers]
  <1>1. mappersOnMap[u] \in P!Dictionary(User, BOOLEAN)
    BY DEF PeopleTypes, Mappers
  <1>2. \A v \in User, talking \in BOOLEAN :
           P!Assign(mappersOnMap[u], v, talking) \in P!Dictionary(User, BOOLEAN)
    BY <1>1, P!AssignIs, ServerAssumptions
  <1>3. \A v : P!Omit(mappersOnMap[u], v) \in P!Dictionary(User, BOOLEAN)
    BY <1>1, P!OmitIs, ServerAssumptions
  <1>4. \A mappers \in Mappers : Knows(u, mappers) => mappersOnMap' \in [User -> Mappers]
    BY DEF Knows, PeopleTypes
  <1> QED
    BY <1>2, <1>3, <1>4 DEF Mappers, Server!Assign, P!Assign, Server!Omit, P!Omit

\* A click keeps the rest of the types.
LEMMA ClickTypes ==
    ASSUME Types, NEW u \in User, Click(u)
    PROVE  /\ toClient' \in [Socket -> Seq(Notice)] /\ losses' = losses
           /\ clicks' \in [User -> Nat]
           /\ PeopleTypes'
  BY DEF Click, peopleVars, Types, NetTypes, PeopleTypes

\* The buttons keep the rest of the types.
LEMMA ControlTypes ==
    ASSUME Types, NEW u \in User,
           \/ \E v \in User : Invite(u, v)
           \/ JoinButton(u) \/ LeaveButton(u) \/ AnswerYes(u) \/ AnswerNo(u)
           \/ Dismiss(u) \/ CameraReady(u)
    PROVE  /\ toClient' \in [Socket -> Seq(Notice)] /\ losses' = losses
           /\ clicks' \in [User -> Nat]
           /\ PeopleTypes' /\ CallTypes'
  <1>0. CallTypes
    BY DEF Types
  <1>1. ASSUME NEW v \in User, Invite(u, v)
        PROVE  Click(u) /\ CallTypes'
    <2>1. toast' = [toast EXCEPT ![u] = {}] \/ toast' = toast
      BY <1>1 DEF Invite
    <2>2. /\ toast' \in [User -> SUBSET AnyCallback]
          /\ \A w \in User : toast'[w] \subseteq Callbacks(w) /\ IsFiniteSet(toast'[w])
      BY <1>0, <2>1, ToastCleared DEF CallTypes
    <2> QED
      BY <1>0, <1>1, <2>2 DEF Invite, CallTypes
  <1>2. CASE JoinButton(u)
    <2>1. Click(u) /\ StartTalking(u, 1)
      BY <1>2 DEF JoinButton
    <2> QED
      BY <1>0, <2>1, ClickTypes, StartTalkingTypes
  <1>3. CASE LeaveButton(u)
    <2>1. Click(u) /\ CallTypes'
      BY <1>0, <1>3 DEF LeaveButton, CallTypes, Types, PeopleTypes
    <2> QED
      BY <2>1, ClickTypes
  <1>4. CASE AnswerYes(u)
    <2>1. Click(u)
      BY <1>4 DEF AnswerYes
    <2>2. toast' = [toast EXCEPT ![u] = {}] \/ toast' = toast
      BY <1>4 DEF AnswerYes
    <2>3. /\ toast' \in [User -> SUBSET AnyCallback]
          /\ \A w \in User : toast'[w] \subseteq Callbacks(w) /\ IsFiniteSet(toast'[w])
      BY <1>0, <2>2, ToastCleared DEF CallTypes
    <2>4. /\ inConversation' \in [User -> BOOLEAN]
          /\ waiting' \in [User -> BOOLEAN]
          /\ UNCHANGED <<live, participating>>
      <3>1. CASE activeMap[u] # NoMap
        BY <1>0, <1>4, <3>1 DEF AnswerYes, CallTypes
      <3>2. CASE activeMap[u] = NoMap
        BY <1>0, <1>4, <3>2 DEF AnswerYes, CallTypes
      <3> QED
        BY <3>1, <3>2
    <2> QED
      BY <1>0, <2>1, <2>3, <2>4, ClickTypes DEF CallTypes
  <1>5. CASE Dismiss(u)
    <2>1. toast' = [toast EXCEPT ![u] = {}]
      BY <1>5 DEF Dismiss
    <2> QED
      BY <1>0, <1>5, <2>1, ToastCleared
         DEF Dismiss, CallTypes, Types, PeopleTypes, NetTypes, peopleVars, netVars
  <1>6. CASE CameraReady(u)
    BY <1>0, <1>6 DEF CameraReady, CallTypes, Types, PeopleTypes, NetTypes, peopleVars, netVars
  <1>7. CASE AnswerNo(u)
    <2>1. Click(u) /\ toast' = [toast EXCEPT ![u] = {}]
      BY <1>7 DEF AnswerNo
    <2>2. /\ toast' \in [User -> SUBSET AnyCallback]
          /\ \A w \in User : toast'[w] \subseteq Callbacks(w) /\ IsFiniteSet(toast'[w])
      BY <1>0, <2>1, ToastCleared DEF CallTypes
    <2>3. CallTypes'
      BY <1>0, <1>7, <2>2 DEF AnswerNo, CallTypes
    <2> QED
      BY <2>1, <2>3, ClickTypes
  <1> QED
    BY <1>1, <1>2, <1>3, <1>4, <1>5, <1>6, <1>7, ClickTypes

\* The handlers of the notices keep the rest of the types.
LEMMA ReceiveTypes ==
    ASSUME Types, NEW u \in User, Receive(u)
    PROVE  /\ toClient' \in [Socket -> Seq(Notice)] /\ losses' = losses
           /\ clicks' \in [User -> Nat]
           /\ PeopleTypes' /\ CallTypes'
  <1> DEFINE e == Head(toClient[link[u]])
  <1>0. PeopleTypes /\ CallTypes /\ NetTypes
    BY DEF Types
  <1>1. /\ link[u] # NoSocket /\ toClient[link[u]] # <<>>
        /\ toClient' = [toClient EXCEPT ![link[u]] = Tail(@)]
        /\ UNCHANGED <<chat, losses, clicks>>
    BY DEF Receive
  <1>2. e \in Notice /\ link[u] \in Socket /\ Tail(toClient[link[u]]) \in Seq(Notice)
    BY <1>1, HeadNotice
  <1>3. /\ toClient' \in [Socket -> Seq(Notice)] /\ losses' = losses
        /\ clicks' \in [User -> Nat]
    BY <1>0, <1>1, <1>2 DEF NetTypes
  <1> HIDE DEF e
  <1>4. CASE e.type = "NEW_MAPPER" /\ NewMapper(u, e.about)
    <2>1. e.about \in User /\ e.talking \in BOOLEAN
      BY <1>2, <1>4, NoticeNames
    <2>2. PeopleTypes'
      BY <1>0, <1>1, <1>4, <2>1, KnowsTypes DEF NewMapper, AddParticipant, PeopleTypes
    <2>3. /\ toast' \in [User -> SUBSET AnyCallback]
          /\ \A w \in User : toast'[w] \subseteq Callbacks(w) /\ IsFiniteSet(toast'[w])
      <3>1. CASE e.about # u /\ chat[u]
        <4>1. Ask(u, Callback(u, "invite", e.about))
          BY <1>4, <3>1 DEF NewMapper
        <4> QED
          BY <1>0, <2>1, <4>1, AskTypes
      <3>2. CASE ~(e.about # u /\ chat[u])
        BY <1>0, <1>4, <3>2 DEF NewMapper, CallTypes
      <3> QED
        BY <3>1, <3>2
    <2> QED
      BY <1>0, <1>3, <1>4, <2>2, <2>3 DEF NewMapper, CallTypes
  <1>5. CASE LostMapper(u, e.about)
    <2>1. PeopleTypes'
      BY <1>0, <1>1, <1>5, KnowsTypes DEF LostMapper, PeopleTypes
    <2>2. PICK ends \in BOOLEAN : CallEnds(u, ends)
      <3>1. (chat[u] /\ LastOneTalks(u, Server!Omit(mappersOnMap[u], e.about))) \in BOOLEAN
        OBVIOUS
      <3> QED
        BY <1>5, <3>1 DEF LostMapper
    <2> QED
      BY <1>0, <1>3, <2>1, <2>2, CallEndsTypes
  <1>6. CASE e.type = "MAPPER_LIST_UPDATED" /\ MapperListUpdated(u, e.about, e.talking)
    <2>1. e.about \in User /\ e.talking \in BOOLEAN
      BY <1>2, <1>6, NoticeNames
    <2>2. PeopleTypes'
      BY <1>0, <1>1, <1>6, <2>1, KnowsTypes DEF MapperListUpdated, AddParticipant, PeopleTypes
    <2> QED
      BY <1>0, <1>3, <1>6, <2>2 DEF MapperListUpdated, CallTypes, callVars
  <1>7. ASSUME e.about \in DOMAIN mappersOnMap[u] PROVE e.about \in User
    <2>1. mappersOnMap[u] \in P!Dictionary(User, BOOLEAN)
      BY <1>0 DEF PeopleTypes, Mappers
    <2> QED
      BY <1>7, <2>1, P!DictionaryIs, ServerAssumptions
  <1>8. CASE MapperJoinedCall(u, e.about)
    <2>1. e.about \in User
      BY <1>7, <1>8 DEF MapperJoinedCall
    <2>2. PeopleTypes'
      BY <1>0, <1>1, <1>8, <2>1, KnowsTypes DEF MapperJoinedCall, PeopleTypes
    <2> QED
      BY <1>0, <1>3, <1>8, <2>2 DEF MapperJoinedCall, CallTypes, callVars
  <1>9. CASE MapperLeftCall(u, e.about)
    <2>1. e.about \in User
      BY <1>7, <1>9 DEF MapperLeftCall
    <2>2. PeopleTypes'
      BY <1>0, <1>1, <1>9, <2>1, KnowsTypes DEF MapperLeftCall, PeopleTypes
    <2>3. PICK ends \in BOOLEAN : CallEnds(u, ends)
      <3>1. (chat[u] /\ LastOneTalks(u, Server!Assign(mappersOnMap[u], e.about, FALSE)))
               \in BOOLEAN
        OBVIOUS
      <3> QED
        BY <1>9, <3>1 DEF MapperLeftCall
    <2> QED
      BY <1>0, <1>3, <2>2, <2>3, CallEndsTypes
  <1>10. ASSUME NEW does \in {"accept", "join"}, Invited(u, e.about, does)
         PROVE  PeopleTypes' /\ CallTypes'
    <2>1. e.about \in User
      BY <1>7, <1>10 DEF Invited
    <2>2. Ask(u, Callback(u, does, e.about))
      BY <1>10 DEF Invited
    <2>3. /\ toast' \in [User -> SUBSET AnyCallback]
          /\ \A w \in User : toast'[w] \subseteq Callbacks(w) /\ IsFiniteSet(toast'[w])
      BY <1>0, <2>1, <2>2, AskTypes
    <2> QED
      BY <1>0, <1>1, <1>10, <2>3 DEF Invited, CallTypes, PeopleTypes
  <1>11. CASE CallAccepted(u)
    <2>1. StartTalking(u, Handlers(u)) /\ UNCHANGED <<mappersOnMap, participants>>
      BY <1>11 DEF CallAccepted
    <2> QED
      BY <1>0, <1>1, <1>3, <2>1, StartTalkingTypes DEF PeopleTypes
  <1>12. CASE CallStarted(u)
    <2>1. Ask(u, Callback(u, "join", NoUser))
      BY <1>12 DEF CallStarted
    <2>2. /\ toast' \in [User -> SUBSET AnyCallback]
          /\ \A w \in User : toast'[w] \subseteq Callbacks(w) /\ IsFiniteSet(toast'[w])
      BY <1>0, <2>1, AskTypes
    <2> QED
      BY <1>0, <1>1, <1>3, <1>12, <2>2 DEF CallStarted, CallTypes, PeopleTypes
  <1>13. CASE Ignored(u, e)
    BY <1>0, <1>1, <1>3, <1>13 DEF Ignored, CallTypes, PeopleTypes, callVars
  <1> QED
    BY <1>3, <1>4, <1>5, <1>6, <1>8, <1>9, <1>10, <1>11, <1>12, <1>13 DEF Receive, e

\* The events that leave a page where it is keep the types.
LEMMA StayingTypes ==
    ASSUME Types, NEW u \in User, StayingEvent(u)
    PROVE  Types'
  <1>1. /\ toClient' \in [Socket -> Seq(Notice)] /\ losses' = losses
        /\ clicks' \in [User -> Nat]
        /\ PeopleTypes' /\ CallTypes'
    BY ControlTypes, ReceiveTypes DEF StayingEvent
  <1>2. P!TypeOK' /\ PageTypes' /\ NetTypes'
    BY <1>1, StayingStays, StaysTypes
  <1> QED
    BY <1>1, <1>2 DEF Types

\* The three farewells there are.
LEMMA ShortFarewells ==
    ASSUME NEW a, NEW b
    PROVE  <<>> \o <<>> = <<>> /\ <<a>> \o <<b>> = <<a, b>> /\ <<>> \o <<b>> = <<b>>
  <1>1. <<>> \o <<>> = <<>>
    OBVIOUS
  <1>2. <<a>> \o <<b>> = <<a, b>>
    <2> DEFINE S == {a, b}
               s == <<a>>
               t == <<b>>
               both == <<a, b>>
    <2>1. /\ s \in Seq(S) /\ t \in Seq(S) /\ both \in Seq(S)
          /\ Len(s) = 1 /\ Len(t) = 1 /\ Len(both) = 2
          /\ s[1] = a /\ t[1] = b /\ both[1] = a /\ both[2] = b
      OBVIOUS
    <2> HIDE DEF S, s, t, both
    <2>2. /\ s \o t \in Seq(S) /\ Len(s \o t) = Len(s) + Len(t)
          /\ \A i \in 1..Len(s) + Len(t) : (s \o t)[i] = IF i <= Len(s) THEN s[i] ELSE t[i - Len(s)]
      BY <2>1, ConcatProperties
    <2>3. Len(s \o t) = 2 /\ (s \o t)[1] = a /\ (s \o t)[2] = b
      BY <2>1, <2>2
    <2>4. \A i \in 1..Len(s \o t) : (s \o t)[i] = both[i]
      BY <2>1, <2>3
    <2>5. s \o t = both
      BY <2>1, <2>2, <2>3, <2>4, SeqEqual
    <2> QED
      BY <2>5 DEF s, t, both
  <1>3. <<>> \o <<b>> = <<b>>
    OBVIOUS
  <1> QED
    BY <1>1, <1>2, <1>3

\* What endActiveMap sends: perhaps that the call is left, then, when the page was on
\* a map, that the map is left.
LEMMA FarewellIs ==
    ASSUME Types, NEW u \in User
    PROVE  /\ Farewell(u) \in Seq(Message)
           /\ ~Ends(u) => Farewell(u) = <<>>
           /\ Ends(u) => \/ Farewell(u) = <<LeaveMapMessage>>
                         \/ Farewell(u) = <<LeaveCallMessage(activeMap[u]), LeaveMapMessage>>
  <1>1. Ends(u) => activeMap[u] \in Map
    BY DEF Types, PageTypes, Ends
  <1>2. LeaveMapMessage \in Message /\ (Ends(u) => LeaveCallMessage(activeMap[u]) \in Message)
    BY <1>1, SayTypes
  <1> DEFINE a == LeaveCallMessage(activeMap[u])
             b == LeaveMapMessage
  <1>3. /\ ~Ends(u) => Farewell(u) = <<>> \o <<>>
        /\ Ends(u) /\ LeavesCall(u) => Farewell(u) = <<a>> \o <<b>>
        /\ Ends(u) /\ ~LeavesCall(u) => Farewell(u) = <<>> \o <<b>>
    BY DEF Farewell, LeavesCall
  <1>4. <<>> \o <<>> = <<>> /\ <<a>> \o <<b>> = <<a, b>> /\ <<>> \o <<b>> = <<b>>
    BY ShortFarewells
  <1>5. /\ ~Ends(u) => Farewell(u) = <<>>
        /\ Ends(u) => Farewell(u) = <<b>> \/ Farewell(u) = <<a, b>>
    <2> HIDE DEF a, b
    <2> QED
      BY <1>3, <1>4, Zenon
  <1>6. <<>> \in Seq(Message) /\ (Ends(u) => <<b>> \in Seq(Message) /\ <<a, b>> \in Seq(Message))
    BY <1>2
  <1> QED
    BY <1>5, <1>6, Zenon

\* Leaving one map for another, or for none.
LEMMA NavigateTypes ==
    ASSUME Types, NEW u \in User, NEW m \in Map \cup {NoMap}, Navigate(u, m)
    PROVE  Types'
  <1>0. PageTypes /\ PeopleTypes /\ CallTypes /\ NetTypes
    BY DEF Types
  <1>1. P!TypeOK' /\ connected' = connected
    BY ServerRests DEF Navigate
  <1>2. /\ moves[u] \in Nat /\ MaxMoves[u] \in Nat /\ moves[u] < MaxMoves[u]
        /\ moves' = [moves EXCEPT ![u] = @ + 1]
    BY <1>0, BoundsAssumption DEF Navigate, PageTypes
  <1>3. PageTypes'
    <2>1. mapId' \in [User -> Map \cup {NoMap}] /\ activeMap' \in [User -> Map \cup {NoMap}]
      BY <1>0 DEF Navigate, PageTypes
    <2>2. moves' \in [User -> Nat] /\ \A v \in User : moves'[v] <= MaxMoves[v]
      BY <1>0, <1>2 DEF PageTypes
    <2>3. /\ loading' \in [User -> [Map -> Nat]]
          /\ \A v \in User, k \in Map : loading'[v][k] <= moves'[v] + 1
      <3>1. CASE m = NoMap
        BY <1>0, <1>2, <3>1 DEF Navigate, PageTypes
      <3>2. CASE m # NoMap
        <4>1. m \in Map /\ loading' = [loading EXCEPT ![u][m] = @ + 1]
          BY <3>2 DEF Navigate
        <4>2. loading' \in [User -> [Map -> Nat]]
          BY <1>0, <4>1 DEF PageTypes
        <4>3. \A v \in User, k \in Map : loading'[v][k] =
                 IF v = u /\ k = m THEN loading[v][k] + 1 ELSE loading[v][k]
          BY <1>0, <4>1 DEF PageTypes
        <4>4. \A v \in User : moves'[v] = IF v = u THEN moves[v] + 1 ELSE moves[v]
          BY <1>0, <1>2 DEF PageTypes
        <4>5. ASSUME NEW v \in User, NEW k \in Map PROVE loading'[v][k] <= moves'[v] + 1
          <5>1. loading[v][k] \in Nat /\ moves[v] \in Nat /\ loading[v][k] <= moves[v] + 1
            BY <1>0 DEF PageTypes
          <5> QED
            BY <4>3, <4>4, <5>1
        <4> QED
          BY <4>2, <4>5
      <3> QED
        BY <3>1, <3>2
    <2> QED
      BY <2>1, <2>2, <2>3 DEF PageTypes
  <1>4. PeopleTypes' /\ CallTypes'
    <2>1. UNCHANGED <<peopleVars, waiting, toast>>
      BY DEF Navigate
    <2>2. /\ inConversation' \in [User -> BOOLEAN]
          /\ participating' \in [User -> BOOLEAN]
          /\ live' \in [User -> BOOLEAN]
      BY <1>0 DEF Navigate, CallTypes
    <2> QED
      BY <1>0, <2>1, <2>2 DEF CallTypes, PeopleTypes, peopleVars
  <1>5. NetTypes'
    <2>1. Send(u, Farewell(u)) /\ Farewell(u) \in Seq(Message)
      BY FarewellIs DEF Navigate
    <2>2. sendBuffer' \in [User -> Seq(Message)] /\ toServer' \in [Socket -> Seq(Message)]
      BY <1>0, <2>1, SendType
    <2>3. UNCHANGED <<link, toClient, losses, incidents, clicks>>
      BY DEF Navigate
    <2> QED
      BY <1>0, <1>1, <2>2, <2>3 DEF NetTypes
  <1> QED
    BY <1>1, <1>3, <1>4, <1>5 DEF Types

\* The answer that starts the map.
LEMMA LoadedTypes ==
    ASSUME Types, NEW u \in User, NEW m \in Map, Loaded(u, m)
    PROVE  Types'
  <1>0. PageTypes /\ PeopleTypes /\ CallTypes /\ NetTypes
    BY DEF Types
  <1>1. P!TypeOK' /\ connected' = connected
    BY ServerRests DEF Loaded
  <1>2. PageTypes'
    <2>1. /\ loading[u][m] > 0 /\ loading' = [loading EXCEPT ![u][m] = @ - 1]
          /\ UNCHANGED <<mapId, moves>> /\ activeMap' = [activeMap EXCEPT ![u] = m]
      BY DEF Loaded
    <2>2. loading[u][m] - 1 \in Nat
      BY <1>0, <2>1 DEF PageTypes
    <2>3. loading' \in [User -> [Map -> Nat]]
      BY <1>0, <2>1, <2>2 DEF PageTypes
    <2>4. \A v \in User, k \in Map :
             loading'[v][k] = IF v = u /\ k = m THEN loading[v][k] - 1 ELSE loading[v][k]
      BY <1>0, <2>1 DEF PageTypes
    <2>5. ASSUME NEW v \in User, NEW k \in Map PROVE loading'[v][k] <= moves'[v] + 1
      <3>1. loading[v][k] \in Nat /\ moves[v] \in Nat /\ loading[v][k] <= moves[v] + 1
        BY <1>0 DEF PageTypes
      <3> QED
        BY <2>1, <2>4, <3>1
    <2> QED
      BY <1>0, <2>1, <2>3, <2>5 DEF PageTypes
  <1>3. PeopleTypes'
    BY <1>0 DEF Loaded, PeopleTypes
  <1>4. CallTypes'
    BY <1>0 DEF Loaded, CallTypes
  <1>5. NetTypes'
    <2>1. JoinMapMessage(m) \in Message
      BY SayTypes
    <2>2. Send(u, <<JoinMapMessage(m)>>) /\ <<JoinMapMessage(m)>> \in Seq(Message)
      BY <2>1 DEF Loaded, Greeting
    <2>3. sendBuffer' \in [User -> Seq(Message)] /\ toServer' \in [Socket -> Seq(Message)]
      BY <1>0, <2>2, SendType
    <2>4. UNCHANGED <<link, toClient, losses, clicks>> /\ incidents' \subseteq Incident
      BY <1>0 DEF Loaded, NetTypes, Incident, Disorder
    <2> QED
      BY <1>0, <1>1, <2>3, <2>4 DEF NetTypes
  <1> QED
    BY <1>1, <1>2, <1>3, <1>4, <1>5 DEF Types

\* What the 'connect' handler sends, then what the page held.
LEMMA RejoinIs ==
    ASSUME Types, NEW u \in User
    PROVE  /\ Rejoin(u) \in Seq(Message)
           /\ Rejoin(u) \o sendBuffer[u] \in Seq(Message)
           /\ activeMap[u] = NoMap => Rejoin(u) = <<>>
           /\ activeMap[u] # NoMap => Rejoin(u) = <<JoinMapMessage(activeMap[u])>>
  <1>1. activeMap[u] # NoMap => JoinMapMessage(activeMap[u]) \in Message
    BY SayTypes DEF Types, PageTypes
  <1>2. Rejoin(u) \in Seq(Message)
    BY <1>1 DEF Rejoin
  <1>3. sendBuffer[u] \in Seq(Message)
    BY DEF Types, NetTypes
  <1> QED
    BY <1>2, <1>3, ConcatProperties DEF Rejoin

\* A page that connects, and sends what it held back.
LEMMA ConnectTypes ==
    ASSUME Types, NEW u \in User, Connect(u)
    PROVE  Types'
  <1>0. PageTypes /\ PeopleTypes /\ CallTypes /\ NetTypes
    BY DEF Types
  <1>1. PICK s \in Socket \ connected :
           /\ Owner[s] = u
           /\ Server!Connect(s)
           /\ link' = [link EXCEPT ![u] = s]
           /\ toServer' = [toServer EXCEPT ![s] = Rejoin(u) \o sendBuffer[u]]
    BY DEF Connect
  <1>2. P!TypeOK'
    <2>1. P!AnyEvent(s)
      BY <1>1, SameConnect DEF P!AnyEvent
    <2> QED
      BY <2>1, P!EventType, ServerAssumptions DEF Types
  <1>3. connected' = connected \cup {s}
    BY <1>1 DEF Server!Connect
  <1>4. /\ sendBuffer' = [sendBuffer EXCEPT ![u] = <<>>]
        /\ incidents' \subseteq Incident
        /\ UNCHANGED <<pageVars, peopleVars, callVars, toClient, losses, clicks>>
    BY <1>0 DEF Connect, NetTypes, Incident, Disorder, Miscall
  <1>5. NetTypes'
    <2>1. sendBuffer' \in [User -> Seq(Message)] /\ toServer' \in [Socket -> Seq(Message)]
      BY <1>0, <1>1, <1>4, RejoinIs DEF NetTypes
    <2> QED
      BY <1>0, <1>1, <1>3, <1>4, <2>1 DEF NetTypes
  <1>6. PageTypes' /\ PeopleTypes' /\ CallTypes'
    BY <1>0, <1>4 DEF PageTypes, PeopleTypes, CallTypes, pageVars, peopleVars, callVars
  <1> QED
    BY <1>2, <1>5, <1>6 DEF Types

\* A page that loses its connection.
LEMMA LoseTypes ==
    ASSUME Types, NEW u \in User, Lose(u)
    PROVE  Types'
  <1> DEFINE s == link[u]
  <1>0. PageTypes /\ PeopleTypes /\ CallTypes /\ NetTypes
    BY DEF Types
  <1>1. P!TypeOK' /\ connected' = connected
    BY ServerRests DEF Lose
  <1>2. s \in Socket /\ toServer[s] \in Seq(Message)
    BY <1>0 DEF Lose, NetTypes
  <1>3. PICK n \in 0..Len(toServer[s]) : toServer' = [toServer EXCEPT ![s] = SubSeq(@, 1, n)]
    BY DEF Lose
  <1>4. toServer' \in [Socket -> Seq(Message)]
    <2>1. SubSeq(toServer[s], 1, n) \in Seq(Message)
      BY <1>2, <1>3, SubSeqProperties
    <2> QED
      BY <1>0, <1>3, <2>1 DEF NetTypes
  <1>5. NetTypes'
    <2>1. /\ losses[u] < MaxLosses[u] /\ losses' = [losses EXCEPT ![u] = @ + 1]
          /\ link' = [link EXCEPT ![u] = NoSocket]
          /\ toClient' = [toClient EXCEPT ![s] = <<>>]
          /\ UNCHANGED <<sendBuffer, incidents, clicks>>
      BY DEF Lose
    <2>0. /\ losses \in [User -> Nat] /\ MaxLosses \in [User -> Nat]
          /\ link \in [User -> Socket \cup {NoSocket}]
          /\ toClient \in [Socket -> Seq(Notice)]
          /\ \A v \in User : losses[v] <= MaxLosses[v]
      BY <1>0, BoundsAssumption DEF NetTypes
    <2>5. losses' \in [User -> Nat] /\ \A v \in User : losses'[v] <= MaxLosses[v]
      <3>1. losses[u] + 1 \in Nat /\ losses[u] + 1 <= MaxLosses[u]
        BY <2>0, <2>1
      <3> QED
        BY <2>0, <2>1, <3>1
    <2>6. link' \in [User -> Socket \cup {NoSocket}]
      BY <2>0, <2>1
    <2>7. toClient' \in [Socket -> Seq(Notice)]
      <3>1. <<>> \in Seq(Notice)
        OBVIOUS
      <3> HIDE DEF s
      <3> QED
        BY <1>2, <2>0, <2>1, <3>1
    <2>2. /\ losses' \in [User -> Nat] /\ \A v \in User : losses'[v] <= MaxLosses[v]
          /\ link' \in [User -> Socket \cup {NoSocket}]
          /\ toClient' \in [Socket -> Seq(Notice)]
      BY <2>5, <2>6, <2>7
    <2>3. \A v \in User : link'[v] # NoSocket => link'[v] = link[v]
      BY <2>0, <2>1
    <2>4. \A v \in User : link'[v] # NoSocket => link'[v] \in connected' /\ Owner[link'[v]] = v
      BY <1>0, <1>1, <2>3 DEF NetTypes
    <2> QED
      BY <1>0, <1>4, <2>1, <2>2, <2>4 DEF NetTypes
  <1>6. PageTypes' /\ PeopleTypes' /\ CallTypes'
    BY <1>0 DEF Lose, PageTypes, PeopleTypes, CallTypes, pageVars, peopleVars, callVars
  <1> QED
    BY <1>1, <1>5, <1>6 DEF Types

\* The server's messages reach the pages as notices.
LEMMA DeliverTypes ==
    ASSUME NetTypes, P!TypeOK', NEW talking \in BOOLEAN, Deliver(talking)
    PROVE  toClient' \in [Socket -> Seq(Notice)]
  <1>1. emitted' \in Seq(P!Emission)
    BY DEF P!TypeOK
  <1>2. ASSUME NEW t \in Socket PROVE For(t, emitted', talking) \in Seq(Notice)
    <2> DEFINE one(e) ==
                 IF t \in e.to /\ e.type \in Told
                 THEN <<[type |-> e.type, about |-> e.about, talking |-> talking]>> ELSE <<>>
               parts == [i \in DOMAIN emitted' |-> one(emitted'[i])]
    <2>1. ASSUME NEW e \in P!Emission PROVE one(e) \in Seq(Notice)
      <3>1. e.about \in P!UserKey \cup Socket /\ e.about \in P!Named(e.type)
        BY DEF P!Emission
      <3>2. e.type \in Told =>
               [type |-> e.type, about |-> e.about, talking |-> talking] \in Notice
        BY <3>1 DEF Notice
      <3> QED
        BY <3>2
    <2>2. parts \in Seq(Seq(Notice))
      <3> HIDE DEF one
      <3>1. \A i \in DOMAIN emitted' : one(emitted'[i]) \in Seq(Notice)
        BY <1>1, <2>1
      <3>2. DOMAIN emitted' = 1..Len(emitted') /\ Len(emitted') \in Nat
        BY <1>1
      <3> QED
        BY <3>1, <3>2
    <2>3. For(t, emitted', talking) = FlattenSeq(parts)
      BY DEF For
    <2> HIDE DEF parts
    <2> QED
      BY <2>2, <2>3, FlattenType
  <1> HIDE DEF For
  <1>3. \A t \in Socket : toClient[t] \o For(t, emitted', talking) \in Seq(Notice)
    BY <1>2, ConcatProperties DEF NetTypes
  <1> QED
    BY <1>3 DEF Deliver, NetTypes

\* The messages of a connection, one at a time.
LEMMA HeadMessage ==
    ASSUME Types, NEW s \in Socket, toServer[s] # <<>>
    PROVE  Head(toServer[s]) \in Message /\ Tail(toServer[s]) \in Seq(Message)
  <1>1. toServer[s] \in Seq(Message)
    BY DEF Types, NetTypes
  <1> QED
    BY <1>1, HeadTailProperties

\* What the server does with the head e of a queue.
ServerTakes(s, e) ==
    \/ e.type = "JOIN_MAP" /\ P!JoinMap(s, e.map)
    \/ e.type = "LEAVE_MAP" /\ P!LeaveMap(s)
    \/ e.type = "JOIN_CALL" /\ P!JoinCall(s, e.map)
    \/ e.type = "LEAVE_CALL" /\ P!LeaveCall(s, e.map)
    \/ /\ e.type \in Passed
       /\ \/ P!SendMapperInfo(s, e.map, e.peer)
          \/ P!InviteACall(s, e.map, e.peer)
          \/ P!InviteToJoin(s, e.map, e.peer)
          \/ P!AcceptCall(s, e.map, e.peer)

\* What the server does with one message, in terms of its own module.
LEMMA HandleIs ==
    ASSUME Types, NEW s \in Socket, Handle(s)
    PROVE  /\ Head(toServer[s]) \in Message /\ Tail(toServer[s]) \in Seq(Message)
           /\ toServer[s] # <<>>
           /\ toServer' = [toServer EXCEPT ![s] = Tail(@)]
           /\ ServerTakes(s, Head(toServer[s]))
           /\ P!AnyEvent(s)
           /\ Deliver(Head(toServer[s]).talking)
           /\ connected' = connected
  <1> DEFINE e == Head(toServer[s])
  <1>1. toServer[s] # <<>>
    BY DEF Handle
  <1>2. e \in Message /\ Tail(toServer[s]) \in Seq(Message)
    BY <1>1, HeadMessage
  <1>3. /\ \/ e.type = "JOIN_MAP" /\ Server!JoinMap(s, e.map)
           \/ e.type = "LEAVE_MAP" /\ Server!LeaveMap(s)
           \/ e.type = "JOIN_CALL" /\ Server!JoinCall(s, e.map)
           \/ e.type = "LEAVE_CALL" /\ Server!LeaveCall(s, e.map)
           \/ e.type = "SEND_MAPPER_INFO" /\ Server!SendMapperInfo(s, e.map, e.peer)
           \/ e.type = "INVITE_A_CALL" /\ Server!InviteACall(s, e.map, e.peer)
           \/ e.type = "INVITE_TO_JOIN" /\ Server!InviteToJoin(s, e.map, e.peer)
           \/ e.type = "ACCEPT_CALL" /\ Server!AcceptCall(s, e.map, e.peer)
        /\ Deliver(e.talking)
        /\ toServer' = [toServer EXCEPT ![s] = Tail(@)]
    BY DEF Handle
  <1> HIDE DEF e
  <1>4. ServerTakes(s, e)
    BY <1>3, SameJoinMap, SameLeaveMap, SameCalls, SameRelays DEF ServerTakes, Passed
  <1>5. /\ e.type # "LEAVE_MAP" => e.map \in Map
        /\ e.type \in Passed => e.peer \in User
    BY <1>2 DEF Message
  <1>6. P!AnyEvent(s)
    <2>1. CASE e.type = "LEAVE_MAP"
      BY <1>4, <2>1 DEF ServerTakes, Passed, P!AnyEvent
    <2>2. CASE e.type # "LEAVE_MAP"
      <3>1. P!MapEvent(s, e.map) \/ P!AnyRelay(s, e.map)
        BY <1>4, <1>5, <2>2 DEF ServerTakes, P!MapEvent, P!AnyRelay
      <3> QED
        BY <1>5, <2>2, <3>1 DEF P!AnyEvent
    <2> QED
      BY <2>1, <2>2
  <1>7. connected' = connected
    BY <1>4 DEF ServerTakes, P!JoinMap, P!LeaveMap, P!JoinCall, P!LeaveCall, P!SendMapperInfo,
                P!InviteACall, P!InviteToJoin, P!AcceptCall, P!Relay, P!serverVars
  <1> QED
    BY <1>1, <1>2, <1>3, <1>4, <1>6, <1>7 DEF e

\* The server takes a message.
LEMMA HandleTypes ==
    ASSUME Types, NEW s \in Socket, Handle(s)
    PROVE  Types'
  <1>0. PageTypes /\ PeopleTypes /\ CallTypes /\ NetTypes
    BY DEF Types
  <1>1. P!TypeOK'
    BY HandleIs, P!EventType, ServerAssumptions DEF Types
  <1>2. toClient' \in [Socket -> Seq(Notice)]
    <2>1. Head(toServer[s]).talking \in BOOLEAN
      BY HandleIs DEF Message
    <2> QED
      BY <1>0, <1>1, <2>1, HandleIs, DeliverTypes
  <1>3. /\ UNCHANGED <<pageVars, peopleVars, callVars, link, sendBuffer, losses, clicks>>
        /\ incidents' \subseteq Incident
    BY <1>0 DEF Handle, NetTypes, Incident
  <1>4. NetTypes'
    <2>1. toServer' \in [Socket -> Seq(Message)]
      BY <1>0, HandleIs DEF NetTypes
    <2> QED
      BY <1>0, <1>2, <1>3, <2>1, HandleIs DEF NetTypes
  <1>5. PageTypes' /\ PeopleTypes' /\ CallTypes'
    BY <1>0, <1>3 DEF PageTypes, PeopleTypes, CallTypes, pageVars, peopleVars, callVars
  <1> QED
    BY <1>1, <1>4, <1>5 DEF Types

\* The server finds a connection gone.
LEMMA DisconnectTypes ==
    ASSUME Types, NEW s \in Socket, Disconnect(s)
    PROVE  Types'
  <1>0. PageTypes /\ PeopleTypes /\ CallTypes /\ NetTypes
    BY DEF Types
  <1>1. P!Disconnect(s) /\ link[Owner[s]] # s
    BY SameDisconnect DEF Disconnect, Dead
  <1>2. P!TypeOK'
    <2>1. P!AnyEvent(s)
      BY <1>1 DEF P!AnyEvent
    <2> QED
      BY <2>1, P!EventType, ServerAssumptions DEF Types
  <1>3. toClient' \in [Socket -> Seq(Notice)]
    <2>1. Deliver(FALSE)
      BY DEF Disconnect
    <2> QED
      BY <1>0, <1>2, <2>1, DeliverTypes
  <1>4. UNCHANGED <<pageVars, peopleVars, callVars, link, sendBuffer, toServer, losses, incidents,
                    clicks>>
    BY DEF Disconnect
  <1>5. NetTypes'
    <2>1. connected' = connected \ {s}
      BY <1>1 DEF P!Disconnect
    <2> QED
      BY <1>0, <1>1, <1>3, <1>4, <2>1 DEF NetTypes
  <1>6. PageTypes' /\ PeopleTypes' /\ CallTypes'
    BY <1>0, <1>4 DEF PageTypes, PeopleTypes, CallTypes, pageVars, peopleVars, callVars
  <1> QED
    BY <1>2, <1>5, <1>6 DEF Types

\* The steps of Next, with the events that leave a page where it is under one name.
LEMMA NextIs ==
    ASSUME Next
    PROVE  \/ \E u \in User : \/ Connect(u)
                              \/ Lose(u)
                              \/ \E m \in Map \cup {NoMap} : Navigate(u, m)
                              \/ \E m \in Map : Loaded(u, m)
                              \/ StayingEvent(u)
           \/ \E s \in Socket : Handle(s) \/ Disconnect(s)
  <1>1. \A u \in User : Opens[u] \subseteq Map
    BY PageAssumption
  <1> QED
    BY <1>1 DEF Next, PageEvent, StayingEvent

\* Every step keeps the types.
LEMMA TypesStep == Types /\ [Next]_vars => Types'
  <1> SUFFICES ASSUME Types, [Next]_vars PROVE Types'
    OBVIOUS
  <1>1. CASE UNCHANGED vars
    BY <1>1 DEF vars, serverVars, pageVars, peopleVars, callVars, netVars, Types, P!TypeOK,
                PageTypes, PeopleTypes, CallTypes, NetTypes
  <1> QED
    BY <1>1, NextIs, ConnectTypes, LoseTypes, NavigateTypes, LoadedTypes, StayingTypes,
       HandleTypes, DisconnectTypes

\* The variables of the pages and of their connections have their types.
THEOREM PagesTypeCorrect == Spec => []TypeOK
  BY InitTypes, TypesStep, TypesAreOK, PTL DEF Spec

-----------------------------------------------------------------------------
\* Queues.

Joins(e) == e.type = "JOIN_MAP"
Leaves(e) == e.type = "LEAVE_MAP"

\* The maps joined and not left again when the first j - 1 messages of q are taken by a
\* connection that is on the maps in S.
At(S, q, j) ==
    {m \in S : \A k \in 1..j - 1 : ~Leaves(q[k])}
        \cup {m \in Map : \E i \in 1..j - 1 :
                 /\ Joins(q[i]) /\ q[i].map = m
                 /\ \A k \in i + 1..j - 1 : ~Leaves(q[k])}

\* What is left when all of q is taken.
InTheEnd(S, q) == At(S, q, Len(q) + 1)

\* What taking one message does.
After(S, e) == IF Leaves(e) THEN {} ELSE IF Joins(e) THEN S \cup {e.map} ELSE S

\* A map is joined only from no map or from the map itself.
Orderly(S, q) == \A j \in 1..Len(q) : Joins(q[j]) => At(S, q, j) \subseteq {q[j].map}

\* A call is joined only on the map it belongs to.
Placed(S, q) == \A j \in 1..Len(q) : q[j].type = "JOIN_CALL" => q[j].map \in At(S, q, j)

\* At looks at the messages before the j-th only.
LEMMA AtAgrees ==
    ASSUME NEW S, NEW q, NEW r, NEW j \in Nat, \A k \in 1..j - 1 : q[k] = r[k]
    PROVE  At(S, q, j) = At(S, r, j)
  BY DEF At, Joins, Leaves

\* At grows with the set it starts from, by no more than what is added.
LEMMA AtGrows ==
    ASSUME NEW S, NEW T, NEW q, NEW j \in Nat
    PROVE  /\ At(S \cup T, q, j) \subseteq At(S, q, j) \cup T
           /\ \A m \in S : m \in At(T, q, j) => m \in At(S, q, j)
           /\ S \subseteq T => At(S, q, j) \subseteq At(T, q, j)
  BY DEF At

\* Before the first message nothing has changed.
LEMMA AtFirst ==
    ASSUME NEW S, NEW q
    PROVE  At(S, q, 1) = S
  BY DEF At

\* One message more.
LEMMA AtNext ==
    ASSUME NEW S, NEW q, NEW j \in Nat \ {0}, Joins(q[j]) => q[j].map \in Map
    PROVE  At(S, q, j + 1) = After(At(S, q, j), q[j])
  <1>1. \A k : k \in 1..j <=> k \in 1..j - 1 \/ k = j
    OBVIOUS
  <1>2. CASE Leaves(q[j])
    <2>1. At(S, q, j + 1) = {}
      <3>1. \A i \in 1..j - 1 : j \in i + 1..j
        OBVIOUS
      <3>2. \A i \in 1..j : i = j \/ j \in i + 1..j
        OBVIOUS
      <3>3. ~Joins(q[j]) /\ j \in 1..j /\ j + 1 - 1 = j
        BY <1>2 DEF Joins, Leaves
      <3> QED
        BY <1>2, <3>2, <3>3 DEF At
    <2> QED
      BY <1>2, <2>1 DEF After
  <1>3. CASE ~Leaves(q[j])
    <2>1. /\ \A k \in 1..j - 1 : ~Leaves(q[k])
          <=> \A k \in 1..j : ~Leaves(q[k])
      BY <1>1, <1>3
    <2>2. \A i \in 1..j - 1 : (\A k \in i + 1..j - 1 : ~Leaves(q[k]))
                               <=> (\A k \in i + 1..j : ~Leaves(q[k]))
      <3>1. \A i \in 1..j - 1 : \A k : k \in i + 1..j <=> k \in i + 1..j - 1 \/ k = j
        OBVIOUS
      <3> QED
        BY <1>3, <3>1
    <2>3. \A k \in j + 1..j : ~Leaves(q[k])
      OBVIOUS
    <2>4. ASSUME NEW m PROVE m \in At(S, q, j + 1) <=> m \in After(At(S, q, j), q[j])
      <3>1. m \in At(S, q, j + 1) <=>
               \/ m \in S /\ \A k \in 1..j : ~Leaves(q[k])
               \/ m \in Map /\ \E i \in 1..j : /\ Joins(q[i]) /\ q[i].map = m
                                               /\ \A k \in i + 1..j : ~Leaves(q[k])
        <4>1. j + 1 - 1 = j
          OBVIOUS
        <4> QED
          BY <4>1 DEF At
      <3>2. m \in At(S, q, j) <=>
               \/ m \in S /\ \A k \in 1..j - 1 : ~Leaves(q[k])
               \/ m \in Map /\ \E i \in 1..j - 1 : /\ Joins(q[i]) /\ q[i].map = m
                                                   /\ \A k \in i + 1..j - 1 : ~Leaves(q[k])
        BY DEF At
      <3>3. (\E i \in 1..j : /\ Joins(q[i]) /\ q[i].map = m
                             /\ \A k \in i + 1..j : ~Leaves(q[k]))
            <=> \/ \E i \in 1..j - 1 : /\ Joins(q[i]) /\ q[i].map = m
                                       /\ \A k \in i + 1..j - 1 : ~Leaves(q[k])
                \/ Joins(q[j]) /\ q[j].map = m
        BY <1>1, <2>2, <2>3
      <3> QED
        BY <1>3, <2>1, <3>1, <3>2, <3>3 DEF After
    <2> QED
      BY <2>4
  <1> QED
    BY <1>2, <1>3

\* Taking the first message.
LEMMA AtTail ==
    ASSUME NEW S \in SUBSET Map, NEW q \in Seq(Message), q # <<>>, NEW j \in 1..Len(q)
    PROVE  At(After(S, Head(q)), Tail(q), j) = At(S, q, j + 1)
  <1> DEFINE r == Tail(q)
  <1>1. /\ Len(q) \in Nat \ {0} /\ q[1] \in Message /\ Head(q) = q[1]
        /\ r \in Seq(Message) /\ Len(r) = Len(q) - 1
        /\ \A i \in 1..Len(r) : r[i] = q[i + 1]
    <2>1. Len(q) \in Nat \ {0}
      BY EmptySeq
    <2> QED
      BY <2>1, HeadTailProperties, ElementOfSeq
  <1>2. q[1].map \in Map \cup {NoMap} /\ (Joins(q[1]) => q[1].map \in Map)
    BY <1>1 DEF Message, Joins
  <1> HIDE DEF r
  <1>3. \A i \in 1..j - 1 : i \in 1..Len(r) /\ r[i] = q[i + 1]
    BY <1>1
  <1>4. \A i \in 1..j : i = 1 \/ (i - 1 \in 1..j - 1 /\ q[i] = r[i - 1])
    BY <1>1, <1>3
  <1>5. (\A k \in 1..j : ~Leaves(q[k])) <=> ~Leaves(q[1]) /\ \A k \in 1..j - 1 : ~Leaves(r[k])
    <2>1. 1 \in 1..j /\ \A k \in 1..j - 1 : k + 1 \in 1..j
      OBVIOUS
    <2> QED
      BY <1>3, <1>4, <2>1
  <1>6. (\A k \in 2..j : ~Leaves(q[k])) <=> \A k \in 1..j - 1 : ~Leaves(r[k])
    <2>1. \A k \in 1..j - 1 : k + 1 \in 2..j
      OBVIOUS
    <2>2. \A k \in 2..j : k - 1 \in 1..j - 1 /\ q[k] = r[k - 1]
      BY <1>4
    <2> QED
      BY <1>3, <2>1, <2>2
  <1>7. ASSUME NEW i \in 1..j - 1
        PROVE  (\A k \in i + 1..j - 1 : ~Leaves(r[k])) <=> \A k \in i + 2..j : ~Leaves(q[k])
    <2>1. \A k \in i + 1..j - 1 : k + 1 \in i + 2..j /\ k \in 1..j - 1
      OBVIOUS
    <2>2. \A k \in i + 2..j : k - 1 \in i + 1..j - 1 /\ k \in 1..j /\ k # 1
      OBVIOUS
    <2> QED
      BY <1>3, <1>4, <2>1, <2>2
  <1>8. ASSUME NEW m PROVE m \in At(After(S, q[1]), r, j) <=> m \in At(S, q, j + 1)
    <2>1. m \in At(S, q, j + 1) <=>
             \/ m \in S /\ \A k \in 1..j : ~Leaves(q[k])
             \/ m \in Map /\ \E i \in 1..j : /\ Joins(q[i]) /\ q[i].map = m
                                             /\ \A k \in i + 1..j : ~Leaves(q[k])
      <3>1. j + 1 - 1 = j
        OBVIOUS
      <3> QED
        BY <3>1 DEF At
    <2>2. m \in At(After(S, q[1]), r, j) <=>
             \/ m \in After(S, q[1]) /\ \A k \in 1..j - 1 : ~Leaves(r[k])
             \/ m \in Map /\ \E i \in 1..j - 1 : /\ Joins(r[i]) /\ r[i].map = m
                                                 /\ \A k \in i + 1..j - 1 : ~Leaves(r[k])
      BY DEF At
    <2>3. (\E i \in 1..j : /\ Joins(q[i]) /\ q[i].map = m
                           /\ \A k \in i + 1..j : ~Leaves(q[k]))
          <=> \/ Joins(q[1]) /\ q[1].map = m /\ \A k \in 2..j : ~Leaves(q[k])
              \/ \E i \in 1..j - 1 : /\ Joins(r[i]) /\ r[i].map = m
                                     /\ \A k \in i + 2..j : ~Leaves(q[k])
      <3>1. ASSUME NEW i \in 1..j - 1, Joins(r[i]), r[i].map = m,
                   \A k \in i + 2..j : ~Leaves(q[k])
            PROVE  \E h \in 1..j : /\ Joins(q[h]) /\ q[h].map = m
                                   /\ \A k \in h + 1..j : ~Leaves(q[k])
        <4>1. i + 1 \in 1..j /\ i + 1 + 1 = i + 2
          OBVIOUS
        <4> QED
          BY <1>3, <3>1, <4>1
      <3>2. ASSUME NEW i \in 1..j, Joins(q[i]), q[i].map = m, i # 1,
                   \A k \in i + 1..j : ~Leaves(q[k])
            PROVE  \E h \in 1..j - 1 : /\ Joins(r[h]) /\ r[h].map = m
                                       /\ \A k \in h + 2..j : ~Leaves(q[k])
        <4>1. i - 1 \in 1..j - 1 /\ i - 1 + 2 = i + 1
          BY <3>2
        <4> QED
          BY <1>4, <3>2, <4>1
      <3>3. 1 \in 1..j /\ 1 + 1 = 2
        OBVIOUS
      <3> QED
        BY <3>1, <3>2, <3>3
    <2>4. Joins(q[1]) => ~Leaves(q[1])
      BY DEF Joins, Leaves
    <2> QED
      BY <1>2, <1>5, <1>6, <1>7, <2>1, <2>2, <2>3, <2>4 DEF After
  <1> QED
    BY <1>1, <1>8 DEF r

\* What is said without joining or leaving a map goes to the end of a queue.
Chatter(c) == \A k \in 1..Len(c) : ~Joins(c[k]) /\ ~Leaves(c[k])

\* Messages that join and leave no map change nothing.
LEMMA AtChatter ==
    ASSUME NEW S, NEW q \in Seq(Message), NEW c \in Seq(Message), Chatter(c),
           NEW j \in Len(q) + 1..Len(q) + Len(c) + 1
    PROVE  At(S, q \o c, j) = InTheEnd(S, q)
  <1> DEFINE r == q \o c
             n == Len(q)
  <1>1. /\ n \in Nat /\ Len(c) \in Nat
        /\ \A k \in 1..n : r[k] = q[k]
        /\ \A k \in n + 1..j - 1 : ~Joins(r[k]) /\ ~Leaves(r[k])
    <2>1. n \in Nat /\ Len(c) \in Nat
      BY LenProperties
    <2>2. \A k \in 1..n + Len(c) : r[k] = IF k <= n THEN q[k] ELSE c[k - n]
      BY ConcatProperties
    <2> HIDE DEF r, n
    <2>3. \A k \in n + 1..j - 1 : k - n \in 1..Len(c) /\ k \in 1..n + Len(c) /\ ~(k <= n)
      BY <2>1 DEF n
    <2>4. \A k \in 1..n : k \in 1..n + Len(c) /\ k <= n
      BY <2>1
    <2> QED
      BY <2>1, <2>2, <2>3, <2>4 DEF Chatter
  <1> HIDE DEF r, n
  <1>2. At(S, r, j) = At(S, r, n + 1)
    <2>1. j \in n + 1..n + Len(c) + 1 /\ n + 1 - 1 = n
      BY <1>1 DEF n
    <2>2. \A k \in 1..n : k \in 1..j - 1
      BY <1>1, <2>1
    <2>3. \A k \in 1..j - 1 : k \in 1..n \/ k \in n + 1..j - 1
      BY <1>1, <2>1
    <2>4. ASSUME NEW i \in 1..n
          PROVE  (\A k \in i + 1..n : ~Leaves(r[k])) <=> (\A k \in i + 1..j - 1 : ~Leaves(r[k]))
      <3>1. \A k \in i + 1..n : k \in i + 1..j - 1
        BY <1>1, <2>1
      <3>2. \A k \in i + 1..j - 1 : k \in i + 1..n \/ k \in n + 1..j - 1
        BY <1>1, <2>1
      <3> QED
        BY <1>1, <3>1, <3>2
    <2> QED
      BY <1>1, <2>1, <2>2, <2>3, <2>4, SMTT(60) DEF At
  <1>3. At(S, r, n + 1) = At(S, q, n + 1)
    <2>1. n + 1 \in Nat /\ n + 1 - 1 = n
      BY <1>1
    <2> QED
      BY <1>1, <2>1, AtAgrees
  <1> QED
    BY <1>2, <1>3 DEF r, n, InTheEnd

\* ... so appending them keeps a queue orderly and placed, if their calls are on the map.
LEMMA AppendChatter ==
    ASSUME NEW S, NEW q \in Seq(Message), NEW c \in Seq(Message), Chatter(c)
    PROVE  /\ q \o c \in Seq(Message)
           /\ InTheEnd(S, q \o c) = InTheEnd(S, q)
           /\ Orderly(S, q) => Orderly(S, q \o c)
           /\ /\ Placed(S, q)
              /\ \A k \in 1..Len(c) : c[k].type = "JOIN_CALL" => c[k].map \in InTheEnd(S, q)
              => Placed(S, q \o c)
  <1> DEFINE r == q \o c
             n == Len(q)
  <1>1. /\ n \in Nat /\ Len(c) \in Nat /\ r \in Seq(Message) /\ Len(r) = n + Len(c)
        /\ \A k \in 1..n + Len(c) : r[k] = IF k <= n THEN q[k] ELSE c[k - n]
    BY LenProperties, ConcatProperties
  <1>2. \A j \in n + 1..n + Len(c) + 1 : At(S, r, j) = InTheEnd(S, q)
    BY AtChatter
  <1> HIDE DEF r, n
  <1>3. \A j \in 1..n : At(S, r, j) = At(S, q, j) /\ r[j] = q[j]
    <2>1. \A j \in 1..n : j \in 1..n + Len(c) /\ j <= n
      BY <1>1
    <2>2. \A j \in 1..n : r[j] = q[j]
      BY <1>1, <2>1
    <2>3. \A j \in 1..n : j \in Nat /\ \A k \in 1..j - 1 : k \in 1..n
      BY <1>1
    <2> QED
      BY <2>2, <2>3, AtAgrees
  <1>4. \A j \in n + 1..n + Len(c) : j - n \in 1..Len(c) /\ r[j] = c[j - n]
    <2>1. \A j \in n + 1..n + Len(c) : j - n \in 1..Len(c) /\ j \in 1..n + Len(c) /\ ~(j <= n)
      BY <1>1
    <2> QED
      BY <1>1, <2>1
  <1>5. \A j \in 1..Len(r) : j \in 1..n \/ (j \in n + 1..n + Len(c) /\ j \in n + 1..n + Len(c) + 1)
    BY <1>1
  <1>6. InTheEnd(S, r) = InTheEnd(S, q)
    <2>1. Len(r) + 1 \in n + 1..n + Len(c) + 1
      BY <1>1
    <2> QED
      BY <1>2, <2>1 DEF InTheEnd
  <1>7. Orderly(S, q) => Orderly(S, r)
    BY <1>3, <1>4, <1>5 DEF Orderly, Chatter, n
  <1>8. /\ Placed(S, q)
        /\ \A k \in 1..Len(c) : c[k].type = "JOIN_CALL" => c[k].map \in InTheEnd(S, q)
        => Placed(S, r)
    BY <1>2, <1>3, <1>4, <1>5 DEF Placed, n
  <1> QED
    BY <1>1, <1>6, <1>7, <1>8 DEF r

\* One message more.
LEMMA AppendOne ==
    ASSUME NEW S, NEW q \in Seq(Message), NEW e \in Message
    PROVE  /\ q \o <<e>> \in Seq(Message)
           /\ InTheEnd(S, q \o <<e>>) = After(InTheEnd(S, q), e)
           /\ Orderly(S, q) /\ (Joins(e) => InTheEnd(S, q) \subseteq {e.map})
                 => Orderly(S, q \o <<e>>)
           /\ Placed(S, q) /\ e.type # "JOIN_CALL" => Placed(S, q \o <<e>>)
  <1> DEFINE r == q \o <<e>>
             n == Len(q)
  <1>1. /\ n \in Nat /\ r \in Seq(Message) /\ Len(r) = n + 1
        /\ \A k \in 1..n + 1 : r[k] = IF k <= n THEN q[k] ELSE e
    <2> DEFINE c == <<e>>
    <2>1. c \in Seq(Message) /\ Len(c) = 1 /\ c[1] = e
      OBVIOUS
    <2>2. n \in Nat
      BY LenProperties
    <2> HIDE DEF c
    <2>3. /\ q \o c \in Seq(Message) /\ Len(q \o c) = Len(q) + Len(c)
          /\ \A k \in 1..Len(q) + Len(c) : (q \o c)[k] = IF k <= Len(q) THEN q[k] ELSE c[k - Len(q)]
      BY <2>1, ConcatProperties
    <2>4. \A k \in 1..n + 1 : ~(k <= n) => k - n = 1
      BY <2>2
    <2> QED
      BY <2>1, <2>2, <2>3, <2>4 DEF c
  <1> HIDE DEF r, n
  <1>2. \A j \in 1..n + 1 : At(S, r, j) = At(S, q, j)
    <2>1. \A j \in 1..n + 1 : j \in Nat /\ \A k \in 1..j - 1 : k \in 1..n + 1 /\ k <= n
      BY <1>1
    <2> QED
      BY <1>1, <2>1, AtAgrees
  <1>3. \A j \in 1..n : r[j] = q[j]
    BY <1>1
  <1>4. r[n + 1] = e /\ n + 1 \in 1..n + 1 /\ n + 1 \in Nat \ {0}
    BY <1>1
  <1>5. Joins(e) => e.map \in Map
    BY DEF Joins, Message
  <1>6. InTheEnd(S, r) = After(InTheEnd(S, q), e)
    BY <1>1, <1>2, <1>4, <1>5, AtNext DEF InTheEnd, n
  <1>7. \A j \in 1..Len(r) : j \in 1..n + 1 /\ (j \in 1..n \/ j = n + 1)
    BY <1>1
  <1>8. Orderly(S, q) /\ (Joins(e) => InTheEnd(S, q) \subseteq {e.map}) => Orderly(S, r)
    BY <1>2, <1>3, <1>4, <1>7 DEF Orderly, InTheEnd, n
  <1>9. Placed(S, q) /\ e.type # "JOIN_CALL" => Placed(S, r)
    BY <1>2, <1>3, <1>4, <1>7 DEF Placed, n
  <1> QED
    BY <1>1, <1>6, <1>8, <1>9 DEF r

\* The empty queue.
LEMMA NothingSaid ==
    ASSUME NEW S
    PROVE  InTheEnd(S, <<>>) = S /\ Orderly(S, <<>>) /\ Placed(S, <<>>)
  <1>1. Len(<<>>) = 0 /\ 1..0 = {} /\ 0 + 1 = 1
    OBVIOUS
  <1> QED
    BY <1>1, AtFirst DEF InTheEnd, Orderly, Placed

\* What arrives of a queue whose end is lost.
LEMMA Prefix ==
    ASSUME NEW S, NEW q \in Seq(Message), NEW n \in 0..Len(q)
    PROVE  /\ Orderly(S, q) => Orderly(S, SubSeq(q, 1, n))
           /\ Placed(S, q) => Placed(S, SubSeq(q, 1, n))
  <1> DEFINE r == SubSeq(q, 1, n)
  <1>0. /\ Len(q) \in Nat /\ n \in Nat /\ n \in Int /\ 1 \in Int
        /\ \A i \in 1..n : i \in 1..Len(q) /\ q[i] \in Message
    BY LenProperties, ElementOfSeq
  <1>1. Len(r) = n /\ \A j \in 1..n : r[j] = q[j]
    <2>1. /\ Len(r) = IF 1 <= n THEN n - 1 + 1 ELSE 0
          /\ \A i \in 1..n - 1 + 1 : r[i] = q[1 + i - 1]
      BY <1>0, SubSeqProperties
    <2>2. n - 1 + 1 = n /\ (~(1 <= n) => n = 0) /\ \A i \in 1..n : 1 + i - 1 = i
      BY <1>0
    <2> QED
      BY <2>1, <2>2
  <1> HIDE DEF r
  <1>2. \A j \in 1..n : j \in 1..Len(q) /\ At(S, r, j) = At(S, q, j)
    <2>1. \A j \in 1..n : j \in Nat /\ \A k \in 1..j - 1 : k \in 1..n
      BY <1>0
    <2> QED
      BY <1>0, <1>1, <2>1, AtAgrees
  <1>3. Orderly(S, q) => Orderly(S, r)
    BY <1>1, <1>2 DEF Orderly
  <1>4. Placed(S, q) => Placed(S, r)
    BY <1>1, <1>2 DEF Placed
  <1> QED
    BY <1>3, <1>4 DEF r

\* What is left when the server has taken the first message.
LEMMA Taken ==
    ASSUME NEW S \in SUBSET Map, NEW q \in Seq(Message), q # <<>>
    PROVE  /\ Orderly(S, q) => Orderly(After(S, Head(q)), Tail(q))
           /\ Placed(S, q) => Placed(After(S, Head(q)), Tail(q))
           /\ InTheEnd(After(S, Head(q)), Tail(q)) = InTheEnd(S, q)
           /\ Orderly(S, q) /\ Joins(Head(q)) => S \subseteq {Head(q).map}
           /\ Placed(S, q) /\ Head(q).type = "JOIN_CALL" => Head(q).map \in S
  <1> DEFINE r == Tail(q)
             e == Head(q)
             T == After(S, e)
  <1>1. /\ Len(q) \in Nat \ {0} /\ e = q[1] /\ r \in Seq(Message)
        /\ Len(r) = Len(q) - 1 /\ \A i \in 1..Len(r) : r[i] = q[i + 1]
    <2>1. Len(q) \in Nat \ {0}
      BY EmptySeq
    <2> QED
      BY <2>1, HeadTailProperties
  <1>2. \A j \in 1..Len(q) : At(T, r, j) = At(S, q, j + 1)
    BY AtTail
  <1> HIDE DEF r, e, T
  <1>3. \A j \in 1..Len(r) : j \in 1..Len(q) /\ j + 1 \in 1..Len(q) /\ r[j] = q[j + 1]
    BY <1>1
  <1>4. InTheEnd(T, r) = InTheEnd(S, q)
    <2>1. Len(r) + 1 = Len(q) /\ Len(q) \in 1..Len(q)
      BY <1>1
    <2> QED
      BY <1>2, <2>1 DEF InTheEnd
  <1>5. Orderly(S, q) => Orderly(T, r)
    BY <1>2, <1>3 DEF Orderly
  <1>6. Placed(S, q) => Placed(T, r)
    BY <1>2, <1>3 DEF Placed
  <1>7. 1 \in 1..Len(q) /\ At(S, q, 1) = S
    BY <1>1, AtFirst
  <1> QED
    BY <1>1, <1>4, <1>5, <1>6, <1>7 DEF r, e, T, Orderly, Placed

-----------------------------------------------------------------------------
\* The invariant.

\* The map connection s is on, as a set.
Now(s) == {mapid[s]} \ {NoMap}

\* The messages of u that have not been taken yet.
Out(u) == IF link[u] = NoSocket THEN sendBuffer[u] ELSE toServer[link[u]]

\* A page that has to connect first is on no map ...
From(u) == IF link[u] = NoSocket THEN {} ELSE Now(link[u])

\* ... but it joins again the map whose call it joins.
Wherever(u) == IF link[u] = NoSocket THEN Map ELSE Now(link[u])

\* The map a page has joined and means to stay on.
Held(u) == IF mapId[u] = activeMap[u] THEN {mapId[u]} \ {NoMap} ELSE {}

Calm == incidents \cap Disorder = {}
Called == incidents \cap Miscall = {}

\* A page holds nothing back while it is connected; who is not connected is on no map.
NetInv ==
    /\ \A u \in User : link[u] # NoSocket => sendBuffer[u] = <<>>
    /\ \A s \in Socket : s \notin connected => mapid[s] = NoMap

\* Every queue leaves a map before it joins the next one, and leaves the page on no
\* map but the one it holds.
OrderInv ==
    /\ \A s \in Socket : Orderly(Now(s), toServer[s])
    /\ \A u \in User : link[u] = NoSocket => Orderly({}, sendBuffer[u])
    /\ \A u \in User : InTheEnd(From(u), Out(u)) \subseteq Held(u)
    /\ "join" \notin strays

\* A page will be on the map it holds, once its messages are taken or the map has loaded.
ShowInv ==
    /\ \A u \in User : \A m \in Held(u) :
          loading[u][m] > 0 \/ m \in InTheEnd(Wherever(u), Out(u))
    /\ \A u \in User : mapId[u] # NoMap /\ activeMap[u] # mapId[u] => loading[u][mapId[u]] > 0
    /\ \A u \in User : mapId[u] = NoMap => activeMap[u] = NoMap

\* Calls are joined from the map they belong to.
CallInv ==
    /\ \A s \in Socket : Placed(Now(s), toServer[s])
    /\ \A u \in User : link[u] = NoSocket => Placed(Map, sendBuffer[u])
    /\ "call" \notin strays

OrderInvariant ==
    /\ Types
    /\ NetInv
    /\ Calm => OrderInv /\ ShowInv
    /\ Calm /\ Called => CallInv

\* Incidents are never forgotten.
LEMMA IncidentsStay ==
    ASSUME incidents \subseteq incidents'
    PROVE  (Calm' => Calm) /\ (Called' => Called)
  BY DEF Calm, Called

\* The types of what the order speaks of.
LEMMA OrderParts ==
    ASSUME Types
    PROVE  /\ \A s \in Socket : Now(s) \in SUBSET Map
           /\ \A s \in Socket : toServer[s] \in Seq(Message)
           /\ \A u \in User : /\ sendBuffer[u] \in Seq(Message)
                              /\ Out(u) \in Seq(Message)
                              /\ From(u) \in SUBSET Map /\ Wherever(u) \in SUBSET Map
                              /\ From(u) \subseteq Wherever(u)
                              /\ Held(u) \in SUBSET Map
                              /\ link[u] # NoSocket => link[u] \in Socket
                              /\ mapId[u] \in Map \cup {NoMap}
                              /\ activeMap[u] \in Map \cup {NoMap}
  <1>1. mapid \in [Socket -> Map \cup {NoMap}]
    BY DEF Types, P!TypeOK, P!MapKey
  <1>2. /\ \A s \in Socket : toServer[s] \in Seq(Message)
        /\ \A u \in User : /\ sendBuffer[u] \in Seq(Message)
                           /\ link[u] # NoSocket => link[u] \in Socket
                           /\ mapId[u] \in Map \cup {NoMap}
                           /\ activeMap[u] \in Map \cup {NoMap}
    BY DEF Types, NetTypes, PageTypes
  <1>3. \A s \in Socket : Now(s) \in SUBSET Map
    BY <1>1 DEF Now
  <1> QED
    BY <1>2, <1>3 DEF Out, From, Wherever, Held

\* The initial states are in order.
LEMMA OrderInit == Init => OrderInvariant
  <1> SUFFICES ASSUME Init PROVE OrderInvariant
    OBVIOUS
  <1>1. Types
    BY InitTypes
  <1>2. /\ connected = {} /\ strays = {} /\ mapid = [s \in Socket |-> NoMap]
        /\ link = [u \in User |-> NoSocket]
        /\ sendBuffer = [u \in User |-> <<>>] /\ toServer = [s \in Socket |-> <<>>]
        /\ activeMap = mapId /\ mapId \in [User -> Map \cup {NoMap}]
        /\ loading = [u \in User |-> [m \in Map |-> IF m = mapId[u] THEN 1 ELSE 0]]
    BY DEF Init, Server!Init
  <1>3. NetInv
    BY <1>2 DEF NetInv
  <1>4. /\ \A s \in Socket : Now(s) = {} /\ toServer[s] = <<>>
        /\ \A u \in User : From(u) = {} /\ Out(u) = <<>> /\ sendBuffer[u] = <<>>
    BY <1>2 DEF Now, From, Out
  <1>5. OrderInv
    BY <1>2, <1>4, NothingSaid DEF OrderInv
  <1>6. ShowInv
    BY <1>2 DEF ShowInv, Held
  <1>7. CallInv
    BY <1>2, <1>4, NothingSaid DEF CallInv
  <1> QED
    BY <1>1, <1>3, <1>5, <1>6, <1>7 DEF OrderInvariant

-----------------------------------------------------------------------------
\* Messages a page sends.

\* Only the queue of u changes, at its end.
LEMMA SendIs ==
    ASSUME Types, NEW u \in User, NEW c \in Seq(Message), Send(u, c), link' = link
    PROVE  /\ Out(u)' = Out(u) \o c
           /\ link[u] = NoSocket => sendBuffer'[u] = Out(u) \o c /\ toServer' = toServer
           /\ link[u] # NoSocket => toServer'[link[u]] = Out(u) \o c /\ sendBuffer' = sendBuffer
           /\ \A v \in User : v # u => Out(v)' = Out(v) /\ sendBuffer'[v] = sendBuffer[v]
           /\ \A s \in Socket : s # link[u] => toServer'[s] = toServer[s]
  <1>1. /\ toServer \in [Socket -> Seq(Message)] /\ sendBuffer \in [User -> Seq(Message)]
        /\ \A v \in User : link[v] # NoSocket => link[v] \in Socket /\ Owner[link[v]] = v
    BY DEF Types, NetTypes
  <1>2. CASE link[u] = NoSocket
    <2>1. sendBuffer' = [sendBuffer EXCEPT ![u] = @ \o c] /\ toServer' = toServer
      BY <1>2 DEF Send
    <2> QED
      BY <1>1, <1>2, <2>1 DEF Out
  <1>3. CASE link[u] # NoSocket
    <2>1. toServer' = [toServer EXCEPT ![link[u]] = @ \o c] /\ sendBuffer' = sendBuffer
      BY <1>3 DEF Send
    <2>2. \A v \in User : v # u /\ link[v] # NoSocket => link[v] # link[u]
      BY <1>1, <1>3
    <2> QED
      BY <1>1, <1>3, <2>1, <2>2 DEF Out
  <1> QED
    BY <1>2, <1>3

\* The server rests, so every page is where it was.
LEMMA StillThere ==
    ASSUME NothingFromServer, link' = link
    PROVE  /\ \A s \in Socket : Now(s)' = Now(s)
           /\ \A u \in User : From(u)' = From(u) /\ Wherever(u)' = Wherever(u)
           /\ mapid' = mapid /\ connected' = connected /\ strays' = strays
  BY DEF NothingFromServer, serverVars, Now, From, Wherever

\* The parts of the invariant besides the types.
Order ==
    /\ NetInv
    /\ Calm => OrderInv /\ ShowInv
    /\ Calm /\ Called => CallInv

\* What a page says reaches the end of its own queue and no other.
LEMMA SaysOrder ==
    ASSUME Types, NEW u \in User, NEW c \in Seq(Message), Send(u, c),
           NothingFromServer, link' = link
    PROVE  /\ NetInv => NetInv'
           /\ strays' = strays
           /\ OrderInv => Orderly(From(u), Out(u))
           /\ OrderInv /\ Orderly(From(u), Out(u) \o c) =>
                 /\ \A s \in Socket : Orderly(Now(s)', toServer'[s])
                 /\ \A v \in User : link'[v] = NoSocket => Orderly({}, sendBuffer'[v])
           /\ CallInv => Placed(Wherever(u), Out(u))
           /\ CallInv /\ Placed(Wherever(u), Out(u) \o c) => CallInv'
           /\ \A v \in User : From(v)' = From(v) /\ Wherever(v)' = Wherever(v)
           /\ \A v \in User : v # u => Out(v)' = Out(v)
           /\ Out(u)' = Out(u) \o c
  <1>1. /\ Out(u)' = Out(u) \o c
        /\ link[u] = NoSocket => sendBuffer'[u] = Out(u) \o c /\ toServer' = toServer
        /\ link[u] # NoSocket => toServer'[link[u]] = Out(u) \o c /\ sendBuffer' = sendBuffer
        /\ \A v \in User : v # u => Out(v)' = Out(v) /\ sendBuffer'[v] = sendBuffer[v]
        /\ \A s \in Socket : s # link[u] => toServer'[s] = toServer[s]
    BY SendIs
  <1>2. /\ \A s \in Socket : Now(s)' = Now(s)
        /\ \A v \in User : From(v)' = From(v) /\ Wherever(v)' = Wherever(v)
        /\ mapid' = mapid /\ connected' = connected /\ strays' = strays
    BY StillThere
  <1>3. link[u] # NoSocket => link[u] \in Socket
    BY OrderParts
  <1>4. NetInv => NetInv'
    BY <1>1, <1>2 DEF NetInv
  <1>5. /\ OrderInv => Orderly(From(u), Out(u))
        /\ CallInv => Placed(Wherever(u), Out(u))
    BY <1>3 DEF OrderInv, CallInv, From, Wherever, Out
  <1>6. ASSUME OrderInv, Orderly(From(u), Out(u) \o c)
        PROVE  /\ \A s \in Socket : Orderly(Now(s)', toServer'[s])
               /\ \A v \in User : link'[v] = NoSocket => Orderly({}, sendBuffer'[v])
    <2>1. /\ link[u] # NoSocket => Orderly(Now(link[u]), Out(u) \o c)
          /\ link[u] = NoSocket => Orderly({}, Out(u) \o c)
      BY <1>6 DEF From
    <2> QED
      BY <1>1, <1>2, <1>6, <2>1, NoSocketAssumption DEF OrderInv
  <1>7. ASSUME CallInv, Placed(Wherever(u), Out(u) \o c)
        PROVE  CallInv'
    <2>1. /\ link[u] # NoSocket => Placed(Now(link[u]), Out(u) \o c)
          /\ link[u] = NoSocket => Placed(Map, Out(u) \o c)
      BY <1>7 DEF Wherever
    <2>2. \A s \in Socket : Placed(Now(s)', toServer'[s])
      BY <1>1, <1>2, <1>7, <2>1, NoSocketAssumption DEF CallInv
    <2>3. \A v \in User : link'[v] = NoSocket => Placed(Map, sendBuffer'[v])
      BY <1>1, <1>2, <1>7, <2>1 DEF CallInv
    <2> QED
      BY <1>2, <1>7, <2>2, <2>3 DEF CallInv
  <1> QED
    BY <1>1, <1>2, <1>4, <1>5, <1>6, <1>7

\* A page that stays where it is.
LEMMA StaysOrder ==
    ASSUME Types, Order, NEW u \in User, Stays(u)
    PROVE  Order'
  <1> DEFINE settled == OnMap(u) \/ "early" \in incidents'
  <1>1. PICK c \in Seq(Speech(u, settled)) : Send(u, c)
    BY DEF Stays
  <1>2. /\ incidents \subseteq incidents' /\ NothingFromServer
        /\ mapId' = mapId /\ activeMap' = activeMap /\ loading' = loading /\ link' = link
    BY DEF Stays, pageVars
  <1>3. settled \in BOOLEAN
    BY DEF OnMap
  <1> HIDE DEF settled
  <1>4. c \in Seq(Message) /\ Out(u) \in Seq(Message)
    BY <1>1, <1>3, SpeechTypes, SeqMonotonic, OrderParts
  <1>5. /\ Chatter(c)
        /\ \A k \in 1..Len(c) : c[k].type = "JOIN_CALL" => settled /\ c[k].map = activeMap[u]
    <2>1. \A k \in 1..Len(c) : c[k] \in Speech(u, settled)
      BY <1>1, ElementOfSeq
    <2> QED
      BY <2>1 DEF Speech, Chatter, Joins, Leaves
  <1>6. /\ NetInv => NetInv'
        /\ strays' = strays
        /\ OrderInv => Orderly(From(u), Out(u))
        /\ OrderInv /\ Orderly(From(u), Out(u) \o c) =>
              /\ \A s \in Socket : Orderly(Now(s)', toServer'[s])
              /\ \A v \in User : link'[v] = NoSocket => Orderly({}, sendBuffer'[v])
        /\ CallInv => Placed(Wherever(u), Out(u))
        /\ CallInv /\ Placed(Wherever(u), Out(u) \o c) => CallInv'
        /\ \A v \in User : From(v)' = From(v) /\ Wherever(v)' = Wherever(v)
        /\ \A v \in User : v # u => Out(v)' = Out(v)
        /\ Out(u)' = Out(u) \o c
    BY <1>1, <1>2, <1>4, SaysOrder
  <1>7. \A v \in User : Held(v)' = Held(v)
    BY <1>2 DEF Held
  <1>8. (Calm' => Calm) /\ (Called' => Called)
    BY <1>2, IncidentsStay
  <1>9. \A S : /\ InTheEnd(S, Out(u) \o c) = InTheEnd(S, Out(u))
               /\ Orderly(S, Out(u)) => Orderly(S, Out(u) \o c)
    BY <1>4, <1>5, AppendChatter
  <1>10. \A v \in User : /\ InTheEnd(From(v)', Out(v)') = InTheEnd(From(v), Out(v))
                         /\ InTheEnd(Wherever(v)', Out(v)') = InTheEnd(Wherever(v), Out(v))
    BY <1>6, <1>9
  <1>11. ASSUME Calm' PROVE OrderInv' /\ ShowInv'
    <2>1. OrderInv /\ ShowInv
      BY <1>8, <1>11 DEF Order
    <2>2. OrderInv'
      BY <1>6, <1>7, <1>9, <1>10, <2>1 DEF OrderInv
    <2>3. ShowInv'
      BY <1>2, <1>7, <1>10, <2>1 DEF ShowInv
    <2> QED
      BY <2>2, <2>3
  <1>12. ASSUME Calm', Called' PROVE CallInv'
    <2>1. ShowInv /\ CallInv
      BY <1>8, <1>12 DEF Order
    <2>2. settled => /\ activeMap[u] = mapId[u] /\ activeMap[u] # NoMap
                     /\ \A m \in Map : loading[u][m] = 0
      <3>1. "early" \notin incidents'
        BY <1>12 DEF Called, Miscall
      <3> QED
        BY <3>1 DEF settled, OnMap
    <2>3. settled => activeMap[u] \in Held(u) /\ activeMap[u] \in Map
      BY <2>2, OrderParts DEF Held
    <2>4. settled => activeMap[u] \in InTheEnd(Wherever(u), Out(u))
      BY <2>1, <2>2, <2>3 DEF ShowInv
    <2>5. \A k \in 1..Len(c) :
             c[k].type = "JOIN_CALL" => c[k].map \in InTheEnd(Wherever(u), Out(u))
      BY <1>5, <2>4
    <2>6. Placed(Wherever(u), Out(u)) => Placed(Wherever(u), Out(u) \o c)
      BY <1>4, <1>5, <2>5, AppendChatter
    <2> QED
      BY <1>6, <2>1, <2>6
  <1> QED
    BY <1>6, <1>11, <1>12 DEF Order

\* Concatenation is associative.
LEMMA Reassociate ==
    ASSUME NEW q \in Seq(Message), NEW x \in Seq(Message), NEW y \in Seq(Message)
    PROVE  (q \o x) \o y = q \o (x \o y)
  <1> DEFINE S == Seq(Message)
  <1>1. \A s, t, r \in S : (s \o t) \o r = s \o (t \o r)
    BY ConcatAssociative
  <1> QED
    BY <1>1

\* endActiveMap takes the page off its map.
LEMMA FarewellOrder ==
    ASSUME Types, NEW u \in User, NEW S, NEW q \in Seq(Message)
    PROVE  /\ Ends(u) => InTheEnd(S, q \o Farewell(u)) = {}
           /\ ~Ends(u) => q \o Farewell(u) = q
           /\ Orderly(S, q) => Orderly(S, q \o Farewell(u))
           /\ Placed(S, q) => Placed(S, q \o Farewell(u))
  <1>1. CASE ~Ends(u)
    BY <1>1, FarewellIs, ConcatEmptySeq
  <1>2. CASE Ends(u)
    <2> DEFINE a == LeaveCallMessage(activeMap[u])
               b == LeaveMapMessage
    <2>1. /\ a \in Message /\ ~Joins(a) /\ ~Leaves(a) /\ a.type # "JOIN_CALL"
          /\ b \in Message /\ ~Joins(b) /\ Leaves(b) /\ b.type # "JOIN_CALL"
      <3>1. activeMap[u] \in Map
        BY <1>2, OrderParts DEF Ends
      <3> QED
        BY <3>1, SayTypes DEF LeaveCallMessage, LeaveMapMessage, Say, Joins, Leaves
    <2>2. Farewell(u) = <<b>> \/ Farewell(u) = <<a, b>>
      BY <1>2, FarewellIs
    <2> HIDE DEF a, b
    <2>3. \A r \in Seq(Message) : /\ r \o <<b>> \in Seq(Message)
                                  /\ InTheEnd(S, r \o <<b>>) = {}
                                  /\ Orderly(S, r) => Orderly(S, r \o <<b>>)
                                  /\ Placed(S, r) => Placed(S, r \o <<b>>)
      BY <2>1, AppendOne DEF After
    <2>4. /\ q \o <<a>> \in Seq(Message)
          /\ Orderly(S, q) => Orderly(S, q \o <<a>>)
          /\ Placed(S, q) => Placed(S, q \o <<a>>)
      BY <2>1, AppendOne
    <2>5. q \o <<a, b>> = (q \o <<a>>) \o <<b>>
      <3> DEFINE x == <<a>>
                 y == <<b>>
                 xy == <<a, b>>
      <3>1. x \in Seq(Message) /\ y \in Seq(Message)
        BY <2>1
      <3>2. x \o y = xy
        BY ShortFarewells
      <3> HIDE DEF x, y, xy
      <3>3. (q \o x) \o y = q \o (x \o y)
        BY <3>1, Reassociate
      <3> QED
        BY <3>2, <3>3, Zenon DEF x, y, xy
    <2> QED
      BY <1>2, <2>2, <2>3, <2>4, <2>5
  <1> QED
    BY <1>1, <1>2

\* Leaving one map for another, or for none.
LEMMA NavigateOrder ==
    ASSUME Types, Order, NEW u \in User, NEW m \in Map \cup {NoMap}, Navigate(u, m)
    PROVE  Order'
  <1> DEFINE c == Farewell(u)
  <1>1. /\ Send(u, c) /\ NothingFromServer /\ link' = link /\ incidents' = incidents
        /\ mapId' = [mapId EXCEPT ![u] = m]
        /\ activeMap' = [activeMap EXCEPT ![u] = IF m = NoMap THEN NoMap ELSE @]
        /\ loading' = IF m = NoMap THEN loading ELSE [loading EXCEPT ![u][m] = @ + 1]
    BY DEF Navigate
  <1>2. c \in Seq(Message) /\ Out(u) \in Seq(Message)
    BY FarewellIs, OrderParts
  <1>3. \A S : /\ Ends(u) => InTheEnd(S, Out(u) \o c) = {}
               /\ ~Ends(u) => Out(u) \o c = Out(u)
               /\ Orderly(S, Out(u)) => Orderly(S, Out(u) \o c)
               /\ Placed(S, Out(u)) => Placed(S, Out(u) \o c)
    BY <1>2, FarewellOrder
  <1> HIDE DEF c
  <1>4. /\ NetInv => NetInv'
        /\ strays' = strays
        /\ OrderInv => Orderly(From(u), Out(u))
        /\ OrderInv /\ Orderly(From(u), Out(u) \o c) =>
              /\ \A s \in Socket : Orderly(Now(s)', toServer'[s])
              /\ \A v \in User : link'[v] = NoSocket => Orderly({}, sendBuffer'[v])
        /\ CallInv => Placed(Wherever(u), Out(u))
        /\ CallInv /\ Placed(Wherever(u), Out(u) \o c) => CallInv'
        /\ \A v \in User : From(v)' = From(v) /\ Wherever(v)' = Wherever(v)
        /\ \A v \in User : v # u => Out(v)' = Out(v)
        /\ Out(u)' = Out(u) \o c
    BY <1>1, <1>2, SaysOrder
  <1>5. /\ mapId \in [User -> Map \cup {NoMap}] /\ activeMap \in [User -> Map \cup {NoMap}]
        /\ loading \in [User -> [Map -> Nat]]
    BY DEF Types, PageTypes
  <1>6. /\ mapId'[u] = m
        /\ activeMap'[u] = IF m = NoMap THEN NoMap ELSE activeMap[u]
        /\ m # NoMap => loading'[u][m] > 0
        /\ \A v \in User : v # u => /\ mapId'[v] = mapId[v] /\ activeMap'[v] = activeMap[v]
                                    /\ loading'[v] = loading[v]
    <2>1. m # NoMap => m \in Map /\ loading[u][m] \in Nat
      BY <1>5
    <2>2. m # NoMap => loading'[u][m] = loading[u][m] + 1
      BY <1>1, <1>5, <2>1
    <2>3. m # NoMap => loading'[u][m] > 0
      BY <2>1, <2>2
    <2> QED
      BY <1>1, <1>5, <2>3
  <1>7. \A v \in User : v # u => Held(v)' = Held(v)
    BY <1>6 DEF Held
  <1>8. Held(u)' \subseteq {m} /\ (m = NoMap => Held(u)' = {})
    BY <1>6 DEF Held
  <1>9. Calm' = Calm /\ Called' = Called
    BY <1>1 DEF Calm, Called
  <1>10. ASSUME OrderInv, ShowInv PROVE OrderInv' /\ ShowInv'
    <2>1. InTheEnd(From(u)', Out(u)') = {}
      <3>1. CASE Ends(u)
        BY <1>3, <1>4, <3>1
      <3>2. CASE ~Ends(u)
        <4>1. Held(u) = {}
          BY <3>2 DEF Ends, Held
        <4>2. InTheEnd(From(u), Out(u)) = {}
          BY <1>10, <4>1 DEF OrderInv
        <4> QED
          BY <1>3, <1>4, <3>2, <4>2
      <3> QED
        BY <3>1, <3>2
    <2>2. \A v \in User : InTheEnd(From(v)', Out(v)') \subseteq Held(v)'
      BY <1>4, <1>7, <1>10, <2>1 DEF OrderInv
    <2>3. OrderInv'
      BY <1>3, <1>4, <1>10, <2>2 DEF OrderInv
    <2>4. \A v \in User : \A k \in Held(v)' :
             loading'[v][k] > 0 \/ k \in InTheEnd(Wherever(v)', Out(v)')
      BY <1>4, <1>6, <1>7, <1>8, <1>10 DEF ShowInv
    <2>5. ShowInv'
      BY <1>6, <1>10, <2>4 DEF ShowInv
    <2> QED
      BY <2>3, <2>5
  <1>11. CallInv => CallInv'
    BY <1>3, <1>4
  <1> QED
    BY <1>4, <1>9, <1>10, <1>11 DEF Order

\* The answer that starts the map.
LEMMA LoadedOrder ==
    ASSUME Types, Order, NEW u \in User, NEW m \in Map, Loaded(u, m)
    PROVE  Order'
  <1> DEFINE e == JoinMapMessage(m)
  <1>1. /\ Send(u, <<e>>) /\ NothingFromServer /\ link' = link /\ mapId' = mapId
        /\ loading' = [loading EXCEPT ![u][m] = @ - 1]
        /\ activeMap' = [activeMap EXCEPT ![u] = m]
        /\ incidents \subseteq incidents'
        /\ Calm' => m = mapId[u]
    BY DEF Loaded, Greeting, Calm, Disorder
  <1>2. e \in Message /\ Joins(e) /\ e.map = m /\ e.type # "JOIN_CALL" /\ ~Leaves(e)
    BY SayTypes DEF JoinMapMessage, Say, Joins, Leaves
  <1> HIDE DEF e
  <1>3. Out(u) \in Seq(Message) /\ <<e>> \in Seq(Message)
    BY <1>2, OrderParts
  <1>4. \A S : /\ InTheEnd(S, Out(u) \o <<e>>) = InTheEnd(S, Out(u)) \cup {m}
               /\ Orderly(S, Out(u)) /\ InTheEnd(S, Out(u)) \subseteq {m}
                     => Orderly(S, Out(u) \o <<e>>)
               /\ Placed(S, Out(u)) => Placed(S, Out(u) \o <<e>>)
    BY <1>2, <1>3, AppendOne DEF After
  <1>5. /\ NetInv => NetInv'
        /\ strays' = strays
        /\ OrderInv => Orderly(From(u), Out(u))
        /\ OrderInv /\ Orderly(From(u), Out(u) \o <<e>>) =>
              /\ \A s \in Socket : Orderly(Now(s)', toServer'[s])
              /\ \A v \in User : link'[v] = NoSocket => Orderly({}, sendBuffer'[v])
        /\ CallInv => Placed(Wherever(u), Out(u))
        /\ CallInv /\ Placed(Wherever(u), Out(u) \o <<e>>) => CallInv'
        /\ \A v \in User : From(v)' = From(v) /\ Wherever(v)' = Wherever(v)
        /\ \A v \in User : v # u => Out(v)' = Out(v)
        /\ Out(u)' = Out(u) \o <<e>>
    BY <1>1, <1>3, SaysOrder
  <1>6. /\ activeMap'[u] = m
        /\ \A v \in User : v # u => activeMap'[v] = activeMap[v] /\ loading'[v] = loading[v]
    BY <1>1 DEF Types, PageTypes
  <1>7. \A v \in User : v # u => Held(v)' = Held(v)
    BY <1>1, <1>6 DEF Held
  <1>8. m = mapId[u] => Held(u)' = {m} /\ Held(u) \subseteq {m}
    BY <1>1, <1>6, KeyAssumption DEF Held
  <1>9. (Calm' => Calm) /\ (Called' => Called)
    BY <1>1, IncidentsStay
  <1>10. ASSUME Calm' PROVE OrderInv' /\ ShowInv'
    <2>1. OrderInv /\ ShowInv /\ m = mapId[u]
      BY <1>1, <1>9, <1>10 DEF Order
    <2>2. InTheEnd(From(u), Out(u)) \subseteq {m}
      BY <1>8, <2>1 DEF OrderInv
    <2>3. \A v \in User : InTheEnd(From(v)', Out(v)') \subseteq Held(v)'
      BY <1>4, <1>5, <1>7, <1>8, <2>1, <2>2 DEF OrderInv
    <2>4. OrderInv'
      BY <1>4, <1>5, <2>1, <2>2, <2>3 DEF OrderInv
    <2>5. ASSUME NEW v \in User, NEW k \in Held(v)'
          PROVE  loading'[v][k] > 0 \/ k \in InTheEnd(Wherever(v)', Out(v)')
      <3>1. CASE v = u
        <4>1. InTheEnd(Wherever(u), Out(u) \o <<e>>) = InTheEnd(Wherever(u), Out(u)) \cup {m}
          BY <1>4
        <4> QED
          BY <1>5, <1>8, <2>1, <3>1, <4>1
      <3>2. CASE v # u
        BY <1>5, <1>6, <1>7, <2>1, <3>2 DEF ShowInv
      <3> QED
        BY <3>1, <3>2
    <2>6. ShowInv'
      BY <1>1, <1>6, <2>1, <2>5, KeyAssumption DEF ShowInv
    <2> QED
      BY <2>4, <2>6
  <1>11. CallInv => CallInv'
    BY <1>4, <1>5
  <1> QED
    BY <1>5, <1>9, <1>10, <1>11 DEF Order

-----------------------------------------------------------------------------
\* Connections.

\* The map joined again comes before what was held back.
LEMMA Rejoining ==
    ASSUME NEW b \in Seq(Message), NEW a \in Map, NEW q, q = <<JoinMapMessage(a)>> \o b
    PROVE  /\ Orderly({}, b) /\ ~JoinsOther(b, a) => Orderly({}, q)
           /\ InTheEnd({}, q) \subseteq InTheEnd({}, b) \cup {a}
           /\ a \in InTheEnd(Map, b) => a \in InTheEnd({}, q)
           /\ Placed(Map, b) /\ ~CallsOther(b, a) => Placed({}, q)
  <1> DEFINE e == JoinMapMessage(a)
             x == <<e>>
  <1>0. q = x \o b
    OBVIOUS
  <1>1. e \in Message /\ Joins(e) /\ e.map = a /\ e.type # "JOIN_CALL" /\ ~Leaves(e)
    BY SayTypes DEF JoinMapMessage, Say, Joins, Leaves
  <1> HIDE DEF e
  <1>2. x \in Seq(Message) /\ Len(x) = 1 /\ x[1] = e
    BY <1>1
  <1> HIDE DEF x
  <1>3. /\ q \in Seq(Message) /\ Len(q) = Len(b) + 1 /\ Len(b) \in Nat
        /\ q[1] = e /\ \A i \in 1..Len(b) : q[i + 1] = b[i]
    <2>1. /\ q \in Seq(Message) /\ Len(q) = Len(x) + Len(b) /\ Len(b) \in Nat
          /\ \A i \in 1..Len(x) + Len(b) : q[i] = IF i <= Len(x) THEN x[i] ELSE b[i - Len(x)]
      BY <1>0, <1>2, ConcatProperties, LenProperties
    <2>2. /\ 1 \in 1..1 + Len(b) /\ 1 <= 1
          /\ \A i \in 1..Len(b) : i + 1 \in 1..1 + Len(b) /\ ~(i + 1 <= 1) /\ i + 1 - 1 = i
      BY <2>1
    <2>3. q[1] = e
      BY <1>2, <2>1, <2>2
    <2>4. \A i \in 1..Len(b) : q[i + 1] = b[i]
      BY <1>2, <2>1, <2>2
    <2> QED
      BY <1>2, <2>1, <2>3, <2>4
  <1>4. q # <<>> /\ Head(q) = e /\ Tail(q) = b
    <2>1. q # <<>>
      BY <1>3
    <2>2. /\ Head(q) = q[1] /\ Tail(q) \in Seq(Message) /\ Len(Tail(q)) = Len(b)
          /\ \A i \in 1..Len(Tail(q)) : Tail(q)[i] = q[i + 1]
      BY <1>3, <2>1, HeadTailProperties
    <2>3. \A i \in 1..Len(Tail(q)) : Tail(q)[i] = b[i]
      BY <1>3, <2>2
    <2> QED
      BY <1>3, <2>1, <2>2, <2>3, SeqEqual
  <1>5. \A j \in 1..Len(b) + 1 : At({}, q, j + 1) = At({a}, b, j)
    <2>1. After({}, e) = {a}
      BY <1>1 DEF After
    <2> QED
      BY <1>3, <1>4, <2>1, AtTail
  <1>6. /\ \A j \in 1..Len(b) + 1 : At({a}, b, j) \subseteq At({}, b, j) \cup {a}
        /\ \A j \in 1..Len(b) + 1 : a \in At(Map, b, j) => a \in At({a}, b, j)
    <2>1. \A j \in 1..Len(b) + 1 : j \in Nat
      BY <1>3
    <2>2. \A j \in 1..Len(b) + 1 : At({} \cup {a}, b, j) \subseteq At({}, b, j) \cup {a}
      BY <2>1, AtGrows
    <2>3. \A j \in 1..Len(b) + 1 : a \in At(Map, b, j) => a \in At({a}, b, j)
      BY <2>1, AtGrows
    <2>4. {} \cup {a} = {a}
      OBVIOUS
    <2> QED
      BY <2>2, <2>3, <2>4
  <1>7. \A j \in 1..Len(q) : j = 1 \/ (j - 1 \in 1..Len(b) /\ j - 1 \in 1..Len(b) + 1
                                        /\ j - 1 + 1 = j)
    BY <1>3
  <1>8. At({}, q, 1) = {}
    BY AtFirst
  <1>9. Len(b) + 1 \in 1..Len(b) + 1
    BY <1>3
  <1>10. Orderly({}, b) /\ ~JoinsOther(b, a) => Orderly({}, q)
    <2>1. ~JoinsOther(b, a) => \A i \in 1..Len(b) : Joins(b[i]) => b[i].map = a
      BY DEF JoinsOther, Joins
    <2>2. ASSUME Orderly({}, b), ~JoinsOther(b, a), NEW j \in 1..Len(q), Joins(q[j])
          PROVE  At({}, q, j) \subseteq {q[j].map}
      <3>1. CASE j = 1
        BY <1>8, <3>1
      <3>2. CASE j # 1
        <4> DEFINE i == j - 1
        <4>1. i \in 1..Len(b) /\ i \in 1..Len(b) + 1 /\ j = i + 1
          BY <1>7, <3>2
        <4> HIDE DEF i
        <4>2. q[j] = b[i] /\ At({}, q, j) \subseteq At({}, b, i) \cup {a}
          BY <1>3, <1>5, <1>6, <4>1
        <4> QED
          BY <2>1, <2>2, <4>1, <4>2 DEF Orderly
      <3> QED
        BY <3>1, <3>2
    <2> QED
      BY <2>2 DEF Orderly
  <1>11. InTheEnd({}, q) = InTheEnd({a}, b)
    BY <1>3, <1>5, <1>9 DEF InTheEnd
  <1>12. Placed(Map, b) /\ ~CallsOther(b, a) => Placed({}, q)
    <2>1. ~CallsOther(b, a) => \A i \in 1..Len(b) : b[i].type = "JOIN_CALL" => b[i].map = a
      BY DEF CallsOther
    <2>2. ASSUME Placed(Map, b), ~CallsOther(b, a), NEW j \in 1..Len(q), q[j].type = "JOIN_CALL"
          PROVE  q[j].map \in At({}, q, j)
      <3> DEFINE i == j - 1
      <3>1. i \in 1..Len(b) /\ i \in 1..Len(b) + 1 /\ j = i + 1
        BY <1>1, <1>3, <1>7, <2>2
      <3> HIDE DEF i
      <3>2. q[j] = b[i] /\ (a \in At(Map, b, i) => a \in At({}, q, j))
        BY <1>3, <1>5, <1>6, <3>1
      <3> QED
        BY <2>1, <2>2, <3>1, <3>2 DEF Placed
    <2> QED
      BY <2>2 DEF Placed
  <1> QED
    BY <1>6, <1>9, <1>10, <1>11, <1>12 DEF InTheEnd

\* A page that connects, and sends what it held back.
LEMMA ConnectOrder ==
    ASSUME Types, Order, NEW u \in User, Connect(u)
    PROVE  Order'
  <1> DEFINE a == activeMap[u]
             b == sendBuffer[u]
             q == Rejoin(u) \o b
  <1>1. PICK s \in Socket \ connected :
           /\ Owner[s] = u /\ Server!Connect(s)
           /\ link' = [link EXCEPT ![u] = s]
           /\ toServer' = [toServer EXCEPT ![s] = q]
    BY DEF Connect
  <1>2. /\ link[u] = NoSocket
        /\ sendBuffer' = [sendBuffer EXCEPT ![u] = <<>>]
        /\ mapId' = mapId /\ activeMap' = activeMap /\ loading' = loading
        /\ incidents \subseteq incidents'
        /\ "rejoined" \notin incidents' => a \in {NoMap, mapId[u]}
        /\ "replayed" \notin incidents' => a = NoMap \/ ~JoinsOther(b, a)
        /\ "recalled" \notin incidents' => ~CallsOther(b, a)
    BY DEF Connect, pageVars
  <1>3. mapid' = mapid /\ strays' = strays /\ connected' = connected \cup {s}
    BY <1>1 DEF Server!Connect
  <1>4. /\ link \in [User -> Socket \cup {NoSocket}]
        /\ \A v \in User : link[v] # NoSocket => link[v] \in connected
        /\ sendBuffer \in [User -> Seq(Message)] /\ toServer \in [Socket -> Seq(Message)]
    BY DEF Types, NetTypes
  <1>5. a \in Map \cup {NoMap} /\ b \in Seq(Message)
    BY OrderParts
  <1>6. /\ a = NoMap => q = b
        /\ a # NoMap => q = <<JoinMapMessage(a)>> \o b
    <2>1. a = NoMap => Rejoin(u) = <<>>
      BY DEF Rejoin
    <2>2. a # NoMap => Rejoin(u) = <<JoinMapMessage(a)>>
      BY DEF Rejoin
    <2> QED
      BY <1>5, <2>1, <2>2, ConcatEmptySeq
  <1> HIDE DEF a, b, q
  <1>7. /\ link'[u] = s /\ sendBuffer'[u] = <<>> /\ toServer'[s] = q
        /\ \A v \in User : v # u => /\ link'[v] = link[v] /\ sendBuffer'[v] = sendBuffer[v]
                                    /\ link[v] # s
        /\ \A t \in Socket : t # s => toServer'[t] = toServer[t]
        /\ s # NoSocket
    BY <1>1, <1>2, <1>4, NoSocketAssumption
  <1>8. /\ \A t \in Socket : Now(t)' = Now(t)
        /\ \A v \in User : Held(v)' = Held(v)
        /\ Now(s) = {}
    BY <1>1, <1>2, <1>3 DEF Now, Held, Order, NetInv
  <1>9. \A v \in User : v # u => /\ Out(v)' = Out(v) /\ From(v)' = From(v)
                                 /\ Wherever(v)' = Wherever(v)
    BY <1>4, <1>7, <1>8 DEF Out, From, Wherever, Now
  <1>10. /\ Out(u)' = q /\ From(u)' = {} /\ Wherever(u)' = {}
         /\ Out(u) = b /\ From(u) = {} /\ Wherever(u) = Map
    BY <1>2, <1>7, <1>8 DEF Out, From, Wherever, b, Now
  <1>11. NetInv'
    BY <1>3, <1>7 DEF Order, NetInv
  <1>12. (Calm' => Calm) /\ (Called' => Called)
    BY <1>2, IncidentsStay
  <1>13. ASSUME Calm' PROVE OrderInv' /\ ShowInv'
    <2>1. OrderInv /\ ShowInv
      BY <1>12, <1>13 DEF Order
    <2>2. (a = NoMap \/ a = mapId[u]) /\ (a = NoMap \/ ~JoinsOther(b, a))
      BY <1>2, <1>13 DEF Calm, Disorder
    <2>3. Orderly({}, b) /\ InTheEnd({}, b) \subseteq Held(u)
      BY <1>2, <1>10, <2>1 DEF OrderInv, b
    <2>4. /\ a = NoMap => Held(u) = {}
          /\ a # NoMap => Held(u) = {a}
      BY <2>2 DEF Held, a
    <2>5. Orderly({}, q) /\ InTheEnd({}, q) \subseteq Held(u)
      <3>1. CASE a = NoMap
        BY <1>6, <2>3, <3>1
      <3>2. CASE a # NoMap
        BY <1>5, <1>6, <2>2, <2>3, <2>4, <3>2, Rejoining
      <3> QED
        BY <3>1, <3>2
    <2>6. \A m \in Held(u) : m \in InTheEnd(Map, b) => m \in InTheEnd({}, q)
      BY <1>5, <1>6, <2>4, Rejoining
    <2>7. \A t \in Socket : Orderly(Now(t)', toServer'[t])
      BY <1>1, <1>7, <1>8, <2>1, <2>5 DEF OrderInv
    <2>8. \A v \in User : link'[v] = NoSocket => Orderly({}, sendBuffer'[v])
      BY <1>7, <2>1 DEF OrderInv
    <2>9. \A v \in User : InTheEnd(From(v)', Out(v)') \subseteq Held(v)'
      BY <1>8, <1>9, <1>10, <2>1, <2>5 DEF OrderInv
    <2>10. OrderInv'
      BY <1>3, <2>1, <2>7, <2>8, <2>9 DEF OrderInv
    <2>11. \A v \in User : \A m \in Held(v)' :
              loading'[v][m] > 0 \/ m \in InTheEnd(Wherever(v)', Out(v)')
      BY <1>2, <1>8, <1>9, <1>10, <2>1, <2>6 DEF ShowInv
    <2>12. ShowInv'
      BY <1>2, <2>1, <2>11 DEF ShowInv
    <2> QED
      BY <2>10, <2>12
  <1>14. ASSUME Calm', Called' PROVE CallInv'
    <2>1. CallInv
      BY <1>12, <1>14 DEF Order
    <2>2. ~CallsOther(b, a)
      BY <1>2, <1>14 DEF Called, Miscall
    <2>3. Placed(Map, b)
      BY <1>2, <2>1 DEF CallInv, b
    <2>4. Placed({}, q)
      <3>1. CASE a = NoMap
        <4>1. \A j \in 1..Len(b) : b[j].type # "JOIN_CALL"
          <5>1. \A j \in 1..Len(b) : b[j] \in Message /\ j \in DOMAIN b
            BY <1>5, ElementOfSeq, LenProperties
          <5> QED
            BY <2>2, <3>1, <5>1, KeyAssumption DEF CallsOther, Message
        <4> QED
          BY <1>6, <3>1, <4>1 DEF Placed
      <3>2. CASE a # NoMap
        BY <1>5, <1>6, <2>2, <2>3, <3>2, Rejoining
      <3> QED
        BY <3>1, <3>2
    <2>5. \A t \in Socket : Placed(Now(t)', toServer'[t])
      BY <1>1, <1>7, <1>8, <2>1, <2>4 DEF CallInv
    <2>6. \A v \in User : link'[v] = NoSocket => Placed(Map, sendBuffer'[v])
      BY <1>7, <2>1 DEF CallInv
    <2> QED
      BY <1>3, <2>1, <2>5, <2>6 DEF CallInv
  <1> QED
    BY <1>11, <1>13, <1>14 DEF Order

\* A page that loses its connection.
LEMMA LoseOrder ==
    ASSUME Types, Order, NEW u \in User, Lose(u)
    PROVE  Order'
  <1> DEFINE s == link[u]
             q == toServer[s]
  <1>1. PICK n \in 0..Len(q) : toServer' = [toServer EXCEPT ![s] = SubSeq(@, 1, n)]
    BY DEF Lose
  <1>2. /\ s # NoSocket /\ link' = [link EXCEPT ![u] = NoSocket]
        /\ NothingFromServer /\ incidents' = incidents /\ sendBuffer' = sendBuffer
        /\ mapId' = mapId /\ activeMap' = activeMap /\ loading' = loading
    BY DEF Lose, pageVars
  <1>3. mapid' = mapid /\ strays' = strays /\ connected' = connected
    BY <1>2 DEF NothingFromServer, serverVars
  <1>4. /\ link \in [User -> Socket \cup {NoSocket}]
        /\ \A v \in User : link[v] # NoSocket => Owner[link[v]] = v
        /\ toServer \in [Socket -> Seq(Message)]
    BY DEF Types, NetTypes
  <1>5. s \in Socket /\ q \in Seq(Message)
    BY <1>2, <1>4
  <1> HIDE DEF q
  <1>6. \A S : /\ Orderly(S, q) => Orderly(S, SubSeq(q, 1, n))
               /\ Placed(S, q) => Placed(S, SubSeq(q, 1, n))
    BY <1>1, <1>5, Prefix
  <1>7. /\ toServer'[s] = SubSeq(q, 1, n)
        /\ \A t \in Socket : t # s => toServer'[t] = toServer[t]
        /\ link'[u] = NoSocket
        /\ \A v \in User : v # u => link'[v] = link[v] /\ link[v] # s
    BY <1>1, <1>2, <1>4, <1>5 DEF q
  <1>8. /\ \A t \in Socket : Now(t)' = Now(t)
        /\ \A v \in User : Held(v)' = Held(v)
        /\ sendBuffer[u] = <<>>
    BY <1>2, <1>3 DEF Now, Held, Order, NetInv
  <1>9. \A v \in User : v # u => /\ Out(v)' = Out(v) /\ From(v)' = From(v)
                                 /\ Wherever(v)' = Wherever(v)
    BY <1>2, <1>4, <1>7, <1>8 DEF Out, From, Wherever, Now
  <1>10. Out(u)' = <<>> /\ From(u)' = {} /\ Wherever(u)' = Map
    BY <1>2, <1>7, <1>8 DEF Out, From, Wherever
  <1>11. NetInv'
    BY <1>2, <1>3, <1>7 DEF Order, NetInv
  <1>12. Calm' = Calm /\ Called' = Called
    BY <1>2 DEF Calm, Called
  <1>13. ASSUME OrderInv, ShowInv PROVE OrderInv' /\ ShowInv'
    <2>1. \A t \in Socket : Orderly(Now(t)', toServer'[t])
      BY <1>5, <1>6, <1>7, <1>8, <1>13 DEF OrderInv, q
    <2>2. \A v \in User : link'[v] = NoSocket => Orderly({}, sendBuffer'[v])
      BY <1>2, <1>7, <1>8, <1>13, NothingSaid DEF OrderInv
    <2>3. \A v \in User : InTheEnd(From(v)', Out(v)') \subseteq Held(v)'
      BY <1>8, <1>9, <1>10, <1>13, NothingSaid DEF OrderInv
    <2>4. OrderInv'
      BY <1>3, <1>13, <2>1, <2>2, <2>3 DEF OrderInv
    <2>5. \A v \in User : \A m \in Held(v)' :
             loading'[v][m] > 0 \/ m \in InTheEnd(Wherever(v)', Out(v)')
      <3>1. \A m \in Held(u) : m \in InTheEnd(Map, <<>>)
        BY NothingSaid, OrderParts
      <3> QED
        BY <1>2, <1>8, <1>9, <1>10, <1>13, <3>1 DEF ShowInv
    <2>6. ShowInv'
      BY <1>2, <1>13, <2>5 DEF ShowInv
    <2> QED
      BY <2>4, <2>6
  <1>14. ASSUME CallInv PROVE CallInv'
    <2>1. \A t \in Socket : Placed(Now(t)', toServer'[t])
      BY <1>5, <1>6, <1>7, <1>8, <1>14 DEF CallInv, q
    <2>2. \A v \in User : link'[v] = NoSocket => Placed(Map, sendBuffer'[v])
      BY <1>2, <1>7, <1>8, <1>14, NothingSaid DEF CallInv
    <2> QED
      BY <1>3, <1>14, <2>1, <2>2 DEF CallInv
  <1> QED
    BY <1>11, <1>12, <1>13, <1>14 DEF Order

-----------------------------------------------------------------------------
\* The server.

\* Where taking the head of a queue leaves the connection.
LEMMA TakesIs ==
    ASSUME Types, NEW s \in Socket, NEW e \in Message, ServerTakes(s, e)
    PROVE  /\ \A t \in Socket : t # s => mapid'[t] = mapid[t]
           /\ mapid'[s] = IF Leaves(e) THEN NoMap ELSE IF Joins(e) THEN e.map ELSE mapid[s]
           /\ strays' = strays
                 \cup (IF Joins(e) /\ mapid[s] \notin {NoMap, e.map} THEN {"join"} ELSE {})
                 \cup (IF e.type = "JOIN_CALL" /\ mapid[s] # e.map THEN {"call"} ELSE {})
           /\ s \in connected
  <1>0. mapid \in [Socket -> Map \cup {NoMap}]
    BY DEF Types, P!TypeOK, P!MapKey
  <1>1. CASE Joins(e)
    <2>1. P!JoinMap(s, e.map) /\ ~Leaves(e) /\ e.type # "JOIN_CALL"
      BY <1>1 DEF ServerTakes, Joins, Leaves, Passed
    <2>2. /\ mapid' = [mapid EXCEPT ![s] = e.map] /\ s \in connected
          /\ strays' = strays \cup (IF mapid[s] \in {NoMap, e.map} THEN {} ELSE {"join"})
      BY <2>1 DEF P!JoinMap
    <2> QED
      BY <1>0, <1>1, <2>1, <2>2
  <1>2. CASE Leaves(e)
    <2>1. P!LeaveMap(s) /\ ~Joins(e) /\ e.type # "JOIN_CALL"
      BY <1>2 DEF ServerTakes, Joins, Leaves, Passed
    <2>2. mapid' = [mapid EXCEPT ![s] = NoMap] /\ s \in connected /\ strays' = strays
      BY <2>1 DEF P!LeaveMap
    <2> QED
      BY <1>0, <1>2, <2>1, <2>2
  <1>3. CASE e.type = "JOIN_CALL"
    <2>1. P!JoinCall(s, e.map) /\ ~Leaves(e) /\ ~Joins(e)
      BY <1>3 DEF ServerTakes, Joins, Leaves, Passed
    <2>2. /\ mapid' = mapid /\ s \in connected
          /\ strays' = strays \cup (IF mapid[s] = e.map THEN {} ELSE {"call"})
      BY <2>1 DEF P!JoinCall
    <2> QED
      BY <1>3, <2>1, <2>2
  <1>4. CASE ~Joins(e) /\ ~Leaves(e) /\ e.type # "JOIN_CALL"
    <2>1. mapid' = mapid /\ s \in connected /\ strays' = strays
      BY <1>4 DEF ServerTakes, Joins, Leaves, P!LeaveCall, P!SendMapperInfo,
                  P!InviteACall, P!InviteToJoin, P!AcceptCall, P!Relay, P!serverVars
    <2> QED
      BY <1>4, <2>1
  <1> QED
    BY <1>1, <1>2, <1>3, <1>4

\* The server takes a message.
LEMMA HandleOrder ==
    ASSUME Types, Order, NEW s \in Socket, Handle(s)
    PROVE  Order'
  <1> DEFINE q == toServer[s]
             e == Head(q)
  <1>1. /\ e \in Message /\ Tail(q) \in Seq(Message) /\ q # <<>>
        /\ toServer' = [toServer EXCEPT ![s] = Tail(@)]
        /\ ServerTakes(s, e) /\ connected' = connected
    BY HandleIs
  <1>2. /\ link' = link /\ sendBuffer' = sendBuffer /\ mapId' = mapId /\ activeMap' = activeMap
        /\ loading' = loading /\ incidents \subseteq incidents'
    BY DEF Handle, pageVars
  <1>3. q \in Seq(Message) /\ Now(s) \in SUBSET Map
    BY OrderParts
  <1> HIDE DEF e
  <1>4. /\ \A t \in Socket : t # s => mapid'[t] = mapid[t]
        /\ mapid'[s] = IF Leaves(e) THEN NoMap ELSE IF Joins(e) THEN e.map ELSE mapid[s]
        /\ strays' = strays
              \cup (IF Joins(e) /\ mapid[s] \notin {NoMap, e.map} THEN {"join"} ELSE {})
              \cup (IF e.type = "JOIN_CALL" /\ mapid[s] # e.map THEN {"call"} ELSE {})
        /\ s \in connected
    BY <1>1, TakesIs
  <1>5. /\ Orderly(Now(s), q) => Orderly(After(Now(s), e), Tail(q))
        /\ Placed(Now(s), q) => Placed(After(Now(s), e), Tail(q))
        /\ InTheEnd(After(Now(s), e), Tail(q)) = InTheEnd(Now(s), q)
        /\ Orderly(Now(s), q) /\ Joins(e) => Now(s) \subseteq {e.map}
        /\ Placed(Now(s), q) /\ e.type = "JOIN_CALL" => e.map \in Now(s)
    BY <1>1, <1>3, Taken DEF e
  <1>6. toServer'[s] = Tail(q) /\ \A t \in Socket : t # s => toServer'[t] = toServer[t]
    BY <1>1 DEF Types, NetTypes
  <1> HIDE DEF q
  <1>7. \A t \in Socket : t # s => Now(t)' = Now(t)
    BY <1>4 DEF Now
  <1>8. Orderly(Now(s), q) => Now(s)' = After(Now(s), e)
    <2>1. Joins(e) => e.map # NoMap
      BY <1>1, KeyAssumption DEF Joins, Message
    <2>2. CASE Leaves(e)
      BY <1>4, <2>2 DEF Now, After
    <2>3. CASE Joins(e) /\ ~Leaves(e)
      BY <1>4, <1>5, <2>1, <2>3 DEF Now, After
    <2>4. CASE ~Joins(e) /\ ~Leaves(e)
      BY <1>4, <2>4 DEF Now, After
    <2> QED
      BY <2>2, <2>3, <2>4
  <1>9. \A v \in User : Held(v)' = Held(v)
    BY <1>2 DEF Held
  <1>10. \A v \in User : link[v] # s => /\ Out(v)' = Out(v) /\ From(v)' = From(v)
                                        /\ Wherever(v)' = Wherever(v)
    <2>1. \A v \in User : link[v] = NoSocket \/ link[v] \in Socket
      BY OrderParts
    <2>2. \A v \in User : link[v] = NoSocket => /\ Out(v)' = Out(v) /\ From(v)' = From(v)
                                                /\ Wherever(v)' = Wherever(v)
      BY <1>2 DEF Out, From, Wherever
    <2>3. \A v \in User : link[v] # s /\ link[v] # NoSocket =>
             /\ Out(v)' = Out(v) /\ From(v)' = From(v) /\ Wherever(v)' = Wherever(v)
      BY <1>2, <1>6, <1>7, <2>1 DEF Out, From, Wherever, Now
    <2> QED
      BY <2>2, <2>3
  <1>11. \A v \in User : link[v] = s =>
            /\ Out(v) = q /\ From(v) = Now(s) /\ Wherever(v) = Now(s)
            /\ Out(v)' = Tail(q) /\ From(v)' = Now(s)' /\ Wherever(v)' = Now(s)'
    BY <1>2, <1>6, NoSocketAssumption DEF Out, From, Wherever, q, Now
  <1>12. Orderly(Now(s), q) => \A v \in User :
            /\ InTheEnd(From(v)', Out(v)') = InTheEnd(From(v), Out(v))
            /\ InTheEnd(Wherever(v)', Out(v)') = InTheEnd(Wherever(v), Out(v))
    BY <1>5, <1>8, <1>10, <1>11
  <1>13. NetInv'
    BY <1>1, <1>2, <1>4 DEF Order, NetInv
  <1>14. (Calm' => Calm) /\ (Called' => Called)
    BY <1>2, IncidentsStay
  <1>15. OrderInv => Orderly(Now(s), q)
    BY DEF OrderInv, q
  <1>16. ASSUME OrderInv, ShowInv PROVE OrderInv' /\ ShowInv'
    <2>1. \A t \in Socket : Orderly(Now(t)', toServer'[t])
      BY <1>5, <1>6, <1>7, <1>8, <1>15, <1>16 DEF OrderInv
    <2>2. "join" \notin strays'
      <3>1. Joins(e) => mapid[s] \in {NoMap, e.map}
        BY <1>5, <1>15, <1>16 DEF Now
      <3> QED
        BY <1>4, <1>16, <3>1 DEF OrderInv
    <2>3. OrderInv'
      BY <1>2, <1>9, <1>12, <1>15, <1>16, <2>1, <2>2 DEF OrderInv
    <2>4. ShowInv'
      BY <1>2, <1>9, <1>12, <1>15, <1>16 DEF ShowInv
    <2> QED
      BY <2>3, <2>4
  <1>17. ASSUME OrderInv, CallInv PROVE CallInv'
    <2>1. Placed(Now(s), q)
      BY <1>17 DEF CallInv, q
    <2>2. \A t \in Socket : Placed(Now(t)', toServer'[t])
      BY <1>5, <1>6, <1>7, <1>8, <1>15, <1>17, <2>1 DEF CallInv
    <2>3. "call" \notin strays'
      <3>1. e.type = "JOIN_CALL" => mapid[s] = e.map
        BY <1>5, <2>1 DEF Now
      <3> QED
        BY <1>4, <1>17, <3>1 DEF CallInv
    <2> QED
      BY <1>2, <1>17, <2>2, <2>3 DEF CallInv
  <1> QED
    BY <1>13, <1>14, <1>16, <1>17 DEF Order

\* The server finds a connection gone.
LEMMA DisconnectOrder ==
    ASSUME Types, Order, NEW s \in Socket, Disconnect(s)
    PROVE  Order'
  <1>1. P!Disconnect(s) /\ link[Owner[s]] # s /\ toServer[s] = <<>>
    BY SameDisconnect DEF Disconnect, Dead
  <1>2. /\ mapid' = [mapid EXCEPT ![s] = NoMap] /\ connected' = connected \ {s}
        /\ strays' = strays
    BY <1>1 DEF P!Disconnect
  <1>3. /\ link' = link /\ sendBuffer' = sendBuffer /\ mapId' = mapId /\ activeMap' = activeMap
        /\ loading' = loading /\ incidents' = incidents /\ toServer' = toServer
    BY DEF Disconnect, pageVars
  <1>4. /\ mapid'[s] = NoMap /\ \A t \in Socket : t # s => mapid'[t] = mapid[t]
        /\ \A v \in User : link[v] # s
        /\ \A v \in User : link[v] # NoSocket => link[v] \in Socket
    <2>1. mapid \in [Socket -> Map \cup {NoMap}]
      BY DEF Types, P!TypeOK, P!MapKey
    <2>2. \A v \in User : link[v] # NoSocket => Owner[link[v]] = v /\ link[v] \in Socket
      BY DEF Types, NetTypes
    <2> QED
      BY <1>1, <1>2, <2>1, <2>2, NoSocketAssumption
  <1>5. Now(s)' = {} /\ \A t \in Socket : t # s => Now(t)' = Now(t)
    BY <1>4 DEF Now
  <1>6. \A v \in User : /\ Out(v)' = Out(v) /\ From(v)' = From(v) /\ Wherever(v)' = Wherever(v)
                        /\ Held(v)' = Held(v)
    BY <1>3, <1>4, <1>5 DEF Out, From, Wherever, Held, Now
  <1>7. NetInv'
    BY <1>2, <1>3, <1>4 DEF Order, NetInv
  <1>8. Calm' = Calm /\ Called' = Called
    BY <1>3 DEF Calm, Called
  <1>9. OrderInv => OrderInv'
    <2>1. OrderInv => \A t \in Socket : Orderly(Now(t)', toServer'[t])
      BY <1>1, <1>3, <1>5, NothingSaid DEF OrderInv
    <2> QED
      BY <1>2, <1>3, <1>6, <2>1 DEF OrderInv
  <1>10. ShowInv => ShowInv'
    BY <1>3, <1>6 DEF ShowInv
  <1>11. CallInv => CallInv'
    <2>1. CallInv => \A t \in Socket : Placed(Now(t)', toServer'[t])
      BY <1>1, <1>3, <1>5, NothingSaid DEF CallInv
    <2> QED
      BY <1>2, <1>3, <2>1 DEF CallInv
  <1> QED
    BY <1>7, <1>8, <1>9, <1>10, <1>11 DEF Order

\* Every step keeps the types and the order.
LEMMA OrderStep == OrderInvariant /\ [Next]_vars => OrderInvariant'
  <1> SUFFICES ASSUME OrderInvariant, [Next]_vars PROVE OrderInvariant'
    OBVIOUS
  <1>1. Types /\ Order
    BY DEF OrderInvariant, Order
  <1>2. Types'
    BY <1>1, TypesStep
  <1>3. CASE UNCHANGED vars
    <2>1. UNCHANGED <<connected, mapid, strays, mapId, activeMap, loading, link, sendBuffer,
                      toServer, incidents>>
      BY <1>3 DEF vars, serverVars, pageVars, netVars
    <2> QED
      BY <1>1, <1>2, <2>1 DEF OrderInvariant, Order, NetInv, OrderInv, ShowInv, CallInv, Calm,
                              Called, Now, Out, From, Wherever, Held
  <1>4. CASE Next
    <2>1. Order'
      BY <1>1, <1>4, NextIs, ConnectOrder, LoseOrder, NavigateOrder, LoadedOrder, StayingStays,
         StaysOrder, HandleOrder, DisconnectOrder
    <2> QED
      BY <1>2, <2>1 DEF OrderInvariant, Order
  <1> QED
    BY <1>3, <1>4

\* However long the queues and however many pages: a page's connection joins a map only
\* from no map or from that map itself, unless an answer or a connection came while the
\* page was moving on (JOIN_MAP in realtime/map.js, endActiveMap and startActiveMap).
THEOREM MapsAreJoinedInTurn == Spec => []OneMapAtATime
  <1>1. OrderInvariant => OneMapAtATime
    BY DEF OrderInvariant, OrderInv, OneMapAtATime, Calm
  <1> QED
    BY <1>1, OrderInit, OrderStep, PTL DEF Spec

\* ... and it joins a call only of the map it is on by then.
THEOREM CallsAreJoinedOnTheMap == Spec => []CallsFromTheMap
  <1>1. OrderInvariant => CallsFromTheMap
    BY DEF OrderInvariant, CallInv, CallsFromTheMap, Calm, Called
  <1> QED
    BY <1>1, OrderInit, OrderStep, PTL DEF Spec

-----------------------------------------------------------------------------
\* The lists of the server.

Undoubled == "doubled" \notin incidents

\* Two connections of one user are not on one map.
Single ==
    \A s, t \in connected : s # t /\ Owner[s] = Owner[t] /\ mapid[s] = mapid[t] => mapid[s] = NoMap

\* A map lists the users of the connections on it, whoever they are.
Exact == \A m \in Map : P!PeopleOn(junto, m) = P!Here(m)

Lists ==
    /\ \A s \in connected : mapid[s] # NoMap => userid[s] = Owner[s]
    /\ Undoubled => Single
    /\ Calm /\ Called /\ Undoubled => Exact

\* The connections on a map, by their users.
LEMMA HereIs == \A m : \A u : u \in P!Here(m) <=> \E s \in connected : mapid[s] = m /\ u = Owner[s]
  BY DEF P!Here

\* The store is as it was, and so is every connection on a map.
LEMMA RestsLists ==
    ASSUME Lists, mapid' = mapid, userid' = userid, junto' = junto,
           connected \subseteq connected',
           \A s \in connected' : s \in connected \/ mapid[s] = NoMap,
           incidents \subseteq incidents'
    PROVE  Lists'
  <1>1. (Calm' => Calm) /\ (Called' => Called) /\ (Undoubled' => Undoubled)
    BY IncidentsStay DEF Undoubled
  <1>2. \A s \in connected' : mapid'[s] # NoMap => s \in connected
    OBVIOUS
  <1>3. \A m \in Map : P!Here(m)' = P!Here(m)
    <2>1. \A m \in Map : {t \in connected' : mapid'[t] = m} = {t \in connected : mapid[t] = m}
      BY <1>2, KeyAssumption
    <2> QED
      BY <2>1 DEF P!Here
  <1>4. Exact => Exact'
    BY <1>3 DEF Exact, P!PeopleOn, P!LiveMapOf
  <1>5. Undoubled' => Single'
    BY <1>1, <1>2 DEF Lists, Single
  <1> QED
    BY <1>1, <1>2, <1>4, <1>5 DEF Lists

\* Whoever is on a map is listed there.
LEMMA ExactLists ==
    ASSUME Types, Exact, \A s \in connected : mapid[s] # NoMap => userid[s] = Owner[s]
    PROVE  P!SocketsAreListed
  <1>1. ASSUME NEW s \in connected, mapid[s] # NoMap
        PROVE  userid[s] \in P!PeopleOn(junto, mapid[s])
    <2>1. mapid[s] \in Map
      BY <1>1 DEF Types, P!TypeOK, P!MapKey
    <2> QED
      BY <1>1, <2>1, HereIs DEF Exact
  <1> QED
    BY <1>1 DEF P!SocketsAreListed

\* JOIN_MAP keeps the lists right, if the connection is on no other map.
LEMMA JoinMapLists ==
    ASSUME Types, Lists, NEW s \in Socket, NEW m \in Map, P!JoinMap(s, m),
           mapid[s] \in {NoMap, m} \/ ~Calm' \/ ~Called',
           incidents \subseteq incidents', Undoubled' => ~Doubled(s, mapid')
    PROVE  Lists'
  <1>1. (Calm' => Calm) /\ (Called' => Called) /\ (Undoubled' => Undoubled)
    BY IncidentsStay DEF Undoubled
  <1>2. /\ s \in connected /\ connected' = connected
        /\ mapid' = [mapid EXCEPT ![s] = m] /\ userid' = [userid EXCEPT ![s] = Owner[s]]
    BY DEF P!JoinMap
  <1>3. /\ connected \subseteq Socket
        /\ mapid \in [Socket -> Map \cup {NoMap}] /\ userid \in [Socket -> P!UserKey]
        /\ P!TypeOK
    BY DEF Types, P!TypeOK, P!MapKey
  <1>4. /\ mapid'[s] = m /\ userid'[s] = Owner[s]
        /\ \A t \in connected : t # s => mapid'[t] = mapid[t] /\ userid'[t] = userid[t]
    BY <1>2, <1>3
  <1>5. \A t \in connected' : mapid'[t] # NoMap => userid'[t] = Owner[t]
    BY <1>2, <1>4 DEF Lists
  <1>6. Undoubled' => Single'
    BY <1>1, <1>2, <1>4 DEF Lists, Single, Doubled
  <1>7. ASSUME Calm', Called', Undoubled' PROVE Exact'
    <2>1. Exact /\ mapid[s] \in {NoMap, m}
      BY <1>1, <1>7 DEF Lists
    <2>2. \A k \in Map : \A u :
             u \in P!PeopleOn(junto', k) <=> u \in P!PeopleOn(junto, k) \/ (k = m /\ u = Owner[s])
      BY <1>3, P!JoinerOnly, ServerAssumptions
    <2>3. \A k \in Map : \A u :
             u \in P!Here(k)' <=> \E t \in connected : mapid'[t] = k /\ u = Owner[t]
      BY <1>2 DEF P!Here
    <2>4. \A k \in Map : \A u :
             u \in P!Here(k)' <=> u \in P!Here(k) \/ (k = m /\ u = Owner[s])
      BY <1>2, <1>4, <2>1, <2>3, HereIs, KeyAssumption
    <2>5. \A k \in Map : \A u : u \in P!PeopleOn(junto', k) <=> u \in P!Here(k)'
      BY <2>1, <2>2, <2>4 DEF Exact
    <2>6. \A k \in Map : P!PeopleOn(junto', k) = P!Here(k)'
      BY <2>5
    <2> QED
      BY <2>6 DEF Exact, P!PeopleOn, P!LiveMapOf
  <1> QED
    BY <1>5, <1>6, <1>7 DEF Lists

\* LEAVE_MAP and the end of a connection.
LEMMA LeaverLists ==
    ASSUME Types, Lists, NEW s \in Socket, P!LeaveMap(s) \/ P!Disconnect(s),
           incidents \subseteq incidents'
    PROVE  Lists'
  <1>1. (Calm' => Calm) /\ (Called' => Called) /\ (Undoubled' => Undoubled)
    BY IncidentsStay DEF Undoubled
  <1>2. /\ connected \subseteq Socket
        /\ mapid \in [Socket -> Map \cup {NoMap}] /\ userid \in [Socket -> P!UserKey]
        /\ P!TypeOK
    BY DEF Types, P!TypeOK, P!MapKey
  <1>3. /\ s \in connected /\ connected' \subseteq connected
        /\ connected \subseteq connected' \cup {s}
        /\ mapid' = [mapid EXCEPT ![s] = NoMap]
        /\ userid' = userid \/ userid' = [userid EXCEPT ![s] = NoUser]
    BY DEF P!LeaveMap, P!Disconnect
  <1>4. /\ mapid'[s] = NoMap
        /\ \A t \in connected : t # s => mapid'[t] = mapid[t] /\ userid'[t] = userid[t]
    BY <1>2, <1>3
  <1>5. \A t \in connected' : mapid'[t] # NoMap => userid'[t] = Owner[t]
    BY <1>3, <1>4 DEF Lists
  <1>6. Undoubled' => Single'
    BY <1>1, <1>3, <1>4 DEF Lists, Single
  <1>7. ASSUME Calm', Called', Undoubled' PROVE Exact'
    <2>1. Exact /\ Single
      BY <1>1, <1>7 DEF Lists
    <2>2. P!SocketsAreListed
      BY <2>1, ExactLists DEF Lists
    <2>3. \A k \in Map : \A u :
             u \in P!PeopleOn(junto', k)
                <=> u \in P!PeopleOn(junto, k) /\ ~(k = mapid[s] /\ u = userid[s])
      BY <1>2, <2>2, P!LeaverOnly, ServerAssumptions
    <2>4. \A k \in Map : \A u :
             u \in P!Here(k)' <=> \E t \in connected' : mapid'[t] = k /\ u = Owner[t]
      BY DEF P!Here
    <2>5. mapid[s] # NoMap => userid[s] = Owner[s]
      BY <1>3 DEF Lists
    <2>6. ASSUME NEW k \in Map, NEW u
          PROVE  u \in P!Here(k)' <=> u \in P!Here(k) /\ ~(k = mapid[s] /\ u = userid[s])
      <3>1. k # NoMap
        BY KeyAssumption
      <3>2. u \in P!Here(k)' <=> \E t \in connected : t # s /\ mapid[t] = k /\ u = Owner[t]
        BY <1>3, <1>4, <2>4, <3>1
      <3>3. CASE k = mapid[s]
        <4>1. userid[s] = Owner[s]
          BY <2>5, <3>1, <3>3
        <4>2. \A t \in connected : t # s /\ mapid[t] = k => Owner[t] # Owner[s]
          BY <1>3, <2>1, <3>1, <3>3 DEF Single
        <4> QED
          BY <1>3, <3>2, <3>3, <4>1, <4>2, HereIs
      <3>4. CASE k # mapid[s]
        BY <3>2, <3>4, HereIs
      <3> QED
        BY <3>3, <3>4
    <2>7. \A k \in Map : \A u : u \in P!PeopleOn(junto', k) <=> u \in P!Here(k)'
      BY <2>1, <2>3, <2>6 DEF Exact
    <2>8. \A k \in Map : P!PeopleOn(junto', k) = P!Here(k)'
      BY <2>7
    <2> QED
      BY <2>8 DEF Exact, P!PeopleOn, P!LiveMapOf
  <1> QED
    BY <1>5, <1>6, <1>7 DEF Lists

\* What is said in and about a call.
LEMMA CallLists ==
    ASSUME Types, Lists, NEW s \in Socket, NEW m \in Map,
           P!JoinCall(s, m) \/ P!LeaveCall(s, m),
           P!LeaveCall(s, m) \/ mapid[s] = m \/ ~Calm' \/ ~Called',
           incidents \subseteq incidents'
    PROVE  Lists'
  <1>1. (Calm' => Calm) /\ (Called' => Called) /\ (Undoubled' => Undoubled)
    BY IncidentsStay DEF Undoubled
  <1>2. s \in connected /\ connected' = connected /\ mapid' = mapid /\ userid' = userid
    BY DEF P!JoinCall, P!LeaveCall
  <1>3. P!TypeOK
    BY DEF Types
  <1>4. ASSUME Calm', Called', Undoubled' PROVE Exact'
    <2>1. Exact
      BY <1>1, <1>4 DEF Lists
    <2>2. P!SocketsAreListed
      BY <2>1, ExactLists DEF Lists
    <2>3. \A k \in Map : P!PeopleOn(junto', k) = P!PeopleOn(junto, k)
      <3>1. CASE P!LeaveCall(s, m)
        BY <1>3, <2>2, <3>1, P!HangingUpListsNobody, ServerAssumptions
      <3>2. CASE P!JoinCall(s, m) /\ ~P!LeaveCall(s, m)
        <4>1. mapid[s] = m
          BY <1>4, <3>2
        <4>2. \A k \in Map : \A u :
                 u \in P!PeopleOn(junto', k)
                    <=> u \in P!PeopleOn(junto, k) \/ (k = m /\ u = Owner[s])
          BY <1>3, <3>2, P!JoinerOnly, ServerAssumptions
        <4>3. Owner[s] \in P!PeopleOn(junto, m)
          BY <1>2, <2>1, <4>1, HereIs DEF Exact
        <4>4. \A k \in Map : \A u : u \in P!PeopleOn(junto', k) <=> u \in P!PeopleOn(junto, k)
          BY <4>2, <4>3
        <4> QED
          BY <4>4
      <3> QED
        BY <3>1, <3>2
    <2>4. \A k \in Map : P!Here(k)' = P!Here(k)
      BY <1>2 DEF P!Here
    <2>5. \A k \in Map : P!PeopleOn(junto', k) = P!Here(k)'
      BY <2>1, <2>3, <2>4 DEF Exact
    <2> QED
      BY <2>5 DEF Exact, P!PeopleOn, P!LiveMapOf
  <1>5. Undoubled' => Single'
    BY <1>1, <1>2 DEF Lists, Single
  <1>6. \A t \in connected' : mapid'[t] # NoMap => userid'[t] = Owner[t]
    BY <1>2 DEF Lists
  <1> QED
    BY <1>4, <1>5, <1>6 DEF Lists

\* The server takes a message.
LEMMA HandleLists ==
    ASSUME OrderInvariant, OrderInvariant', Lists, NEW s \in Socket, Handle(s)
    PROVE  Lists'
  <1> DEFINE e == Head(toServer[s])
  <1>1. e \in Message /\ ServerTakes(s, e)
    BY HandleIs DEF OrderInvariant
  <1>2. /\ incidents \subseteq incidents'
        /\ Undoubled' => ~Doubled(s, mapid')
    BY DEF Handle, Undoubled
  <1> HIDE DEF e
  <1>3. Types /\ Types'
    BY DEF OrderInvariant
  <1>4. e.type # "LEAVE_MAP" => e.map \in Map
    BY <1>1 DEF Message
  <1>5. strays' = strays
           \cup (IF Joins(e) /\ mapid[s] \notin {NoMap, e.map} THEN {"join"} ELSE {})
           \cup (IF e.type = "JOIN_CALL" /\ mapid[s] # e.map THEN {"call"} ELSE {})
    BY <1>1, <1>3, TakesIs
  <1>6. CASE e.type = "JOIN_MAP"
    <2>1. P!JoinMap(s, e.map)
      BY <1>1, <1>6 DEF ServerTakes, Passed
    <2>2. Calm' => mapid[s] \in {NoMap, e.map}
      BY <1>5, <1>6 DEF OrderInvariant, OrderInv, Joins
    <2> QED
      BY <1>2, <1>3, <1>4, <1>6, <2>1, <2>2, JoinMapLists
  <1>7. CASE e.type = "LEAVE_MAP"
    <2>1. P!LeaveMap(s)
      BY <1>1, <1>7 DEF ServerTakes, Passed
    <2> QED
      BY <1>2, <1>3, <2>1, LeaverLists
  <1>8. CASE e.type = "JOIN_CALL"
    <2>1. P!JoinCall(s, e.map)
      BY <1>1, <1>8 DEF ServerTakes, Passed
    <2>2. Calm' /\ Called' => mapid[s] = e.map
      BY <1>5, <1>8 DEF OrderInvariant, CallInv
    <2> QED
      BY <1>2, <1>3, <1>4, <1>8, <2>1, <2>2, CallLists
  <1>9. CASE e.type = "LEAVE_CALL"
    <2>1. P!LeaveCall(s, e.map)
      BY <1>1, <1>9 DEF ServerTakes, Passed
    <2> QED
      BY <1>2, <1>3, <1>4, <1>9, <2>1, CallLists
  <1>10. CASE e.type \in Passed
    <2>1. mapid' = mapid /\ userid' = userid /\ junto' = junto /\ connected' = connected
      BY <1>1, <1>10 DEF ServerTakes, Passed, P!SendMapperInfo, P!InviteACall, P!InviteToJoin,
                         P!AcceptCall, P!Relay, P!serverVars
    <2> QED
      BY <1>2, <2>1, RestsLists
  <1> QED
    BY <1>1, <1>6, <1>7, <1>8, <1>9, <1>10 DEF ServerTakes

\* The initial states list nobody.
LEMMA ListsInit == Init => Lists
  <1> SUFFICES ASSUME Init PROVE Lists
    OBVIOUS
  <1>1. P!Init /\ connected = {}
    BY SameInit DEF Init, Server!Init
  <1>2. \A m \in Map : P!PeopleOn(junto, m) = {} /\ P!Here(m) = {}
    BY <1>1, P!NothingListedInit, ServerAssumptions DEF P!Here
  <1> QED
    BY <1>1, <1>2 DEF Lists, Single, Exact

\* Every step keeps the lists right.
LEMMA ListsStep == OrderInvariant /\ Lists /\ OrderInvariant' /\ [Next]_vars => Lists'
  <1> SUFFICES ASSUME OrderInvariant, Lists, OrderInvariant', [Next]_vars PROVE Lists'
    OBVIOUS
  <1>0. Types
    BY DEF OrderInvariant
  <1>1. ASSUME UNCHANGED vars \/ NothingFromServer, incidents \subseteq incidents' PROVE Lists'
    <2>1. mapid' = mapid /\ userid' = userid /\ junto' = junto /\ connected' = connected
      BY <1>1 DEF vars, NothingFromServer, serverVars
    <2> QED
      BY <1>1, <2>1, RestsLists
  <1>2. ASSUME NEW u \in User, Connect(u) PROVE Lists'
    <2>1. PICK s \in Socket \ connected : Server!Connect(s)
      BY <1>2 DEF Connect
    <2>2. /\ mapid' = mapid /\ userid' = userid /\ junto' = junto
          /\ connected' = connected \cup {s}
      BY <2>1 DEF Server!Connect
    <2>3. mapid[s] = NoMap
      BY <2>1 DEF OrderInvariant, NetInv
    <2>4. incidents \subseteq incidents'
      BY <1>2 DEF Connect
    <2> QED
      BY <2>2, <2>3, <2>4, RestsLists
  <1>3. ASSUME NEW u \in User,
               \/ Lose(u)
               \/ \E m \in Map \cup {NoMap} : Navigate(u, m)
               \/ \E m \in Map : Loaded(u, m)
               \/ Stays(u)
        PROVE  Lists'
    BY <1>1, <1>3 DEF Lose, Navigate, Loaded, Stays
  <1>4. ASSUME NEW s \in Socket, Disconnect(s) PROVE Lists'
    <2>1. P!Disconnect(s) /\ incidents' = incidents
      BY <1>4, SameDisconnect DEF Disconnect
    <2> QED
      BY <1>0, <2>1, LeaverLists
  <1>5. CASE UNCHANGED vars
    BY <1>1, <1>5 DEF vars
  <1>6. CASE Next
    BY <1>0, <1>2, <1>3, <1>4, <1>6, NextIs, StayingStays, HandleLists
  <1> QED
    BY <1>5, <1>6

\* When nothing is on its way the maps of the connections are those the pages show.
LEMMA QuietMaps ==
    ASSUME OrderInvariant, Calm, Quiet, NEW u \in User
    PROVE  /\ link[u] \in connected /\ Owner[link[u]] = u
           /\ activeMap[u] = mapId[u]
           /\ \A m \in Map : mapid[link[u]] = m <=> activeMap[u] = m
  <1>0. Types /\ OrderInv /\ ShowInv
    BY DEF OrderInvariant
  <1>1. /\ link[u] # NoSocket /\ link[u] \in Socket /\ toServer[link[u]] = <<>>
        /\ \A m \in Map : loading[u][m] = 0
    BY <1>0, OrderParts DEF Quiet
  <1>2. link[u] \in connected /\ Owner[link[u]] = u
    BY <1>0, <1>1 DEF Types, NetTypes
  <1>3. From(u) = Now(link[u]) /\ Wherever(u) = Now(link[u]) /\ Out(u) = <<>>
    BY <1>1 DEF From, Wherever, Out
  <1>4. InTheEnd(From(u), Out(u)) = Now(link[u]) /\ InTheEnd(Wherever(u), Out(u)) = Now(link[u])
    BY <1>3, NothingSaid
  <1>5. Held(u) \subseteq Map /\ mapId[u] \in Map \cup {NoMap} /\ activeMap[u] \in Map \cup {NoMap}
    BY <1>0, OrderParts
  <1>6. \A m \in Map : ~(loading[u][m] > 0)
    BY <1>1
  <1>7. Now(link[u]) = Held(u)
    <2>1. Now(link[u]) \subseteq Held(u)
      BY <1>0, <1>4 DEF OrderInv
    <2>2. \A m \in Held(u) : m \in Now(link[u])
      BY <1>0, <1>4, <1>5, <1>6 DEF ShowInv
    <2> QED
      BY <2>1, <2>2
  <1>8. activeMap[u] = mapId[u]
    <2>1. mapId[u] = NoMap => activeMap[u] = NoMap
      BY <1>0 DEF ShowInv
    <2>2. mapId[u] # NoMap => activeMap[u] = mapId[u]
      BY <1>0, <1>5, <1>6 DEF ShowInv
    <2> QED
      BY <2>1, <2>2
  <1> QED
    BY <1>2, <1>7, <1>8, KeyAssumption DEF Now, Held

\* When nothing is on its way the server lists on every map exactly the users whose pages
\* show it, however they got there: the JOIN_MAP and LEAVE_MAP of startActiveMap,
\* endActiveMap and of every new connection add up, whatever was lost in between.
THEOREM ServerKnowsThePages == Spec => []ServerSeesPages
  <1>1. OrderInvariant /\ Lists => ServerSeesPages
    <2> SUFFICES ASSUME OrderInvariant, Lists, Quiet,
                        incidents \cap (Disorder \cup Miscall \cup {"doubled"}) = {},
                        NEW m \in Map
                 PROVE  Server!PeopleOn(junto, m) = Showing(m)
      BY DEF ServerSeesPages
    <2>1. Calm /\ Called /\ Undoubled
      BY DEF Calm, Called, Undoubled
    <2>2. Server!PeopleOn(junto, m) = P!Here(m)
      BY <2>1, SameStore DEF Lists, Exact
    <2>3. \A u \in User : /\ link[u] \in connected /\ Owner[link[u]] = u
                          /\ mapid[link[u]] = m <=> activeMap[u] = m
      BY <2>1, QuietMaps
    <2>4. connected = {link[u] : u \in User}
      BY DEF Quiet
    <2>5. \A u : u \in P!Here(m) <=> u \in User /\ activeMap[u] = m
      BY <2>3, <2>4, HereIs
    <2>6. \A u : u \in P!Here(m) <=> u \in Showing(m)
      BY <2>5 DEF Showing
    <2> QED
      BY <2>2, <2>6
  <1> QED
    BY <1>1, OrderInit, OrderStep, ListsInit, ListsStep, PTL DEF Spec

-----------------------------------------------------------------------------
\* What a page will list once it has taken what is on its way to it.

Adds(e, v) == e.about = v /\ e.type \in {"NEW_MAPPER", "MAPPER_LIST_UPDATED"}
Drops(e, v) == e.about = v /\ e.type = "LOST_MAPPER"

\* v is added and not dropped after that, or known before and never dropped.
Listed(known, q, v) ==
    \/ \E i \in 1..Len(q) : Adds(q[i], v) /\ \A j \in i + 1..Len(q) : ~Drops(q[j], v)
    \/ known /\ \A j \in 1..Len(q) : ~Drops(q[j], v)

\* What is among some notices.
Adding(f, v) == \E i \in 1..Len(f) : Adds(f[i], v)
Dropping(f, v) == \E i \in 1..Len(f) : Drops(f[i], v)

\* Nothing on its way.
LEMMA ListedNow ==
    ASSUME NEW known, NEW v
    PROVE  Listed(known, <<>>, v) <=> known
  <1>1. Len(<<>>) = 0 /\ 1..0 = {}
    OBVIOUS
  <1> QED
    BY <1>1 DEF Listed

\* The first notice is taken.
LEMMA ListedTail ==
    ASSUME NEW known, NEW v, NEW q \in Seq(Notice), q # <<>>
    PROVE  Listed(known, q, v)
              <=> Listed(Adds(Head(q), v) \/ (known /\ ~Drops(Head(q), v)), Tail(q), v)
  <1> DEFINE r == Tail(q)
             e == Head(q)
             k == Adds(e, v) \/ (known /\ ~Drops(e, v))
  <1>1. /\ Len(q) \in Nat \ {0} /\ e = q[1]
        /\ Len(r) = Len(q) - 1 /\ \A i \in 1..Len(r) : r[i] = q[i + 1]
    <2>1. Len(q) \in Nat \ {0}
      BY EmptySeq
    <2> QED
      BY <2>1, HeadTailProperties
  <1> HIDE DEF r, e
  <1>2. \A i \in 1..Len(q) : i = 1 \/ (i - 1 \in 1..Len(r) /\ r[i - 1] = q[i])
    BY <1>1
  <1>3. \A i \in 1..Len(r) : i + 1 \in 2..Len(q) /\ i + 1 \in 1..Len(q) /\ r[i] = q[i + 1]
    BY <1>1
  <1>4. 1 \in 1..Len(q) /\ \A j : j \in 1 + 1..Len(q) => j - 1 \in 1..Len(r) /\ r[j - 1] = q[j]
    BY <1>1
  <1>5. (\A j \in 1..Len(q) : ~Drops(q[j], v))
           <=> ~Drops(e, v) /\ \A j \in 1..Len(r) : ~Drops(r[j], v)
    BY <1>1, <1>2, <1>3, <1>4
  <1>6. (\A j \in 1 + 1..Len(q) : ~Drops(q[j], v)) <=> \A j \in 1..Len(r) : ~Drops(r[j], v)
    <2>1. \A i \in 1..Len(r) : i + 1 \in 1 + 1..Len(q) /\ r[i] = q[i + 1]
      BY <1>1
    <2> QED
      BY <1>4, <2>1
  <1>7. (\E i \in 1..Len(q) : Adds(q[i], v) /\ \A j \in i + 1..Len(q) : ~Drops(q[j], v))
           <=> \/ Adds(e, v) /\ \A j \in 1..Len(r) : ~Drops(r[j], v)
               \/ \E i \in 1..Len(r) : Adds(r[i], v) /\ \A j \in i + 1..Len(r) : ~Drops(r[j], v)
    <2>1. ASSUME NEW i \in 1..Len(r)
          PROVE  (\A j \in (i + 1) + 1..Len(q) : ~Drops(q[j], v))
                    <=> \A j \in i + 1..Len(r) : ~Drops(r[j], v)
      <3>1. \A j \in i + 1..Len(r) : j + 1 \in (i + 1) + 1..Len(q) /\ r[j] = q[j + 1]
        BY <1>1
      <3>2. \A j \in (i + 1) + 1..Len(q) : j - 1 \in i + 1..Len(r) /\ r[j - 1] = q[j]
        BY <1>1
      <3> QED
        BY <3>1, <3>2
    <2>2. ASSUME NEW i \in 1..Len(q), Adds(q[i], v), \A j \in i + 1..Len(q) : ~Drops(q[j], v),
                 i # 1
          PROVE  \E k1 \in 1..Len(r) : Adds(r[k1], v) /\ \A j \in k1 + 1..Len(r) : ~Drops(r[j], v)
      <3>1. i - 1 \in 1..Len(r) /\ r[i - 1] = q[i] /\ (i - 1) + 1 = i
        BY <1>2, <2>2
      <3>2. \A j \in (i - 1) + 1..Len(r) : ~Drops(r[j], v)
        BY <2>1, <2>2, <3>1
      <3> QED
        BY <2>2, <3>1, <3>2
    <2>3. ASSUME NEW i \in 1..Len(r), Adds(r[i], v), \A j \in i + 1..Len(r) : ~Drops(r[j], v)
          PROVE  \E k1 \in 1..Len(q) : Adds(q[k1], v) /\ \A j \in k1 + 1..Len(q) : ~Drops(q[j], v)
      <3>1. i + 1 \in 1..Len(q) /\ r[i] = q[i + 1]
        BY <1>3
      <3>2. \A j \in (i + 1) + 1..Len(q) : ~Drops(q[j], v)
        BY <2>1, <2>3
      <3> QED
        BY <2>3, <3>1, <3>2
    <2> QED
      BY <1>1, <1>4, <1>6, <2>2, <2>3
  <1>8. Listed(known, q, v)
           <=> \/ Adds(e, v) /\ \A j \in 1..Len(r) : ~Drops(r[j], v)
               \/ \E i \in 1..Len(r) : Adds(r[i], v) /\ \A j \in i + 1..Len(r) : ~Drops(r[j], v)
               \/ known /\ ~Drops(e, v) /\ \A j \in 1..Len(r) : ~Drops(r[j], v)
    BY <1>5, <1>7 DEF Listed
  <1>9. Listed(k, r, v)
           <=> \/ \E i \in 1..Len(r) : Adds(r[i], v) /\ \A j \in i + 1..Len(r) : ~Drops(r[j], v)
               \/ k /\ \A j \in 1..Len(r) : ~Drops(r[j], v)
    BY Zenon DEF Listed
  <1> QED
    BY <1>8, <1>9 DEF r, e

\* Notices that only add v, that only drop v, that do neither.
LEMMA ListedAppend ==
    ASSUME NEW known, NEW v, NEW q \in Seq(Notice), NEW f \in Seq(Notice)
    PROVE  /\ Adding(f, v) /\ ~Dropping(f, v) => Listed(known, q \o f, v)
           /\ Dropping(f, v) /\ ~Adding(f, v) => ~Listed(known, q \o f, v)
           /\ ~Adding(f, v) /\ ~Dropping(f, v) =>
                 (Listed(known, q \o f, v) <=> Listed(known, q, v))
  <1> DEFINE r == q \o f
             n == Len(q)
             k == Len(f)
             adds == \E i \in 1..k : Adds(f[i], v)
             drops == \E i \in 1..k : Drops(f[i], v)
  <1>1. /\ n \in Nat /\ k \in Nat /\ Len(r) = n + k
        /\ \A i \in 1..n : i \in 1..n + k /\ r[i] = q[i]
        /\ \A i \in 1..k : n + i \in 1..n + k /\ r[n + i] = f[i]
        /\ \A i \in 1..n + k : i \in 1..n \/ (i - n \in 1..k /\ r[i] = f[i - n])
    <2>1. /\ n \in Nat /\ k \in Nat /\ Len(r) = n + k
          /\ \A i \in 1..n + k : r[i] = IF i <= n THEN q[i] ELSE f[i - n]
      BY LenProperties, ConcatProperties
    <2> HIDE DEF r, n, k
    <2>2. ASSUME NEW i \in 1..k PROVE n + i \in 1..n + k /\ r[n + i] = f[i]
      <3>1. n + i \in 1..n + k /\ ~(n + i <= n) /\ n + i - n = i
        BY <2>1
      <3> QED
        BY <2>1, <3>1
    <2> QED
      BY <2>1, <2>2
  <1> HIDE DEF r, n, k
  <1>2. ASSUME adds, ~drops PROVE Listed(known, r, v)
    <2>1. PICK i \in 1..k : Adds(f[i], v)
      BY <1>2
    <2>2. n + i \in 1..Len(r) /\ Adds(r[n + i], v)
      BY <1>1, <2>1
    <2>3. ASSUME NEW j \in n + i + 1..Len(r) PROVE ~Drops(r[j], v)
      <3>1. j \in 1..n + k /\ j \notin 1..n
        BY <1>1
      <3>2. j - n \in 1..k /\ r[j] = f[j - n]
        BY <1>1, <3>1
      <3> QED
        BY <1>2, <3>2
    <2> QED
      BY <2>2, <2>3 DEF Listed
  <1>3. ASSUME drops, ~adds PROVE ~Listed(known, r, v)
    <2>1. PICK d \in 1..k : Drops(f[d], v)
      BY <1>3
    <2>2. n + d \in 1..Len(r) /\ Drops(r[n + d], v)
      BY <1>1, <2>1
    <2>3. ASSUME NEW i \in 1..Len(r), Adds(r[i], v), \A j \in i + 1..Len(r) : ~Drops(r[j], v)
          PROVE  FALSE
      <3>1. i \in 1..n
        BY <1>1, <1>3, <2>3
      <3>2. n + d \in i + 1..Len(r)
        BY <1>1, <3>1
      <3> QED
        BY <2>2, <2>3, <3>2
    <2> QED
      BY <2>2, <2>3 DEF Listed
  <1>4. ASSUME ~adds, ~drops PROVE Listed(known, r, v) <=> Listed(known, q, v)
    <2>1. \A i \in 1..Len(r) : i \in 1..n \/ (~Adds(r[i], v) /\ ~Drops(r[i], v))
      BY <1>1, <1>4
    <2>2. \A i \in 1..n : i \in 1..Len(r) /\ r[i] = q[i]
      BY <1>1
    <2>3. (\A j \in 1..Len(r) : ~Drops(r[j], v)) <=> \A j \in 1..n : ~Drops(q[j], v)
      BY <2>1, <2>2
    <2>4. ASSUME NEW i \in 1..n
          PROVE  (\A j \in i + 1..Len(r) : ~Drops(r[j], v)) <=> \A j \in i + 1..n : ~Drops(q[j], v)
      <3>1. /\ \A j \in i + 1..Len(r) : j \in 1..Len(r) /\ (j \in 1..n => j \in i + 1..n)
            /\ \A j \in i + 1..n : j \in i + 1..Len(r) /\ j \in 1..n
        BY <1>1
      <3> QED
        BY <2>1, <2>2, <3>1
    <2>5. (\E i \in 1..Len(r) : Adds(r[i], v) /\ \A j \in i + 1..Len(r) : ~Drops(r[j], v))
             <=> \E i \in 1..n : Adds(q[i], v) /\ \A j \in i + 1..n : ~Drops(q[j], v)
      BY <2>1, <2>2, <2>4
    <2> QED
      BY <2>3, <2>5 DEF Listed, n
  <1> QED
    BY <1>2, <1>3, <1>4 DEF r, k, Adding, Dropping

\* Connection t is written a message of this type about v.
Tells(t, type, v) ==
    \E i \in 1..Len(emitted) : /\ emitted[i].type = type
                               /\ emitted[i].about = v
                               /\ t \in emitted[i].to

Added(t, v) == Tells(t, "NEW_MAPPER", v) \/ Tells(t, "MAPPER_LIST_UPDATED", v)
Lost(t, v) == Tells(t, "LOST_MAPPER", v)

\* The page of u will list v.
Sees(u, v) == Listed(v \in participants[u], toClient[link[u]], v)

\* v is to hear that u is new.
HearsOf(v, u) ==
    \E k \in 1..Len(toClient[link[v]]) : /\ toClient[link[v]][k].type = "NEW_MAPPER"
                                         /\ toClient[link[v]][k].about = u

\* What the messages of an event become for one connection.
LEMMA ForSays ==
    ASSUME P!TypeOK', NEW talking \in BOOLEAN, NEW t \in Socket
    PROVE  /\ For(t, emitted', talking) \in Seq(Notice)
           /\ \A x : x \in In(For(t, emitted', talking)) <=>
                 \E type \in Told : \E v : /\ Tells(t, type, v)'
                                         /\ x = [type |-> type, about |-> v, talking |-> talking]
  <1> DEFINE notice(e) == [type |-> e.type, about |-> e.about, talking |-> talking]
             one(e) == IF t \in e.to /\ e.type \in Told THEN <<notice(e)>> ELSE <<>>
             parts == [i \in DOMAIN emitted' |-> one(emitted'[i])]
             f == For(t, emitted', talking)
  <1>0. emitted' \in Seq(P!Emission)
    BY DEF P!TypeOK
  <1>1. ASSUME NEW e \in P!Emission PROVE one(e) \in Seq(Notice)
    <2>1. e.about \in P!UserKey \cup Socket /\ e.about \in P!Named(e.type)
      BY DEF P!Emission
    <2>2. e.type \in Told => notice(e) \in Notice
      BY <2>1 DEF Notice
    <2> QED
      BY <2>2
  <1>2. /\ DOMAIN emitted' = 1..Len(emitted') /\ Len(emitted') \in Nat
        /\ \A i \in 1..Len(emitted') : emitted'[i] \in P!Emission
    BY <1>0
  <1>3. parts \in Seq(Seq(Notice)) /\ Len(parts) = Len(emitted')
    <2> HIDE DEF one
    <2>1. \A i \in DOMAIN emitted' : one(emitted'[i]) \in Seq(Notice)
      BY <1>1, <1>2
    <2> QED
      BY <1>2, <2>1
  <1>4. f = FlattenSeq(parts)
    BY DEF For
  <1>5. f \in Seq(Notice)
    <2> HIDE DEF parts, f
    <2> QED
      BY <1>3, <1>4, FlattenType
  <1>6. \A x : x \in In(f) <=> \E i \in 1..Len(emitted') : x \in In(parts[i])
    <2> HIDE DEF parts, f
    <2> QED
      BY <1>3, <1>4, FlattenIn
  <1>7. ASSUME NEW i \in 1..Len(emitted'), NEW x
        PROVE  x \in In(parts[i]) <=> /\ t \in emitted'[i].to /\ emitted'[i].type \in Told
                                      /\ x = notice(emitted'[i])
    <2>1. parts[i] = one(emitted'[i])
      BY <1>2
    <2>2. \A y : x \in In(<<y>>) <=> x = y
      BY InShort
    <2>3. x \notin In(<<>>)
      BY InShort
    <2> HIDE DEF parts, notice
    <2> QED
      BY <2>1, <2>2, <2>3
  <1>8. \A x : x \in In(f) <=>
           \E i \in 1..Len(emitted') : /\ t \in emitted'[i].to /\ emitted'[i].type \in Told
                                       /\ x = notice(emitted'[i])
    <2> HIDE DEF parts, f, notice
    <2> QED
      BY <1>6, <1>7
  <1>9. \A x : x \in In(f) <=>
           \E type \in Told : \E v : /\ Tells(t, type, v)'
                                   /\ x = [type |-> type, about |-> v, talking |-> talking]
    <2> HIDE DEF f
    <2> QED
      BY <1>8 DEF Tells
  <1> QED
    BY <1>5, <1>9 DEF f

\* ... and whom they name.
LEMMA ForIs ==
    ASSUME P!TypeOK', NEW talking \in BOOLEAN, NEW t \in Socket, NEW type \in Told, NEW v
    PROVE  /\ For(t, emitted', talking) \in Seq(Notice)
           /\ (\E i \in 1..Len(For(t, emitted', talking)) :
                  /\ For(t, emitted', talking)[i].type = type
                  /\ For(t, emitted', talking)[i].about = v)
              <=> Tells(t, type, v)'
  <1> DEFINE f == For(t, emitted', talking)
  <1>1. /\ f \in Seq(Notice)
        /\ \A x : x \in In(f) <=>
              \E k \in Told : \E w : /\ Tells(t, k, w)'
                                   /\ x = [type |-> k, about |-> w, talking |-> talking]
    BY ForSays
  <1> HIDE DEF f
  <1>2. (\E i \in 1..Len(f) : f[i].type = type /\ f[i].about = v)
           <=> \E x \in In(f) : x.type = type /\ x.about = v
    BY DEF In
  <1>3. ASSUME NEW x \in In(f), x.type = type, x.about = v PROVE Tells(t, type, v)'
    <2>1. PICK k \in Told : \E w : Tells(t, k, w)' /\ x = [type |-> k, about |-> w, talking |-> talking]
      BY <1>1, <1>3
    <2>2. PICK w : Tells(t, k, w)' /\ x = [type |-> k, about |-> w, talking |-> talking]
      BY <2>1
    <2>3. k = type /\ w = v
      BY <1>3, <2>2
    <2> QED
      BY <2>2, <2>3
  <1>4. ASSUME Tells(t, type, v)' PROVE \E x \in In(f) : x.type = type /\ x.about = v
    <2> DEFINE x == [type |-> type, about |-> v, talking |-> talking]
    <2>1. x \in In(f)
      BY <1>1, <1>4
    <2> QED
      BY <2>1
  <1> QED
    BY <1>1, <1>2, <1>3, <1>4 DEF f

\* What a page will list after an event of the server.
LEMMA DeliverSees ==
    ASSUME Types, P!TypeOK', NEW talking \in BOOLEAN, Deliver(talking), link' = link,
           participants' = participants, NEW u \in User, link[u] # NoSocket, NEW v
    PROVE  /\ Added(link[u], v)' /\ ~Lost(link[u], v)' => Sees(u, v)'
           /\ Lost(link[u], v)' /\ ~Added(link[u], v)' => ~Sees(u, v)'
           /\ ~Added(link[u], v)' /\ ~Lost(link[u], v)' => (Sees(u, v)' <=> Sees(u, v))
           /\ HearsOf(u, v) \/ Tells(link[u], "NEW_MAPPER", v)' => HearsOf(u, v)'
  <1>1. PICK t \in Socket : t = link[u]
    BY DEF Types, NetTypes
  <1>2. Owner[t] = u /\ toClient[t] \in Seq(Notice)
    BY <1>1 DEF Types, NetTypes
  <1> DEFINE f == For(t, emitted', talking)
  <1>3. toClient'[t] = toClient[t] \o f
    BY <1>1, <1>2 DEF Deliver
  <1>4. {"NEW_MAPPER", "MAPPER_LIST_UPDATED", "LOST_MAPPER"} \subseteq Told
    BY DEF Told, Server!MessageType
  <1>5. \A type \in Told :
           /\ f \in Seq(Notice)
           /\ (\E i \in 1..Len(f) : f[i].type = type /\ f[i].about = v) <=> Tells(t, type, v)'
    BY ForIs
  <1> HIDE DEF f
  <1>6. /\ f \in Seq(Notice)
        /\ (\E i \in 1..Len(f) : f[i].type = "NEW_MAPPER" /\ f[i].about = v)
              <=> Tells(t, "NEW_MAPPER", v)'
        /\ (\E i \in 1..Len(f) : f[i].type = "MAPPER_LIST_UPDATED" /\ f[i].about = v)
              <=> Tells(t, "MAPPER_LIST_UPDATED", v)'
        /\ (\E i \in 1..Len(f) : f[i].type = "LOST_MAPPER" /\ f[i].about = v)
              <=> Tells(t, "LOST_MAPPER", v)'
    BY <1>4, <1>5
  <1>7. /\ Adding(f, v) <=> Added(t, v)'
        /\ Dropping(f, v) <=> Lost(t, v)'
    BY <1>6 DEF Adding, Dropping, Adds, Drops, Added, Lost
  <1> DEFINE known == v \in participants[u]
             q == toClient[t]
  <1>8. (Sees(u, v)' <=> Listed(known, q \o f, v)) /\ (Sees(u, v) <=> Listed(known, q, v))
    BY <1>1, <1>3 DEF Sees
  <1>9. /\ Adding(f, v) /\ ~Dropping(f, v) => Listed(known, q \o f, v)
        /\ Dropping(f, v) /\ ~Adding(f, v) => ~Listed(known, q \o f, v)
        /\ ~Adding(f, v) /\ ~Dropping(f, v) => (Listed(known, q \o f, v) <=> Listed(known, q, v))
    BY <1>2, <1>6, ListedAppend
  <1>10. HearsOf(u, v) \/ Tells(t, "NEW_MAPPER", v)' => HearsOf(u, v)'
    <2> DEFINE r == q \o f
    <2>1. In(r) = In(q) \cup In(f)
      BY <1>2, <1>6, ConcatOnce
    <2>2. HearsOf(u, v) <=> \E x \in In(q) : x.type = "NEW_MAPPER" /\ x.about = v
      BY <1>1 DEF HearsOf, In
    <2>3. HearsOf(u, v)' <=> \E x \in In(r) : x.type = "NEW_MAPPER" /\ x.about = v
      BY <1>1, <1>3 DEF HearsOf, In
    <2>4. Tells(t, "NEW_MAPPER", v)' <=> \E x \in In(f) : x.type = "NEW_MAPPER" /\ x.about = v
      BY <1>6 DEF In
    <2> HIDE DEF r
    <2> QED
      BY <2>1, <2>2, <2>3, <2>4
  <1> HIDE DEF known, q
  <1> QED
    BY <1>1, <1>7, <1>8, <1>9, <1>10

-----------------------------------------------------------------------------
\* Rooms.

Peaceful == incidents = {}

\* The rooms of a map hold the connections on it, by user and all together.
RoomInv ==
    \A m \in Map, t \in Socket :
        /\ t \in mapRoom[m] <=> t \in connected /\ mapid[t] = m
        /\ \A u \in User :
              t \in userMapRoom[u][m] <=> t \in connected /\ mapid[t] = m /\ Owner[t] = u

\* A peaceful past is calm.
LEMMA PeaceIsCalm == Peaceful => Calm /\ Called /\ Undoubled
  BY DEF Peaceful, Calm, Called, Undoubled

\* What changes the record a page keeps of the others.
Reports ==
    {"NEW_MAPPER", "LOST_MAPPER", "MAPPER_LIST_UPDATED", "MAPPER_JOINED_CALL", "MAPPER_LEFT_CALL"}

\* Whom the server tells of the user whose message it takes.
LEMMA WhoHears ==
    ASSUME OrderInvariant, Lists, RoomInv, NEW s \in Socket, Handle(s), NEW t \in Socket, NEW v
    PROVE  /\ Tells(t, "NEW_MAPPER", v)' <=>
                 /\ Joins(Head(toServer[s])) /\ v = Owner[s]
                 /\ t # s /\ t \in connected /\ mapid[t] = Head(toServer[s]).map
           /\ Tells(t, "LOST_MAPPER", v)' <=>
                 /\ Leaves(Head(toServer[s])) /\ mapid[s] # NoMap /\ v = Owner[s]
                 /\ t # s /\ t \in connected /\ mapid[t] = mapid[s]
           /\ Tells(t, "MAPPER_LIST_UPDATED", v)' <=>
                 /\ Head(toServer[s]).type = "SEND_MAPPER_INFO" /\ v = Owner[s]
                 /\ t # s /\ t \in connected /\ mapid[t] = Head(toServer[s]).map
                 /\ Owner[t] = Head(toServer[s]).peer
           /\ Tells(t, "MAPPER_JOINED_CALL", v)' <=>
                 /\ Head(toServer[s]).type = "JOIN_CALL" /\ v = Owner[s]
                 /\ t # s /\ t \in connected /\ mapid[t] = Head(toServer[s]).map
           /\ Tells(t, "MAPPER_LEFT_CALL", v)' <=>
                 /\ Head(toServer[s]).type = "LEAVE_CALL" /\ v = Owner[s]
                 /\ t # s /\ t \in connected /\ mapid[t] = Head(toServer[s]).map
  <1> DEFINE e == Head(toServer[s])
  <1>0. Types
    BY DEF OrderInvariant
  <1>1. e \in Message /\ toServer[s] # <<>>
    BY <1>0, HandleIs
  <1>2. \/ e.type = "JOIN_MAP" /\ Server!JoinMap(s, e.map)
        \/ e.type = "LEAVE_MAP" /\ Server!LeaveMap(s)
        \/ e.type = "JOIN_CALL" /\ Server!JoinCall(s, e.map)
        \/ e.type = "LEAVE_CALL" /\ Server!LeaveCall(s, e.map)
        \/ e.type = "SEND_MAPPER_INFO" /\ Server!SendMapperInfo(s, e.map, e.peer)
        \/ e.type = "INVITE_A_CALL" /\ Server!InviteACall(s, e.map, e.peer)
        \/ e.type = "INVITE_TO_JOIN" /\ Server!InviteToJoin(s, e.map, e.peer)
        \/ e.type = "ACCEPT_CALL" /\ Server!AcceptCall(s, e.map, e.peer)
    BY DEF Handle
  <1> HIDE DEF e
  <1>3. /\ e.type # "LEAVE_MAP" => e.map \in Map
        /\ e.type \in Passed => e.peer \in User
    BY <1>1 DEF Message
  <1>4. ASSUME NEW a, NEW b, emitted' = <<a, b>>
        PROVE  \A type : Tells(t, type, v)' <=>
                  \/ a.type = type /\ a.about = v /\ t \in a.to
                  \/ b.type = type /\ b.about = v /\ t \in b.to
    <2>1. Len(<<a, b>>) = 2 /\ <<a, b>>[1] = a /\ <<a, b>>[2] = b
      OBVIOUS
    <2>2. \A i : i \in 1..2 <=> i = 1 \/ i = 2
      OBVIOUS
    <2> QED
      BY <1>4, <2>1, <2>2 DEF Tells
  <1>5. ASSUME NEW a, emitted' = <<a>>
        PROVE  \A type : Tells(t, type, v)' <=> a.type = type /\ a.about = v /\ t \in a.to
    <2>1. Len(<<a>>) = 1 /\ <<a>>[1] = a
      OBVIOUS
    <2>2. \A i : i \in 1..1 <=> i = 1
      OBVIOUS
    <2> QED
      BY <1>5, <2>1, <2>2 DEF Tells
  <1>6. CASE e.type = "JOIN_MAP"
    <2>1. emitted' = <<Server!JuntoUpdated(connected),
                       Server!Emit(mapRoom[e.map] \ {s}, "NEW_MAPPER", Owner[s])>>
      BY <1>2, <1>6 DEF Server!JoinMap
    <2>2. \A type : Tells(t, type, v)' <=>
             \/ Server!JuntoUpdated(connected).type = type
                /\ Server!JuntoUpdated(connected).about = v
                /\ t \in Server!JuntoUpdated(connected).to
             \/ Server!Emit(mapRoom[e.map] \ {s}, "NEW_MAPPER", Owner[s]).type = type
                /\ Server!Emit(mapRoom[e.map] \ {s}, "NEW_MAPPER", Owner[s]).about = v
                /\ t \in Server!Emit(mapRoom[e.map] \ {s}, "NEW_MAPPER", Owner[s]).to
      BY <1>4, <2>1
    <2>3. \A type \in Reports :
             Tells(t, type, v)' <=>
                type = "NEW_MAPPER" /\ Owner[s] = v /\ t \in mapRoom[e.map] \ {s}
      BY <2>2 DEF Reports, Server!JuntoUpdated, Server!Emit
    <2> QED
      BY <1>3, <1>6, <2>3 DEF Reports, RoomInv, Joins, Leaves, e
  <1>7. CASE e.type = "LEAVE_MAP"
    <2>1. emitted' = <<Server!JuntoUpdated(connected), Server!LostMapper(s, userid[s], mapid[s])>>
      BY <1>2, <1>7 DEF Server!LeaveMap
    <2>2. \A type : Tells(t, type, v)' <=>
             \/ Server!JuntoUpdated(connected).type = type
                /\ Server!JuntoUpdated(connected).about = v
                /\ t \in Server!JuntoUpdated(connected).to
             \/ Server!LostMapper(s, userid[s], mapid[s]).type = type
                /\ Server!LostMapper(s, userid[s], mapid[s]).about = v
                /\ t \in Server!LostMapper(s, userid[s], mapid[s]).to
      BY <1>4, <2>1
    <2>3. \A type \in Reports :
             Tells(t, type, v)' <=>
                type = "LOST_MAPPER" /\ userid[s] = v /\ t \in Server!MapRoom(mapid[s]) \ {s}
      BY <2>2 DEF Reports, Server!JuntoUpdated, Server!LostMapper, Server!Emit
    <2>4. /\ s \in connected /\ mapid[s] \in Map \cup {NoMap}
          /\ mapid[s] # NoMap => userid[s] = Owner[s]
      BY <1>0, <1>2, <1>7 DEF Server!LeaveMap, Types, P!TypeOK, P!MapKey, Lists
    <2>5. t \in Server!MapRoom(mapid[s]) <=> mapid[s] # NoMap /\ t \in connected /\ mapid[t] = mapid[s]
      BY <2>4, KeyAssumption DEF Server!MapRoom, RoomInv
    <2> QED
      BY <1>7, <2>3, <2>4, <2>5 DEF Reports, Joins, Leaves, e
  <1>8. CASE e.type = "SEND_MAPPER_INFO"
    <2>1. emitted' = <<Server!Emit(userMapRoom[e.peer][e.map] \ {s}, "MAPPER_LIST_UPDATED", Owner[s])>>
      BY <1>2, <1>8 DEF Server!SendMapperInfo, Server!Relay
    <2>2. \A type : Tells(t, type, v)' <=>
             /\ Server!Emit(userMapRoom[e.peer][e.map] \ {s}, "MAPPER_LIST_UPDATED", Owner[s]).type = type
             /\ Server!Emit(userMapRoom[e.peer][e.map] \ {s}, "MAPPER_LIST_UPDATED", Owner[s]).about = v
             /\ t \in Server!Emit(userMapRoom[e.peer][e.map] \ {s}, "MAPPER_LIST_UPDATED", Owner[s]).to
      BY <1>5, <2>1
    <2>3. \A type \in Reports :
             Tells(t, type, v)' <=> /\ type = "MAPPER_LIST_UPDATED" /\ Owner[s] = v
                                    /\ t \in userMapRoom[e.peer][e.map] \ {s}
      BY <2>2 DEF Reports, Server!Emit
    <2> QED
      BY <1>3, <1>8, <2>3 DEF Reports, RoomInv, Joins, Leaves, Passed, e
  <1>9. CASE e.type = "JOIN_CALL"
    <2>1. emitted' = <<Server!JuntoUpdated(connected),
                       Server!Emit(mapRoom[e.map] \ {s}, "MAPPER_JOINED_CALL", Owner[s])>>
      BY <1>2, <1>9 DEF Server!JoinCall
    <2>2. \A type : Tells(t, type, v)' <=>
             \/ Server!JuntoUpdated(connected).type = type
                /\ Server!JuntoUpdated(connected).about = v
                /\ t \in Server!JuntoUpdated(connected).to
             \/ Server!Emit(mapRoom[e.map] \ {s}, "MAPPER_JOINED_CALL", Owner[s]).type = type
                /\ Server!Emit(mapRoom[e.map] \ {s}, "MAPPER_JOINED_CALL", Owner[s]).about = v
                /\ t \in Server!Emit(mapRoom[e.map] \ {s}, "MAPPER_JOINED_CALL", Owner[s]).to
      BY <1>4, <2>1
    <2>3. \A type \in Reports :
             Tells(t, type, v)' <=>
                type = "MAPPER_JOINED_CALL" /\ Owner[s] = v /\ t \in mapRoom[e.map] \ {s}
      BY <2>2 DEF Reports, Server!JuntoUpdated, Server!Emit
    <2> QED
      BY <1>3, <1>9, <2>3 DEF Reports, RoomInv, Joins, Leaves, e
  <1>10. CASE e.type = "LEAVE_CALL"
    <2>1. emitted' = <<Server!JuntoUpdated(connected),
                       Server!Emit(mapRoom[e.map] \ {s}, "MAPPER_LEFT_CALL", Owner[s])>>
      BY <1>2, <1>10 DEF Server!LeaveCall
    <2>2. \A type : Tells(t, type, v)' <=>
             \/ Server!JuntoUpdated(connected).type = type
                /\ Server!JuntoUpdated(connected).about = v
                /\ t \in Server!JuntoUpdated(connected).to
             \/ Server!Emit(mapRoom[e.map] \ {s}, "MAPPER_LEFT_CALL", Owner[s]).type = type
                /\ Server!Emit(mapRoom[e.map] \ {s}, "MAPPER_LEFT_CALL", Owner[s]).about = v
                /\ t \in Server!Emit(mapRoom[e.map] \ {s}, "MAPPER_LEFT_CALL", Owner[s]).to
      BY <1>4, <2>1
    <2>3. \A type \in Reports :
             Tells(t, type, v)' <=>
                type = "MAPPER_LEFT_CALL" /\ Owner[s] = v /\ t \in mapRoom[e.map] \ {s}
      BY <2>2 DEF Reports, Server!JuntoUpdated, Server!Emit
    <2> QED
      BY <1>3, <1>10, <2>3 DEF Reports, RoomInv, Joins, Leaves, e
  <1>11. CASE e.type \notin {"JOIN_MAP", "LEAVE_MAP", "SEND_MAPPER_INFO", "JOIN_CALL", "LEAVE_CALL"}
    <2>1. \A type \in Reports : ~Tells(t, type, v)'
      <3>1. \A i \in 1..Len(emitted') : emitted'[i].type \notin Reports
        BY <1>2, <1>11 DEF Reports, Server!InviteACall, Server!InviteToJoin, Server!AcceptCall,
              Server!Relay, Server!Emit
      <3> QED
        BY <3>1 DEF Tells
    <2> QED
      BY <1>11, <2>1 DEF Reports, Joins, Leaves, e
  <1> QED
    BY <1>6, <1>7, <1>8, <1>9, <1>10, <1>11

\* ... and when it finds a connection gone.
LEMMA WhoHearsOfLoss ==
    ASSUME OrderInvariant, Lists, RoomInv, NEW s \in Socket, Disconnect(s),
           NEW t \in Socket, NEW v
    PROVE  /\ ~Tells(t, "NEW_MAPPER", v)' /\ ~Tells(t, "MAPPER_LIST_UPDATED", v)'
           /\ ~Tells(t, "MAPPER_JOINED_CALL", v)' /\ ~Tells(t, "MAPPER_LEFT_CALL", v)'
           /\ mapid[s] # NoMap =>
                 (Tells(t, "LOST_MAPPER", v)' <=> /\ v = Owner[s] /\ t # s
                                                  /\ t \in connected /\ mapid[t] = mapid[s])
           /\ mapid[s] = NoMap => ~Tells(t, "LOST_MAPPER", v)'
  <1>0. Types
    BY DEF OrderInvariant
  <1> DEFINE a == Server!JuntoUpdated(connected')
             b == Server!Emit(Server!VideoRoom(videoRoom[s]) \ {s}, "remove", s)
             c == Server!LostMapper(s, userid[s], mapid[s])
             mid == IF videoRoom[s] = NoMap THEN <<>> ELSE <<b>>
  <1>1. emitted' = <<a>> \o mid \o <<c>> /\ s \in connected
    BY DEF Disconnect, Server!Disconnect
  <1>2. /\ a.type = "JUNTO_UPDATED" /\ b.type = "remove"
        /\ c.type = "LOST_MAPPER" /\ c.about = userid[s] /\ c.to = Server!MapRoom(mapid[s]) \ {s}
    BY DEF Server!JuntoUpdated, Server!Emit, Server!LostMapper
  <1> HIDE DEF a, b, c
  <1>3. \A x : (\E i \in 1..Len(emitted') : emitted'[i] = x) <=>
                  x = a \/ x = c \/ (x = b /\ videoRoom[s] # NoMap)
    <2> DEFINE S == {a, b, c}
               first == <<a>>
               last == <<c>>
    <2>1. first \in Seq(S) /\ last \in Seq(S) /\ mid \in Seq(S)
      <3>1. <<>> \in Seq(S) /\ <<a>> \in Seq(S) /\ <<b>> \in Seq(S) /\ <<c>> \in Seq(S)
        OBVIOUS
      <3> QED
        BY <3>1, Zenon
    <2>2. In(first) = {a} /\ In(last) = {c} /\ In(mid) = IF videoRoom[s] = NoMap THEN {} ELSE {b}
      BY InShort
    <2> HIDE DEF S, first, last, mid
    <2>3. first \o mid \in Seq(S) /\ In(first \o mid) = In(first) \cup In(mid)
      BY <2>1, ConcatOnce
    <2>4. In((first \o mid) \o last) = In(first \o mid) \cup In(last)
      <3> DEFINE both == first \o mid
      <3>1. both \in Seq(S)
        BY <2>3
      <3> HIDE DEF both
      <3>2. In(both \o last) = In(both) \cup In(last)
        BY <2>1, <3>1, ConcatOnce
      <3> QED
        BY <3>2 DEF both
    <2>5. emitted' = (first \o mid) \o last
      BY <1>1, Zenon DEF first, last
    <2>6. \A x : x \in In(emitted') <=> \E i \in 1..Len(emitted') : emitted'[i] = x
      BY DEF In
    <2> QED
      BY <2>2, <2>3, <2>4, <2>5, <2>6
  <1>4. \A type \in Reports :
           Tells(t, type, v)' <=> type = "LOST_MAPPER" /\ v = userid[s] /\ t \in Server!MapRoom(mapid[s]) \ {s}
    <2>1. \A type : Tells(t, type, v)' <=> \E x : /\ \E i \in 1..Len(emitted') : emitted'[i] = x
                                                  /\ x.type = type /\ x.about = v /\ t \in x.to
      BY DEF Tells
    <2>2. ASSUME NEW type \in Reports
          PROVE  Tells(t, type, v)' <=> c.type = type /\ c.about = v /\ t \in c.to
      <3>1. a.type # type /\ b.type # type
        BY <1>2 DEF Reports
      <3>2. ASSUME Tells(t, type, v)' PROVE c.type = type /\ c.about = v /\ t \in c.to
        <4>1. PICK x : /\ \E i \in 1..Len(emitted') : emitted'[i] = x
                       /\ x.type = type /\ x.about = v /\ t \in x.to
          BY <2>1, <3>2
        <4>2. x = c
          BY <1>3, <3>1, <4>1
        <4> QED
          BY <4>1, <4>2
      <3>3. ASSUME c.type = type, c.about = v, t \in c.to PROVE Tells(t, type, v)'
        <4>1. \E i \in 1..Len(emitted') : emitted'[i] = c
          BY <1>3
        <4> QED
          BY <2>1, <3>3, <4>1
      <3> QED
        BY <3>2, <3>3
    <2> QED
      BY <1>2, <2>2
  <1>5. /\ mapid[s] \in Map \cup {NoMap}
        /\ mapid[s] # NoMap => userid[s] = Owner[s]
    BY <1>0, <1>1 DEF Types, P!TypeOK, P!MapKey, Lists
  <1>6. t \in Server!MapRoom(mapid[s]) <=> mapid[s] # NoMap /\ t \in connected /\ mapid[t] = mapid[s]
    BY <1>5, KeyAssumption DEF Server!MapRoom, RoomInv
  <1> QED
    BY <1>4, <1>5, <1>6 DEF Reports

\* Only the connection of a page carries anything to it.
HeardInv == \A s \in Socket : toClient[s] # <<>> => link[Owner[s]] = s

\* A page without a chat waits for the map it shows.
ChatInv ==
    \A u \in User : activeMap[u] # NoMap => chat[u] \/ loading[u][activeMap[u]] > 0

\* A page that is on its map has left it in no message on its way.
StayInv == \A u \in User : OnMap(u) => \A k \in 1..Len(Out(u)) : ~Leaves(Out(u)[k])

\* Newcomers are told of a page only on the map the page is on by then.
Informed(S, q) ==
    \A j \in 1..Len(q) : q[j].type = "SEND_MAPPER_INFO" => q[j].map \in At(S, q, j)

InfoInv ==
    /\ \A s \in Socket : Informed(Now(s), toServer[s])
    /\ \A u \in User : \A k \in 1..Len(sendBuffer[u]) : sendBuffer[u][k].type # "SEND_MAPPER_INFO"

Background ==
    /\ HeardInv
    /\ ChatInv
    /\ Calm => RoomInv
    /\ Peaceful => StayInv /\ InfoInv

\* A step in which the server rests but may take a new connection.
LEMMA RoomsRest ==
    ASSUME Types, NetInv, RoomInv, mapid' = mapid, mapRoom' = mapRoom, userMapRoom' = userMapRoom,
           connected \subseteq connected', \A s \in connected' : s \in connected \/ mapid[s] = NoMap
    PROVE  RoomInv'
  BY KeyAssumption DEF RoomInv

\* JOIN_MAP, from no other map.
LEMMA RoomsJoin ==
    ASSUME Types, RoomInv, NEW s \in Socket, NEW m \in Map, P!JoinMap(s, m),
           mapid[s] \in {NoMap, m}
    PROVE  RoomInv'
  <1>1. /\ s \in connected /\ connected' = connected
        /\ mapid' = [mapid EXCEPT ![s] = m]
        /\ mapRoom' = [mapRoom EXCEPT ![m] = @ \cup {s}]
        /\ userMapRoom' = [userMapRoom EXCEPT ![Owner[s]][m] = @ \cup {s}]
    BY DEF P!JoinMap
  <1>2. /\ mapid \in [Socket -> Map \cup {NoMap}]
        /\ mapRoom \in [Map -> SUBSET Socket]
        /\ userMapRoom \in [User -> [Map -> SUBSET Socket]]
        /\ Owner[s] \in User
    BY PageAssumption DEF Types, P!TypeOK, P!MapKey
  <1>3. /\ mapid'[s] = m /\ \A t \in Socket : t # s => mapid'[t] = mapid[t]
        /\ \A k \in Map : \A t : t \in mapRoom'[k] <=> t \in mapRoom[k] \/ (k = m /\ t = s)
        /\ \A u \in User, k \in Map : \A t :
              t \in userMapRoom'[u][k] <=>
                 t \in userMapRoom[u][k] \/ (u = Owner[s] /\ k = m /\ t = s)
    <2>1. \A k \in Map : mapRoom'[k] = IF k = m THEN mapRoom[k] \cup {s} ELSE mapRoom[k]
      BY <1>1, <1>2
    <2>2. \A u \in User, k \in Map :
             userMapRoom'[u][k] = IF u = Owner[s] /\ k = m THEN userMapRoom[u][k] \cup {s}
                                  ELSE userMapRoom[u][k]
      BY <1>1, <1>2
    <2> QED
      BY <1>1, <1>2, <2>1, <2>2
  <1> SUFFICES ASSUME NEW k \in Map, NEW t \in Socket
               PROVE  /\ t \in mapRoom'[k] <=> t \in connected' /\ mapid'[t] = k
                      /\ \A u \in User : t \in userMapRoom'[u][k]
                                            <=> t \in connected' /\ mapid'[t] = k /\ Owner[t] = u
    BY DEF RoomInv
  <1>4. /\ t \in mapRoom[k] <=> t \in connected /\ mapid[t] = k
        /\ \A u \in User : t \in userMapRoom[u][k] <=> t \in connected /\ mapid[t] = k /\ Owner[t] = u
    BY DEF RoomInv
  <1>5. CASE t = s
    BY <1>1, <1>2, <1>3, <1>4, <1>5, KeyAssumption
  <1>6. CASE t # s
    BY <1>1, <1>3, <1>4, <1>6
  <1> QED
    BY <1>5, <1>6

\* LEAVE_MAP.
LEMMA RoomsLeave ==
    ASSUME Types, Lists, RoomInv, NEW s \in Socket, P!LeaveMap(s)
    PROVE  RoomInv'
  <1>1. /\ s \in connected /\ connected' = connected
        /\ mapid' = [mapid EXCEPT ![s] = NoMap]
        /\ mapRoom' = [k \in Map |-> IF k = mapid[s] THEN mapRoom[k] \ {s} ELSE mapRoom[k]]
        /\ userMapRoom' = [v \in User |-> [k \in Map |->
              IF v = userid[s] /\ k = mapid[s] THEN userMapRoom[v][k] \ {s} ELSE userMapRoom[v][k]]]
    BY DEF P!LeaveMap, P!LeaveMapRoom, P!LeaveUserMapRoom
  <1>2. mapid \in [Socket -> Map \cup {NoMap}]
    BY DEF Types, P!TypeOK, P!MapKey
  <1>3. mapid[s] # NoMap => userid[s] = Owner[s]
    BY <1>1 DEF Lists
  <1>4. mapid'[s] = NoMap /\ \A t \in Socket : t # s => mapid'[t] = mapid[t]
    BY <1>1, <1>2
  <1> SUFFICES ASSUME NEW k \in Map, NEW t \in Socket
               PROVE  /\ t \in mapRoom'[k] <=> t \in connected' /\ mapid'[t] = k
                      /\ \A u \in User : t \in userMapRoom'[u][k]
                                            <=> t \in connected' /\ mapid'[t] = k /\ Owner[t] = u
    BY DEF RoomInv
  <1>5. /\ t \in mapRoom[k] <=> t \in connected /\ mapid[t] = k
        /\ \A u \in User : t \in userMapRoom[u][k] <=> t \in connected /\ mapid[t] = k /\ Owner[t] = u
    BY DEF RoomInv
  <1>6. /\ t \in mapRoom'[k] <=> t \in mapRoom[k] /\ ~(k = mapid[s] /\ t = s)
        /\ \A u \in User : t \in userMapRoom'[u][k] <=>
              t \in userMapRoom[u][k] /\ ~(u = userid[s] /\ k = mapid[s] /\ t = s)
    BY <1>1
  <1>7. k # NoMap
    BY KeyAssumption
  <1>8. CASE t = s
    BY <1>1, <1>3, <1>4, <1>5, <1>6, <1>7, <1>8
  <1>9. CASE t # s
    BY <1>1, <1>4, <1>5, <1>6, <1>9
  <1> QED
    BY <1>8, <1>9

\* A connection that is gone is in no room.
LEMMA RoomsDisconnect ==
    ASSUME Types, RoomInv, NEW s \in Socket, P!Disconnect(s)
    PROVE  RoomInv'
  <1>1. /\ connected' = connected \ {s}
        /\ mapid' = [mapid EXCEPT ![s] = NoMap]
        /\ mapRoom' = [k \in Map |-> mapRoom[k] \ {s}]
        /\ userMapRoom' = [v \in User |-> [k \in Map |-> userMapRoom[v][k] \ {s}]]
    BY DEF P!Disconnect
  <1>2. mapid \in [Socket -> Map \cup {NoMap}]
    BY DEF Types, P!TypeOK, P!MapKey
  <1>3. \A t \in Socket : t # s => mapid'[t] = mapid[t]
    BY <1>1, <1>2
  <1>4. \A k \in Map : mapRoom'[k] = mapRoom[k] \ {s}
    BY <1>1
  <1>5. \A u \in User, k \in Map : userMapRoom'[u][k] = userMapRoom[u][k] \ {s}
    BY <1>1
  <1> QED
    BY <1>1, <1>3, <1>4, <1>5 DEF RoomInv

\* Where the connection is that takes a message: on the map it names if it joined one.
LEMMA HandleMaps ==
    ASSUME OrderInvariant, OrderInvariant', Calm', NEW s \in Socket, Handle(s)
    PROVE  /\ \A t \in Socket : t # s => mapid'[t] = mapid[t]
           /\ mapid'[s] = IF Leaves(Head(toServer[s])) THEN NoMap
                          ELSE IF Joins(Head(toServer[s])) THEN Head(toServer[s]).map ELSE mapid[s]
           /\ Joins(Head(toServer[s])) => mapid[s] \in {NoMap, Head(toServer[s]).map}
           /\ Joins(Head(toServer[s])) => Head(toServer[s]).map \in Map
           /\ Now(s)' = After(Now(s), Head(toServer[s]))
           /\ s \in connected /\ connected' = connected
  <1> DEFINE e == Head(toServer[s])
  <1>1. e \in Message /\ ServerTakes(s, e) /\ connected' = connected
    BY HandleIs DEF OrderInvariant
  <1> HIDE DEF e
  <1>2. /\ \A t \in Socket : t # s => mapid'[t] = mapid[t]
        /\ mapid'[s] = IF Leaves(e) THEN NoMap ELSE IF Joins(e) THEN e.map ELSE mapid[s]
        /\ strays' = strays
              \cup (IF Joins(e) /\ mapid[s] \notin {NoMap, e.map} THEN {"join"} ELSE {})
              \cup (IF e.type = "JOIN_CALL" /\ mapid[s] # e.map THEN {"call"} ELSE {})
        /\ s \in connected
    BY <1>1, TakesIs DEF OrderInvariant
  <1>3. "join" \notin strays'
    BY DEF OrderInvariant, OrderInv
  <1>4. Joins(e) => mapid[s] \in {NoMap, e.map}
    BY <1>2, <1>3
  <1>5. Joins(e) => e.map \in Map /\ ~Leaves(e)
    BY <1>1 DEF Message, Joins, Leaves
  <1>6. Now(s)' = After(Now(s), e)
    <2>1. CASE Leaves(e)
      BY <1>2, <2>1 DEF Now, After
    <2>2. CASE Joins(e) /\ ~Leaves(e)
      BY <1>2, <1>4, <1>5, <2>2, KeyAssumption DEF Now, After
    <2>3. CASE ~Joins(e) /\ ~Leaves(e)
      BY <1>2, <2>3 DEF Now, After
    <2> QED
      BY <2>1, <2>2, <2>3
  <1> QED
    BY <1>1, <1>2, <1>4, <1>5, <1>6 DEF e

\* Every step keeps the rooms right.
LEMMA RoomStep ==
    ASSUME OrderInvariant, Lists, Calm => RoomInv, OrderInvariant', [Next]_vars, Calm'
    PROVE  RoomInv'
  <1>0. Types /\ NetInv
    BY DEF OrderInvariant
  <1>1. ASSUME UNCHANGED vars \/ NothingFromServer, incidents \subseteq incidents' PROVE RoomInv'
    <2>1. /\ mapid' = mapid /\ mapRoom' = mapRoom /\ userMapRoom' = userMapRoom
          /\ connected' = connected
      BY <1>1 DEF vars, NothingFromServer, serverVars
    <2>2. RoomInv
      BY <1>1, IncidentsStay
    <2> QED
      BY <1>0, <2>1, <2>2, RoomsRest
  <1>2. ASSUME NEW u \in User, Connect(u) PROVE RoomInv'
    <2>1. PICK s \in Socket \ connected : Server!Connect(s)
      BY <1>2 DEF Connect
    <2>2. /\ mapid' = mapid /\ mapRoom' = mapRoom /\ userMapRoom' = userMapRoom
          /\ connected' = connected \cup {s}
      BY <2>1 DEF Server!Connect
    <2>3. mapid[s] = NoMap
      BY <1>0, <2>1 DEF NetInv
    <2>4. RoomInv
      <3>1. incidents \subseteq incidents'
        BY <1>2 DEF Connect
      <3> QED
        BY <3>1, IncidentsStay
    <2> QED
      BY <1>0, <2>2, <2>3, <2>4, RoomsRest
  <1>3. ASSUME NEW u \in User,
               \/ Lose(u)
               \/ \E m \in Map \cup {NoMap} : Navigate(u, m)
               \/ \E m \in Map : Loaded(u, m)
               \/ Stays(u)
        PROVE  RoomInv'
    BY <1>1, <1>3 DEF Lose, Navigate, Loaded, Stays
  <1>4. ASSUME NEW s \in Socket, Disconnect(s) PROVE RoomInv'
    <2>1. P!Disconnect(s) /\ incidents' = incidents
      BY <1>4, SameDisconnect DEF Disconnect
    <2>2. RoomInv
      BY <2>1 DEF Calm
    <2> QED
      BY <1>0, <2>1, <2>2, RoomsDisconnect
  <1>5. ASSUME NEW s \in Socket, Handle(s) PROVE RoomInv'
    <2> DEFINE e == Head(toServer[s])
    <2>1. e \in Message /\ ServerTakes(s, e)
      BY <1>0, <1>5, HandleIs
    <2>2. RoomInv
      <3>1. incidents \subseteq incidents'
        BY <1>5 DEF Handle
      <3> QED
        BY <3>1, IncidentsStay
    <2>3. Joins(e) => mapid[s] \in {NoMap, e.map} /\ e.map \in Map
      BY <1>5, HandleMaps
    <2> HIDE DEF e
    <2>4. CASE e.type = "JOIN_MAP"
      <3>1. P!JoinMap(s, e.map)
        BY <2>1, <2>4 DEF ServerTakes, Passed
      <3> QED
        BY <1>0, <2>2, <2>3, <2>4, <3>1, RoomsJoin DEF Joins
    <2>5. CASE e.type = "LEAVE_MAP"
      <3>1. P!LeaveMap(s)
        BY <2>1, <2>5 DEF ServerTakes, Passed
      <3> QED
        BY <1>0, <2>2, <3>1, RoomsLeave
    <2>6. CASE e.type \notin {"JOIN_MAP", "LEAVE_MAP"}
      <3>1. /\ mapid' = mapid /\ mapRoom' = mapRoom /\ userMapRoom' = userMapRoom
            /\ connected' = connected
        BY <2>1, <2>6 DEF ServerTakes, P!JoinCall, P!LeaveCall, P!SendMapperInfo, P!InviteACall,
              P!InviteToJoin, P!AcceptCall, P!Relay, P!serverVars
      <3> QED
        BY <1>0, <2>2, <3>1, RoomsRest
    <2> QED
      BY <2>4, <2>5, <2>6
  <1>6. CASE UNCHANGED vars
    BY <1>1, <1>6 DEF vars
  <1>7. CASE Next
    BY <1>0, <1>2, <1>3, <1>4, <1>5, <1>7, NextIs, StayingStays
  <1> QED
    BY <1>6, <1>7

\* The events of a page other than the messages of the server touch neither its
\* participants nor what is on its way to it.
LEMMA StayingIs ==
    ASSUME NEW u \in User, StayingEvent(u)
    PROVE  Receive(u) \/ UNCHANGED <<chat, participants, toClient, losses>>
  BY DEF StayingEvent, Invite, JoinButton, LeaveButton, AnswerYes, AnswerNo, Dismiss, CameraReady,
         Click, peopleVars, netVars

\* A message of the server taken by a page.
LEMMA ReceiveIs ==
    ASSUME Types, NEW u \in User, Receive(u)
    PROVE  /\ link[u] \in Socket /\ toClient[link[u]] \in Seq(Notice) /\ toClient[link[u]] # <<>>
           /\ Head(toClient[link[u]]) \in Notice
           /\ toClient' = [toClient EXCEPT ![link[u]] = Tail(@)]
           /\ toClient'[link[u]] = Tail(toClient[link[u]])
           /\ \A s \in Socket : s # link[u] => toClient'[s] = toClient[s]
           /\ chat' = chat /\ losses' = losses /\ link' = link
           /\ \A v \in User : v # u => participants'[v] = participants[v]
  <1>1. /\ link[u] \in Socket /\ toClient \in [Socket -> Seq(Notice)]
        /\ toClient[link[u]] \in Seq(Notice)
        /\ participants \in [User -> SUBSET User]
    BY DEF Receive, Types, NetTypes, PeopleTypes
  <1>2. /\ toClient[link[u]] # <<>>
        /\ toClient' = [toClient EXCEPT ![link[u]] = Tail(@)]
        /\ chat' = chat /\ losses' = losses /\ link' = link
    BY DEF Receive
  <1>3. Head(toClient[link[u]]) \in Notice
    BY <1>1, <1>2, HeadTailProperties
  <1>4. \A v \in User : v # u => participants'[v] = participants[v]
    BY <1>1 DEF Receive, NewMapper, LostMapper, MapperListUpdated, AddParticipant,
                MapperJoinedCall, MapperLeftCall, Invited, CallAccepted, CallStarted, Ignored
  <1> QED
    BY <1>1, <1>2, <1>3, <1>4

\* The connection of a page is its own.
LEMMA LinksAreOwn ==
    ASSUME Types
    PROVE  /\ \A u \in User : link[u] # NoSocket => /\ link[u] \in Socket /\ Owner[link[u]] = u
                                                    /\ link[u] \in connected
           /\ \A u, v \in User : link[u] # NoSocket /\ u # v => link[u] # link[v]
  BY DEF Types, NetTypes

\* Writing to the live connections only.
LEMMA DeliverHeard ==
    ASSUME HeardInv, NEW talking, Deliver(talking), link' = link
    PROVE  HeardInv'
  BY DEF HeardInv, Deliver

\* Every step keeps the dead connections empty.
LEMMA HeardStep ==
    ASSUME Types, HeardInv, [Next]_vars
    PROVE  HeardInv'
  <1>0. \A s \in Socket : Owner[s] \in User /\ s # NoSocket
    BY PageAssumption, NoSocketAssumption
  <1>1. ASSUME link' = link, toClient' = toClient PROVE HeardInv'
    BY <1>1 DEF HeardInv
  <1>2. ASSUME NEW u \in User, Connect(u) PROVE HeardInv'
    <2>1. PICK s \in Socket : Owner[s] = u /\ link' = [link EXCEPT ![u] = s]
      BY <1>2 DEF Connect
    <2>2. link[u] = NoSocket /\ toClient' = toClient
      BY <1>2 DEF Connect
    <2>3. \A v \in User : v # u => link'[v] = link[v]
      BY <2>1 DEF Types, NetTypes
    <2> QED
      BY <1>0, <2>1, <2>2, <2>3 DEF HeardInv
  <1>3. ASSUME NEW u \in User, Lose(u) PROVE HeardInv'
    <2> DEFINE s == link[u]
    <2>1. /\ s # NoSocket /\ link' = [link EXCEPT ![u] = NoSocket]
          /\ toClient' = [toClient EXCEPT ![s] = <<>>]
      BY <1>3 DEF Lose
    <2>2. s \in Socket /\ Owner[s] = u
      BY <2>1, LinksAreOwn
    <2>3. \A v \in User : v # u => link'[v] = link[v]
      BY <2>1 DEF Types, NetTypes
    <2>4. toClient'[s] = <<>> /\ \A t \in Socket : t # s => toClient'[t] = toClient[t]
      BY <2>1, <2>2 DEF Types, NetTypes
    <2> QED
      BY <1>0, <2>2, <2>3, <2>4 DEF HeardInv
  <1>4. ASSUME NEW u \in User,
               (\E m \in Map \cup {NoMap} : Navigate(u, m)) \/ (\E m \in Map : Loaded(u, m))
        PROVE  HeardInv'
    BY <1>1, <1>4 DEF Navigate, Loaded
  <1>5. ASSUME NEW u \in User, StayingEvent(u) PROVE HeardInv'
    <2>1. link' = link
      BY <1>5, StayingStays DEF Stays
    <2>2. CASE Receive(u)
      <3>1. PICK s \in Socket : s = link[u]
        BY <2>2, ReceiveIs
      <3>2. toClient[s] # <<>> /\ \A t \in Socket : t # s => toClient'[t] = toClient[t]
        BY <2>2, <3>1, ReceiveIs
      <3> QED
        BY <2>1, <3>2 DEF HeardInv
    <2>3. CASE UNCHANGED <<chat, participants, toClient, losses>>
      BY <1>1, <2>1, <2>3
    <2> QED
      BY <1>5, <2>2, <2>3, StayingIs
  <1>6. ASSUME NEW s \in Socket, Handle(s) \/ Disconnect(s) PROVE HeardInv'
    <2>1. link' = link /\ \E talking : Deliver(talking)
      BY <1>6 DEF Handle, Disconnect
    <2> QED
      BY <2>1, DeliverHeard
  <1>7. CASE UNCHANGED vars
    BY <1>1, <1>7 DEF vars, netVars
  <1> QED
    BY <1>2, <1>3, <1>4, <1>5, <1>6, <1>7, NextIs

\* Every step keeps the chats.
LEMMA ChatStep ==
    ASSUME Types, ChatInv, [Next]_vars
    PROVE  ChatInv'
  <1>0. /\ activeMap \in [User -> Map \cup {NoMap}] /\ chat \in [User -> BOOLEAN]
        /\ loading \in [User -> [Map -> Nat]]
    BY DEF Types, PageTypes, PeopleTypes
  <1>1. ASSUME activeMap' = activeMap, chat' = chat, loading' = loading PROVE ChatInv'
    BY <1>1 DEF ChatInv
  <1>2. ASSUME NEW u \in User, NEW m \in Map \cup {NoMap}, Navigate(u, m) PROVE ChatInv'
    <2>1. /\ activeMap' = [activeMap EXCEPT ![u] = IF m = NoMap THEN NoMap ELSE @]
          /\ loading' = IF m = NoMap THEN loading ELSE [loading EXCEPT ![u][m] = @ + 1]
          /\ chat' = chat
      BY <1>2 DEF Navigate, peopleVars
    <2>2. \A v \in User : activeMap'[v] # NoMap => activeMap'[v] = activeMap[v]
      BY <1>0, <2>1
    <2>3. \A v \in User, k \in Map : loading[v][k] > 0 => loading'[v][k] > 0
      <3>1. CASE m = NoMap
        BY <2>1, <3>1
      <3>2. CASE m # NoMap
        <4>1. m \in Map /\ loading' = [loading EXCEPT ![u][m] = @ + 1]
          BY <2>1, <3>2
        <4>2. \A v \in User, k \in Map : /\ loading[v][k] \in Nat
                                         /\ \/ loading'[v][k] = loading[v][k]
                                            \/ loading'[v][k] = loading[v][k] + 1
          BY <1>0, <4>1
        <4> QED
          BY <4>2
      <3> QED
        BY <3>1, <3>2
    <2> QED
      BY <1>0, <2>1, <2>2, <2>3 DEF ChatInv
  <1>3. ASSUME NEW u \in User, NEW m \in Map, Loaded(u, m) PROVE ChatInv'
    <2>1. /\ activeMap' = [activeMap EXCEPT ![u] = m]
          /\ loading' = [loading EXCEPT ![u][m] = @ - 1]
          /\ chat' = [chat EXCEPT ![u] = TRUE]
      BY <1>3 DEF Loaded
    <2>2. chat'[u] /\ \A v \in User : v # u => /\ activeMap'[v] = activeMap[v]
                                               /\ loading'[v] = loading[v] /\ chat'[v] = chat[v]
      BY <1>0, <2>1
    <2> QED
      BY <2>2 DEF ChatInv
  <1>4. ASSUME NEW u \in User, Connect(u) \/ Lose(u) PROVE ChatInv'
    BY <1>1, <1>4 DEF Connect, Lose, pageVars, peopleVars
  <1>5. ASSUME NEW u \in User, StayingEvent(u) PROVE ChatInv'
    <2>1. activeMap' = activeMap /\ loading' = loading
      BY <1>5, StayingStays DEF Stays, pageVars
    <2>2. chat' = chat
      BY <1>5, StayingIs, ReceiveIs
    <2> QED
      BY <1>1, <2>1, <2>2
  <1>6. ASSUME NEW s \in Socket, Handle(s) \/ Disconnect(s) PROVE ChatInv'
    BY <1>1, <1>6 DEF Handle, Disconnect, pageVars, peopleVars
  <1>7. CASE UNCHANGED vars
    BY <1>1, <1>7 DEF vars, pageVars, peopleVars
  <1> QED
    BY <1>2, <1>3, <1>4, <1>5, <1>6, <1>7, NextIs

-----------------------------------------------------------------------------
\* What else is on its way to the server.

\* Messages of which none leaves a map, one after the other.
LEMMA AppendKept ==
    ASSUME NEW q \in Seq(Message), NEW c \in Seq(Message),
           \A k \in 1..Len(q) : ~Leaves(q[k]), \A k \in 1..Len(c) : ~Leaves(c[k])
    PROVE  \A k \in 1..Len(q \o c) : ~Leaves((q \o c)[k])
  <1>1. In(q \o c) = In(q) \cup In(c)
    BY ConcatOnce
  <1>2. \A x \in In(q \o c) : ~Leaves(x)
    BY <1>1 DEF In
  <1> QED
    BY <1>2 DEF In

\* What is said later is about the place the page will be in by then.
LEMMA AppendInformed ==
    ASSUME NEW S, NEW q \in Seq(Message), NEW c \in Seq(Message), Informed(S, q),
           \A k \in 1..Len(c) :
              c[k].type = "SEND_MAPPER_INFO" => Chatter(c) /\ c[k].map \in InTheEnd(S, q)
    PROVE  Informed(S, q \o c)
  <1> DEFINE r == q \o c
             n == Len(q)
  <1>1. /\ n \in Nat /\ Len(c) \in Nat /\ Len(r) = n + Len(c)
        /\ \A k \in 1..n : r[k] = q[k]
        /\ \A k \in 1..n + Len(c) : k \in 1..n \/ (k - n \in 1..Len(c) /\ r[k] = c[k - n])
    <2>1. /\ n \in Nat /\ Len(c) \in Nat /\ Len(r) = n + Len(c)
          /\ \A k \in 1..n + Len(c) : r[k] = IF k <= n THEN q[k] ELSE c[k - n]
      BY LenProperties, ConcatProperties
    <2> HIDE DEF r, n
    <2> QED
      BY <2>1
  <1>2. Chatter(c) => \A j \in n + 1..n + Len(c) + 1 : At(S, r, j) = InTheEnd(S, q)
    BY AtChatter
  <1> HIDE DEF r, n
  <1> SUFFICES ASSUME NEW j \in 1..Len(r), r[j].type = "SEND_MAPPER_INFO"
               PROVE  r[j].map \in At(S, r, j)
    BY DEF Informed, r
  <1>3. CASE j \in 1..n
    <2>1. At(S, r, j) = At(S, q, j)
      <3>1. j \in Nat /\ \A k \in 1..j - 1 : k \in 1..n
        BY <1>1, <1>3
      <3>2. \A k \in 1..j - 1 : r[k] = q[k]
        BY <1>1, <3>1
      <3> QED
        BY <3>1, <3>2, AtAgrees
    <2> QED
      BY <1>1, <1>3, <2>1 DEF Informed, n
  <1>4. CASE j \notin 1..n
    <2>1. j - n \in 1..Len(c) /\ r[j] = c[j - n] /\ j \in n + 1..n + Len(c) + 1
      BY <1>1, <1>4
    <2> QED
      BY <1>2, <2>1
  <1> QED
    BY <1>3, <1>4

\* A queue whose end is lost, and one whose head is taken.
LEMMA LessInformed ==
    ASSUME NEW S \in SUBSET Map, NEW q \in Seq(Message), Informed(S, q)
    PROVE  /\ \A n \in 0..Len(q) : Informed(S, SubSeq(q, 1, n))
           /\ q # <<>> => Informed(After(S, Head(q)), Tail(q))
  <1>1. ASSUME NEW n \in 0..Len(q) PROVE Informed(S, SubSeq(q, 1, n))
    <2> DEFINE r == SubSeq(q, 1, n)
    <2>0. /\ Len(q) \in Nat /\ n \in Nat /\ n \in Int /\ 1 \in Int
          /\ \A i \in 1..n : i \in 1..Len(q) /\ q[i] \in Message
      BY LenProperties, ElementOfSeq
    <2>1. Len(r) = n /\ \A j \in 1..n : r[j] = q[j]
      <3>1. /\ Len(r) = IF 1 <= n THEN n - 1 + 1 ELSE 0
            /\ \A i \in 1..n - 1 + 1 : r[i] = q[1 + i - 1]
        BY <2>0, SubSeqProperties
      <3>2. n - 1 + 1 = n /\ (~(1 <= n) => n = 0) /\ \A i \in 1..n : 1 + i - 1 = i
        BY <2>0
      <3> QED
        BY <3>1, <3>2
    <2> HIDE DEF r
    <2>2. \A j \in 1..n : j \in 1..Len(q) /\ At(S, r, j) = At(S, q, j)
      <3>1. \A j \in 1..n : j \in Nat /\ \A k \in 1..j - 1 : k \in 1..n
        BY <2>0
      <3> QED
        BY <2>0, <2>1, <3>1, AtAgrees
    <2>3. Informed(S, r)
      BY <2>1, <2>2 DEF Informed
    <2> QED
      BY <2>3 DEF r
  <1>2. ASSUME q # <<>> PROVE Informed(After(S, Head(q)), Tail(q))
    <2> DEFINE r == Tail(q)
               T == After(S, Head(q))
    <2>1. /\ Len(q) \in Nat \ {0} /\ Len(r) = Len(q) - 1 /\ \A i \in 1..Len(r) : r[i] = q[i + 1]
      <3>1. Len(q) \in Nat \ {0}
        BY <1>2, EmptySeq
      <3> QED
        BY <1>2, <3>1, HeadTailProperties
    <2>2. \A j \in 1..Len(q) : At(T, r, j) = At(S, q, j + 1)
      BY <1>2, AtTail
    <2> HIDE DEF r, T
    <2>3. \A j \in 1..Len(r) : j \in 1..Len(q) /\ j + 1 \in 1..Len(q) /\ r[j] = q[j + 1]
      BY <2>1
    <2>4. Informed(T, r)
      BY <2>2, <2>3 DEF Informed
    <2> QED
      BY <2>4 DEF r, T
  <1> QED
    BY <1>1, <1>2

\* Nothing that happened is forgotten, so what is peaceful was.
LEMMA PeaceBefore ==
    ASSUME Types, [Next]_vars, Peaceful'
    PROVE  Peaceful
  <1>1. incidents \subseteq incidents'
    <2>1. CASE UNCHANGED vars
      BY <2>1 DEF vars
    <2>2. ASSUME NEW u \in User,
                 \/ Connect(u) \/ Lose(u) \/ Stays(u)
                 \/ \E m \in Map \cup {NoMap} : Navigate(u, m)
                 \/ \E m \in Map : Loaded(u, m)
          PROVE  incidents \subseteq incidents'
      BY <2>2 DEF Connect, Lose, Stays, Navigate, Loaded
    <2>3. ASSUME NEW s \in Socket, Handle(s) \/ Disconnect(s) PROVE incidents \subseteq incidents'
      BY <2>3 DEF Handle, Disconnect
    <2> QED
      BY <2>1, <2>2, <2>3, NextIs, StayingStays
  <1> QED
    BY <1>1 DEF Peaceful

\* A new connection: it is on no map, and what it carries first is what the page held.
LEMMA ConnectIs ==
    ASSUME Types, NetInv, HeardInv, NEW u \in User, Connect(u)
    PROVE  \E s \in Socket :
              /\ s \notin connected /\ mapid[s] = NoMap /\ Owner[s] = u
              /\ link[u] = NoSocket /\ link'[u] = s /\ s # NoSocket
              /\ connected' = connected \cup {s} /\ mapid' = mapid
              /\ toClient' = toClient /\ toClient[s] = <<>>
              /\ toServer'[s] = Rejoin(u) \o sendBuffer[u]
              /\ \A t \in Socket : t # s => toServer'[t] = toServer[t]
              /\ sendBuffer'[u] = <<>> /\ Out(u) = sendBuffer[u]
              /\ Out(u)' = Rejoin(u) \o sendBuffer[u]
              /\ \A v \in User : v # u => /\ link'[v] = link[v] /\ sendBuffer'[v] = sendBuffer[v]
                                          /\ Out(v)' = Out(v) /\ link[v] # s
              /\ activeMap' = activeMap /\ mapId' = mapId /\ loading' = loading
              /\ chat' = chat /\ participants' = participants /\ losses' = losses
  <1>1. PICK s \in Socket \ connected :
           /\ Owner[s] = u /\ Server!Connect(s)
           /\ link' = [link EXCEPT ![u] = s]
           /\ toServer' = [toServer EXCEPT ![s] = Rejoin(u) \o sendBuffer[u]]
    BY DEF Connect
  <1>2. /\ link[u] = NoSocket
        /\ sendBuffer' = [sendBuffer EXCEPT ![u] = <<>>]
        /\ activeMap' = activeMap /\ mapId' = mapId /\ loading' = loading
        /\ chat' = chat /\ participants' = participants /\ losses' = losses
        /\ toClient' = toClient
    BY DEF Connect, pageVars, peopleVars
  <1>3. connected' = connected \cup {s} /\ mapid' = mapid
    BY <1>1 DEF Server!Connect
  <1>4. /\ link \in [User -> Socket \cup {NoSocket}]
        /\ \A v \in User : link[v] # NoSocket => link[v] \in connected
        /\ sendBuffer \in [User -> Seq(Message)] /\ toServer \in [Socket -> Seq(Message)]
    BY DEF Types, NetTypes
  <1>5. s # NoSocket /\ mapid[s] = NoMap
    BY <1>1, NoSocketAssumption DEF NetInv
  <1>6. toClient[s] = <<>>
    BY <1>1, <1>2, <1>5 DEF HeardInv
  <1> DEFINE q == Rejoin(u) \o sendBuffer[u]
  <1> HIDE DEF q
  <1>7. /\ link'[u] = s /\ sendBuffer'[u] = <<>> /\ toServer'[s] = q
        /\ \A v \in User : v # u => /\ link'[v] = link[v] /\ sendBuffer'[v] = sendBuffer[v]
                                    /\ link[v] # s
        /\ \A t \in Socket : t # s => toServer'[t] = toServer[t]
    BY <1>1, <1>2, <1>4, <1>5 DEF q
  <1>8. /\ Out(u)' = q /\ Out(u) = sendBuffer[u]
        /\ \A v \in User : v # u => Out(v)' = Out(v)
    BY <1>2, <1>4, <1>5, <1>7 DEF Out
  <1> QED
    BY <1>1, <1>2, <1>3, <1>5, <1>6, <1>7, <1>8 DEF q

\* A connection lost: the page starts with nothing to say.
LEMMA LoseIs ==
    ASSUME Types, NetInv, NEW u \in User, Lose(u)
    PROVE  /\ link[u] # NoSocket /\ link[u] \in Socket /\ link'[u] = NoSocket
           /\ losses'[u] > 0 /\ losses[u] >= 0
           /\ \E n \in 0..Len(toServer[link[u]]) :
                 toServer'[link[u]] = SubSeq(toServer[link[u]], 1, n)
           /\ toClient'[link[u]] = <<>>
           /\ \A s \in Socket : s # link[u] => /\ toServer'[s] = toServer[s]
                                               /\ toClient'[s] = toClient[s]
           /\ Out(u)' = <<>> /\ sendBuffer' = sendBuffer
           /\ \A v \in User : v # u => /\ link'[v] = link[v] /\ Out(v)' = Out(v)
                                       /\ losses'[v] = losses[v] /\ link[v] # link[u]
           /\ activeMap' = activeMap /\ mapId' = mapId /\ loading' = loading
           /\ chat' = chat /\ participants' = participants
           /\ connected' = connected /\ mapid' = mapid
  <1> DEFINE s == link[u]
  <1>1. PICK n \in 0..Len(toServer[s]) : toServer' = [toServer EXCEPT ![s] = SubSeq(@, 1, n)]
    BY DEF Lose
  <1>2. /\ s # NoSocket /\ link' = [link EXCEPT ![u] = NoSocket]
        /\ losses' = [losses EXCEPT ![u] = @ + 1]
        /\ toClient' = [toClient EXCEPT ![s] = <<>>] /\ sendBuffer' = sendBuffer
        /\ activeMap' = activeMap /\ mapId' = mapId /\ loading' = loading
        /\ chat' = chat /\ participants' = participants
        /\ connected' = connected /\ mapid' = mapid
    BY DEF Lose, pageVars, peopleVars, NothingFromServer, serverVars
  <1>3. /\ link \in [User -> Socket \cup {NoSocket}] /\ losses \in [User -> Nat]
        /\ toServer \in [Socket -> Seq(Message)] /\ toClient \in [Socket -> Seq(Notice)]
        /\ \A v \in User : v # u => link[v] # s
        /\ sendBuffer[u] = <<>> /\ s \in Socket
    BY <1>2, LinksAreOwn DEF Types, NetTypes, NetInv
  <1> HIDE DEF s
  <1>4. /\ link'[u] = NoSocket /\ \A v \in User : v # u => link'[v] = link[v]
        /\ losses'[u] = losses[u] + 1 /\ \A v \in User : v # u => losses'[v] = losses[v]
        /\ toServer'[s] = SubSeq(toServer[s], 1, n) /\ toClient'[s] = <<>>
        /\ \A t \in Socket : t # s => toServer'[t] = toServer[t] /\ toClient'[t] = toClient[t]
        /\ losses[u] \in Nat
    BY <1>1, <1>2, <1>3
  <1>5. Out(u)' = <<>> /\ \A v \in User : v # u => Out(v)' = Out(v)
    BY <1>2, <1>3, <1>4 DEF Out
  <1> QED
    BY <1>2, <1>3, <1>4, <1>5 DEF s

\* The server taking a message, seen from the pages.
LEMMA HandleOut ==
    ASSUME Types, NEW s \in Socket, Handle(s)
    PROVE  /\ toServer'[s] = Tail(toServer[s])
           /\ \A t \in Socket : t # s => toServer'[t] = toServer[t]
           /\ \A u \in User : Out(u)' = IF link[u] = s THEN Tail(Out(u)) ELSE Out(u)
           /\ \A u \in User : link[u] = s => Out(u) = toServer[s]
           /\ link' = link /\ sendBuffer' = sendBuffer
           /\ activeMap' = activeMap /\ mapId' = mapId /\ loading' = loading
           /\ chat' = chat /\ participants' = participants /\ losses' = losses
  <1>1. toServer' = [toServer EXCEPT ![s] = Tail(@)]
    BY DEF Handle
  <1>2. /\ link' = link /\ sendBuffer' = sendBuffer
        /\ activeMap' = activeMap /\ mapId' = mapId /\ loading' = loading
        /\ chat' = chat /\ participants' = participants /\ losses' = losses
    BY DEF Handle, pageVars, peopleVars
  <1>3. /\ link \in [User -> Socket \cup {NoSocket}] /\ toServer \in [Socket -> Seq(Message)]
    BY DEF Types, NetTypes
  <1>4. /\ toServer'[s] = Tail(toServer[s])
        /\ \A t \in Socket : t # s => toServer'[t] = toServer[t]
    BY <1>1, <1>3
  <1>5. \A u \in User : link[u] = s => s # NoSocket
    BY NoSocketAssumption
  <1> QED
    BY <1>2, <1>3, <1>4, <1>5 DEF Out

\* ... and finding a connection gone.
LEMMA DisconnectOut ==
    ASSUME Types, NEW s \in Socket, Disconnect(s)
    PROVE  /\ toServer' = toServer /\ toServer[s] = <<>>
           /\ \A u \in User : link[u] # s /\ Out(u)' = Out(u)
           /\ link' = link /\ sendBuffer' = sendBuffer
           /\ activeMap' = activeMap /\ mapId' = mapId /\ loading' = loading
           /\ chat' = chat /\ participants' = participants /\ losses' = losses
           /\ mapid' = [mapid EXCEPT ![s] = NoMap] /\ connected' = connected \ {s}
           /\ s \in connected
  <1>1. /\ toServer' = toServer /\ toServer[s] = <<>> /\ link[Owner[s]] # s
        /\ link' = link /\ sendBuffer' = sendBuffer
        /\ activeMap' = activeMap /\ mapId' = mapId /\ loading' = loading
        /\ chat' = chat /\ participants' = participants /\ losses' = losses
    BY DEF Disconnect, Dead, pageVars, peopleVars
  <1>2. \A u \in User : link[u] # s
    BY <1>1, LinksAreOwn, NoSocketAssumption
  <1>3. \A u \in User : Out(u)' = Out(u)
    BY <1>1 DEF Out
  <1>4. mapid' = [mapid EXCEPT ![s] = NoMap] /\ connected' = connected \ {s} /\ s \in connected
    BY DEF Disconnect, Server!Disconnect
  <1> QED
    BY <1>1, <1>2, <1>3, <1>4

\* Where a page is depends on nothing else.
LEMMA OnMapStays ==
    ASSUME activeMap' = activeMap, mapId' = mapId, loading' = loading
    PROVE  \A u \in User : OnMap(u)' <=> OnMap(u)
  BY DEF OnMap

\* A page that moves on is on no map; the others stay.
LEMMA NavigateIs ==
    ASSUME Types, NEW u \in User, NEW m \in Map \cup {NoMap}, Navigate(u, m)
    PROVE  /\ ~OnMap(u)'
           /\ \A v \in User : v # u => /\ OnMap(v)' <=> OnMap(v)
                                       /\ activeMap'[v] = activeMap[v]
           /\ Send(u, Farewell(u)) /\ NothingFromServer /\ link' = link
           /\ chat' = chat /\ participants' = participants
           /\ toClient' = toClient /\ losses' = losses /\ incidents' = incidents
  <1>1. /\ mapId' = [mapId EXCEPT ![u] = m]
        /\ activeMap' = [activeMap EXCEPT ![u] = IF m = NoMap THEN NoMap ELSE @]
        /\ loading' = IF m = NoMap THEN loading ELSE [loading EXCEPT ![u][m] = @ + 1]
        /\ Send(u, Farewell(u)) /\ NothingFromServer /\ link' = link
        /\ chat' = chat /\ participants' = participants
        /\ toClient' = toClient /\ losses' = losses /\ incidents' = incidents
    BY DEF Navigate, peopleVars
  <1>2. /\ activeMap \in [User -> Map \cup {NoMap}] /\ mapId \in [User -> Map \cup {NoMap}]
        /\ loading \in [User -> [Map -> Nat]]
    BY DEF Types, PageTypes
  <1>3. \A v \in User : v # u => /\ activeMap'[v] = activeMap[v] /\ mapId'[v] = mapId[v]
                                 /\ loading'[v] = loading[v]
    BY <1>1, <1>2
  <1>4. ~OnMap(u)'
    <2>1. CASE m = NoMap
      <3>1. activeMap'[u] = NoMap
        BY <1>1, <1>2, <2>1
      <3> QED
        BY <3>1 DEF OnMap
    <2>2. CASE m # NoMap
      <3>1. m \in Map /\ loading'[u][m] = loading[u][m] + 1 /\ loading[u][m] \in Nat
        BY <1>1, <1>2, <2>2
      <3>2. loading'[u][m] # 0
        BY <3>1
      <3> QED
        BY <3>1, <3>2 DEF OnMap
    <2> QED
      BY <2>1, <2>2
  <1> QED
    BY <1>1, <1>3, <1>4 DEF OnMap

\* The answer that starts a map; the other pages stay.
LEMMA LoadedIs ==
    ASSUME Types, NEW u \in User, NEW m \in Map, Loaded(u, m)
    PROVE  /\ activeMap'[u] = m /\ chat'[u] /\ participants'[u] = {}
           /\ \A v \in User : v # u => /\ OnMap(v)' <=> OnMap(v)
                                       /\ activeMap'[v] = activeMap[v]
                                       /\ participants'[v] = participants[v]
           /\ Send(u, <<JoinMapMessage(m)>>) /\ NothingFromServer /\ link' = link
           /\ toClient' = toClient /\ losses' = losses
           /\ Peaceful' => ~Leaving(u)
  <1>1. /\ activeMap' = [activeMap EXCEPT ![u] = m] /\ mapId' = mapId
        /\ loading' = [loading EXCEPT ![u][m] = @ - 1]
        /\ chat' = [chat EXCEPT ![u] = TRUE] /\ participants' = [participants EXCEPT ![u] = {}]
        /\ Send(u, <<JoinMapMessage(m)>>) /\ NothingFromServer /\ link' = link
        /\ toClient' = toClient /\ losses' = losses
    BY DEF Loaded, Greeting
  <1>2. Peaceful' => ~Leaving(u)
    BY DEF Loaded, Peaceful
  <1>3. /\ activeMap \in [User -> Map \cup {NoMap}]
        /\ loading \in [User -> [Map -> Nat]]
        /\ chat \in [User -> BOOLEAN] /\ participants \in [User -> SUBSET User]
    BY DEF Types, PageTypes, PeopleTypes
  <1>4. /\ activeMap'[u] = m /\ chat'[u] /\ participants'[u] = {}
        /\ \A v \in User : v # u => /\ activeMap'[v] = activeMap[v]
                                    /\ loading'[v] = loading[v]
                                    /\ participants'[v] = participants[v]
    BY <1>1, <1>3
  <1> QED
    BY <1>1, <1>2, <1>4 DEF OnMap

-----------------------------------------------------------------------------
\* What is on its way to the server, kept through every step.

\* While a page stays, what it says goes to the end of its queue.
LEMMA StaysIs ==
    ASSUME Types, NEW u \in User, Stays(u), Peaceful'
    PROVE  \E c \in Seq(Message) :
              /\ Send(u, c) /\ Chatter(c)
              /\ \A k \in 1..Len(c) : c[k].type = "SEND_MAPPER_INFO" =>
                    link[u] # NoSocket /\ OnMap(u) /\ c[k].map = activeMap[u]
  <1> DEFINE settled == OnMap(u) \/ "early" \in incidents'
  <1>1. PICK c \in Seq(Speech(u, settled)) : Send(u, c)
    BY DEF Stays
  <1>2. Speech(u, settled) \subseteq Message
    BY DEF Speech
  <1>3. c \in Seq(Message)
    BY <1>1, <1>2, SeqMonotonic
  <1>4. \A k \in 1..Len(c) : c[k] \in Speech(u, settled)
    <2> HIDE DEF settled
    <2> QED
      BY <1>1, ElementOfSeq
  <1>5. Chatter(c)
    BY <1>4 DEF Chatter, Speech, Joins, Leaves
  <1>6. \A k \in 1..Len(c) : c[k].type = "SEND_MAPPER_INFO" =>
           link[u] # NoSocket /\ OnMap(u) /\ c[k].map = activeMap[u]
    BY <1>4 DEF Speech, Informs, Peaceful
  <1> QED
    BY <1>1, <1>3, <1>5, <1>6

\* No message on its way leaves the map a page is on.
LEMMA StayStep ==
    ASSUME Types, NetInv, HeardInv, StayInv, [Next]_vars, Peaceful'
    PROVE  StayInv'
  <1>0. /\ \A u \in User : Out(u) \in Seq(Message)
        /\ Types'
    BY OrderParts, TypesStep
  <1>1. ASSUME NEW u \in User, NEW c \in Seq(Message), Send(u, c), link' = link,
               \A k \in 1..Len(c) : ~Leaves(c[k]),
               OnMap(u)' => \A k \in 1..Len(Out(u)) : ~Leaves(Out(u)[k]),
               \A v \in User : v # u => (OnMap(v)' => OnMap(v))
        PROVE  StayInv'
    <2>1. Out(u)' = Out(u) \o c /\ \A v \in User : v # u => Out(v)' = Out(v)
      BY <1>1, SendIs
    <2>2. OnMap(u)' => \A k \in 1..Len(Out(u)') : ~Leaves(Out(u)'[k])
      <3> DEFINE q == Out(u)
      <3>1. q \in Seq(Message) /\ (OnMap(u)' => \A k \in 1..Len(q) : ~Leaves(q[k]))
        BY <1>0, <1>1
      <3> HIDE DEF q
      <3>2. OnMap(u)' => \A k \in 1..Len(q \o c) : ~Leaves((q \o c)[k])
        BY <1>1, <3>1, AppendKept
      <3>3. Out(u)' = q \o c
        BY <2>1 DEF q
      <3> QED
        BY <3>2, <3>3
    <2> QED
      BY <1>1, <2>1, <2>2 DEF StayInv
  <1>2. ASSUME NEW u \in User, Connect(u) PROVE StayInv'
    <2>1. /\ \A v \in User : OnMap(v)' <=> OnMap(v)
          /\ \A v \in User : v # u => Out(v)' = Out(v)
          /\ Out(u) = sendBuffer[u]
          /\ Out(u)' = Rejoin(u) \o sendBuffer[u]
      BY <1>2, ConnectIs, OnMapStays
    <2>2. OnMap(u) => \A k \in 1..Len(Out(u)') : ~Leaves(Out(u)'[k])
      <3> DEFINE q == Rejoin(u)
                 b == sendBuffer[u]
      <3>1. q \in Seq(Message) /\ b \in Seq(Message)
        BY <1>0, <2>1, RejoinIs
      <3>2. \A k \in 1..Len(q) : ~Leaves(q[k])
        BY DEF Rejoin, Leaves, JoinMapMessage, Say
      <3>3. OnMap(u) => \A k \in 1..Len(b) : ~Leaves(b[k])
        BY <2>1 DEF StayInv
      <3>4. Out(u)' = q \o b
        BY <2>1
      <3> HIDE DEF q, b
      <3> QED
        BY <3>1, <3>2, <3>3, <3>4, AppendKept
    <2> QED
      BY <2>1, <2>2 DEF StayInv
  <1>3. ASSUME NEW u \in User, Lose(u) PROVE StayInv'
    <2>1. /\ \A v \in User : OnMap(v)' <=> OnMap(v)
          /\ \A v \in User : v # u => Out(v)' = Out(v)
          /\ Out(u)' = <<>>
      BY <1>3, LoseIs, OnMapStays
    <2> QED
      BY <2>1 DEF StayInv
  <1>4. ASSUME NEW u \in User, NEW m \in Map \cup {NoMap}, Navigate(u, m) PROVE StayInv'
    <2>1. /\ ~OnMap(u)' /\ \A v \in User : v # u => (OnMap(v)' <=> OnMap(v))
          /\ Send(u, Farewell(u)) /\ link' = link
      BY <1>4, NavigateIs
    <2>2. \A v \in User : v # u => Out(v)' = Out(v)
      <3>1. Farewell(u) \in Seq(Message)
        BY FarewellIs
      <3> QED
        BY <2>1, <3>1, SendIs
    <2> QED
      BY <2>1, <2>2 DEF StayInv
  <1>5. ASSUME NEW u \in User, NEW m \in Map, Loaded(u, m) PROVE StayInv'
    <2>1. /\ \A v \in User : v # u => (OnMap(v)' <=> OnMap(v))
          /\ Send(u, <<JoinMapMessage(m)>>) /\ link' = link
          /\ ~Leaving(u)
      BY <1>5, LoadedIs
    <2>2. LeaveMapMessage \notin ToSet(Out(u))
      BY <2>1 DEF Leaving, Out
    <2>3. \A k \in 1..Len(Out(u)) : Out(u)[k] \in Message /\ Out(u)[k] # LeaveMapMessage
      <3> DEFINE q == Out(u)
      <3>1. q \in Seq(Message) /\ LeaveMapMessage \notin ToSet(q)
        BY <1>0, <2>2
      <3> HIDE DEF q
      <3>2. \A k \in 1..Len(q) : q[k] \in Message /\ k \in DOMAIN q
        BY <3>1
      <3>3. \A k \in 1..Len(q) : q[k] \in Message /\ q[k] # LeaveMapMessage
        BY <3>1, <3>2 DEF ToSet
      <3> QED
        BY <3>3 DEF q
    <2>4. \A k \in 1..Len(Out(u)) : ~Leaves(Out(u)[k])
      BY <2>3 DEF Message, Leaves
    <2> DEFINE c == <<JoinMapMessage(m)>>
    <2>5. c \in Seq(Message) /\ \A k \in 1..Len(c) : ~Leaves(c[k])
      <3>1. JoinMapMessage(m) \in Message
        BY SayTypes
      <3>2. \A k \in 1..Len(c) : c[k] = JoinMapMessage(m)
        OBVIOUS
      <3>3. ~Leaves(JoinMapMessage(m))
        BY DEF Leaves, JoinMapMessage, Say
      <3> HIDE DEF c
      <3>4. c \in Seq(Message)
        BY <3>1 DEF c
      <3> QED
        BY <3>2, <3>3, <3>4
    <2>6. Send(u, c)
      BY <2>1
    <2> HIDE DEF c
    <2> QED
      BY <1>1, <2>1, <2>4, <2>5, <2>6
  <1>6. ASSUME NEW u \in User, Stays(u) PROVE StayInv'
    <2>1. PICK c \in Seq(Message) : Send(u, c) /\ Chatter(c)
      BY <1>6, StaysIs
    <2>2. link' = link /\ \A v \in User : OnMap(v)' <=> OnMap(v)
      BY <1>6, OnMapStays DEF Stays, pageVars
    <2>3. \A k \in 1..Len(c) : ~Leaves(c[k])
      BY <2>1 DEF Chatter
    <2>4. OnMap(u)' => \A k \in 1..Len(Out(u)) : ~Leaves(Out(u)[k])
      BY <2>2 DEF StayInv
    <2> QED
      BY <1>1, <2>1, <2>2, <2>3, <2>4
  <1>7. ASSUME NEW s \in Socket, Handle(s) PROVE StayInv'
    <2>1. /\ \A u \in User : OnMap(u)' <=> OnMap(u)
          /\ \A u \in User : Out(u)' = IF link[u] = s THEN Tail(Out(u)) ELSE Out(u)
          /\ \A u \in User : link[u] = s => Out(u) = toServer[s]
      BY <1>7, HandleOut, OnMapStays
    <2>2. toServer[s] # <<>>
      BY <1>7, HandleIs
    <2>3. ASSUME NEW u \in User, OnMap(u), link[u] = s
          PROVE  \A k \in 1..Len(Tail(Out(u))) : ~Leaves(Tail(Out(u))[k])
      <3> DEFINE q == Out(u)
      <3>1. /\ q \in Seq(Message) /\ q # <<>>
            /\ \A k \in 1..Len(q) : ~Leaves(q[k])
        BY <1>0, <2>1, <2>2, <2>3 DEF StayInv
      <3> HIDE DEF q
      <3>2. Len(Tail(q)) = Len(q) - 1 /\ \A k \in 1..Len(Tail(q)) : Tail(q)[k] = q[k + 1]
        BY <3>1, HeadTailProperties
      <3>3. Len(q) \in Nat
        BY <3>1, LenProperties
      <3>4. \A k \in 1..Len(Tail(q)) : k + 1 \in 1..Len(q)
        BY <3>2, <3>3
      <3>5. \A k \in 1..Len(Tail(q)) : ~Leaves(Tail(q)[k])
        BY <3>1, <3>2, <3>4
      <3> QED
        BY <3>5 DEF q
    <2> QED
      BY <2>1, <2>3 DEF StayInv
  <1>8. ASSUME NEW s \in Socket, Disconnect(s) PROVE StayInv'
    BY <1>8, DisconnectOut, OnMapStays DEF StayInv
  <1>9. CASE UNCHANGED vars
    BY <1>9 DEF vars, pageVars, netVars, StayInv, OnMap, Out
  <1> QED
    BY <1>2, <1>3, <1>4, <1>5, <1>6, <1>7, <1>8, <1>9, NextIs, StayingStays

\* What a page says in a step keeps what is said to newcomers right.
LEMMA SendInformed ==
    ASSUME Types, NetInv, InfoInv, NEW u \in User, NEW c \in Seq(Message), Send(u, c),
           NothingFromServer, link' = link,
           \A k \in 1..Len(c) : c[k].type = "SEND_MAPPER_INFO" =>
              /\ link[u] # NoSocket /\ Chatter(c)
              /\ c[k].map \in InTheEnd(Now(link[u]), toServer[link[u]])
    PROVE  InfoInv'
  <1>1. /\ \A s \in Socket : Now(s)' = Now(s) /\ toServer[s] \in Seq(Message)
        /\ sendBuffer[u] \in Seq(Message)
        /\ link[u] # NoSocket => link[u] \in Socket
    BY StillThere, OrderParts
  <1>2. /\ link[u] = NoSocket => sendBuffer'[u] = sendBuffer[u] \o c /\ toServer' = toServer
        /\ link[u] # NoSocket => /\ toServer'[link[u]] = toServer[link[u]] \o c
                                 /\ sendBuffer' = sendBuffer
        /\ \A v \in User : v # u => sendBuffer'[v] = sendBuffer[v]
        /\ \A s \in Socket : s # link[u] => toServer'[s] = toServer[s]
    BY SendIs DEF Out
  <1>3. CASE link[u] = NoSocket
    <2> DEFINE b == sendBuffer[u]
    <2>1. /\ b \in Seq(Message)
          /\ \A k \in 1..Len(b) : b[k].type # "SEND_MAPPER_INFO"
          /\ \A k \in 1..Len(c) : c[k].type # "SEND_MAPPER_INFO"
      BY <1>1, <1>3 DEF InfoInv
    <2>2. sendBuffer'[u] = b \o c
      BY <1>2, <1>3
    <2> HIDE DEF b
    <2>3. In(b \o c) = In(b) \cup In(c)
      BY <2>1, ConcatOnce
    <2>4. \A x \in In(b \o c) : x.type # "SEND_MAPPER_INFO"
      BY <2>1, <2>3 DEF In
    <2>5. \A k \in 1..Len(sendBuffer'[u]) : sendBuffer'[u][k].type # "SEND_MAPPER_INFO"
      BY <2>2, <2>4 DEF In
    <2>6. \A s \in Socket : Informed(Now(s)', toServer'[s])
      BY <1>1, <1>2, <1>3 DEF InfoInv
    <2> QED
      BY <1>2, <2>5, <2>6 DEF InfoInv
  <1>4. CASE link[u] # NoSocket
    <2> DEFINE q == toServer[link[u]]
               S == Now(link[u])
    <2>1. q \in Seq(Message) /\ Informed(S, q)
      BY <1>1, <1>4 DEF InfoInv
    <2>2. \A k \in 1..Len(c) : c[k].type = "SEND_MAPPER_INFO" =>
             Chatter(c) /\ c[k].map \in InTheEnd(S, q)
      OBVIOUS
    <2> HIDE DEF q, S
    <2>3. Informed(S, q \o c)
      BY <2>1, <2>2, AppendInformed
    <2>4. Informed(Now(link[u])', toServer'[link[u]])
      BY <1>1, <1>2, <1>4, <2>3 DEF q, S
    <2>5. \A s \in Socket : Informed(Now(s)', toServer'[s])
      BY <1>1, <1>2, <2>4 DEF InfoInv
    <2> QED
      BY <1>2, <1>4, <2>5 DEF InfoInv
  <1> QED
    BY <1>3, <1>4

\* A page that shows its map, and has nothing more to load, is on it in the end.
LEMMA ShowsInTheEnd ==
    ASSUME OrderInvariant, Calm, NEW u \in User, OnMap(u), link[u] # NoSocket
    PROVE  /\ activeMap[u] \in Map /\ link[u] \in Socket
           /\ Held(u) = {activeMap[u]}
           /\ Out(u) = toServer[link[u]]
           /\ activeMap[u] \in InTheEnd(Now(link[u]), Out(u))
           /\ InTheEnd(Now(link[u]), Out(u)) \subseteq {activeMap[u]}
  <1>1. Types /\ OrderInv /\ ShowInv
    BY DEF OrderInvariant
  <1>2. activeMap[u] \in Map /\ link[u] \in Socket
    BY <1>1, OrderParts DEF OnMap
  <1>3. Held(u) = {activeMap[u]}
    BY DEF OnMap, Held
  <1>4. From(u) = Now(link[u]) /\ Wherever(u) = Now(link[u]) /\ Out(u) = toServer[link[u]]
    BY DEF From, Wherever, Out
  <1>5. ~(loading[u][activeMap[u]] > 0)
    BY <1>2 DEF OnMap
  <1> QED
    BY <1>1, <1>2, <1>3, <1>4, <1>5 DEF OrderInv, ShowInv

\* Newcomers are told of a page on the map it is on by then, whatever happens.
LEMMA InfoStep ==
    ASSUME OrderInvariant, OrderInvariant', HeardInv, InfoInv, [Next]_vars, Peaceful'
    PROVE  InfoInv'
  <1>0. /\ Types /\ NetInv
        /\ \A s \in Socket : toServer[s] \in Seq(Message) /\ Now(s) \in SUBSET Map
        /\ Calm /\ Calm'
    <2>1. Peaceful
      BY PeaceBefore DEF OrderInvariant
    <2>2. Calm /\ Calm'
      BY <2>1 DEF Peaceful, Calm
    <2> QED
      BY <2>2, OrderParts DEF OrderInvariant
  <1>1. ASSUME sendBuffer' = sendBuffer,
               \A s \in Socket : Informed(Now(s)', toServer'[s])
        PROVE  InfoInv'
    BY <1>1 DEF InfoInv
  <1>2. ASSUME NEW u \in User, Connect(u) PROVE InfoInv'
    <2>1. PICK s \in Socket :
             /\ mapid' = mapid /\ mapid[s] = NoMap
             /\ toServer'[s] = Rejoin(u) \o sendBuffer[u]
             /\ \A t \in Socket : t # s => toServer'[t] = toServer[t]
             /\ sendBuffer'[u] = <<>>
             /\ \A v \in User : v # u => sendBuffer'[v] = sendBuffer[v]
      BY <1>0, <1>2, ConnectIs
    <2> DEFINE q == Rejoin(u)
               b == sendBuffer[u]
    <2>2. /\ q \in Seq(Message) /\ b \in Seq(Message)
          /\ \A k \in 1..Len(b) : b[k].type # "SEND_MAPPER_INFO"
      BY <1>0, RejoinIs, OrderParts DEF InfoInv
    <2>3. \A k \in 1..Len(q) : q[k].type # "SEND_MAPPER_INFO"
      BY DEF Rejoin, JoinMapMessage, Say
    <2>4. toServer'[s] = q \o b
      BY <2>1
    <2> HIDE DEF q, b
    <2>5. In(q \o b) = In(q) \cup In(b)
      BY <2>2, ConcatOnce
    <2>6. \A x \in In(q \o b) : x.type # "SEND_MAPPER_INFO"
      BY <2>2, <2>3, <2>5 DEF In
    <2>7. \A k \in 1..Len(toServer'[s]) : toServer'[s][k].type # "SEND_MAPPER_INFO"
      BY <2>4, <2>6 DEF In
    <2>8. \A t \in Socket : Now(t)' = Now(t)
      BY <2>1 DEF Now
    <2>9. \A t \in Socket : Informed(Now(t)', toServer'[t])
      BY <2>1, <2>7, <2>8 DEF InfoInv, Informed
    <2>10. \A v \in User : \A k \in 1..Len(sendBuffer'[v]) :
              sendBuffer'[v][k].type # "SEND_MAPPER_INFO"
      BY <2>1 DEF InfoInv
    <2> QED
      BY <2>9, <2>10 DEF InfoInv
  <1>3. ASSUME NEW u \in User, Lose(u) PROVE InfoInv'
    <2>1. PICK s \in Socket : s = link[u]
      BY <1>0, <1>3, LoseIs
    <2>2. PICK n \in 0..Len(toServer[s]) : toServer'[s] = SubSeq(toServer[s], 1, n)
      BY <1>0, <1>3, <2>1, LoseIs
    <2>3. /\ \A t \in Socket : t # s => toServer'[t] = toServer[t]
          /\ sendBuffer' = sendBuffer /\ mapid' = mapid
      BY <1>0, <1>3, <2>1, LoseIs
    <2> DEFINE q == toServer[s]
               S == Now(s)
    <2>4. q \in Seq(Message) /\ S \in SUBSET Map /\ Informed(S, q) /\ n \in 0..Len(q)
      BY <1>0 DEF InfoInv
    <2>5. toServer'[s] = SubSeq(q, 1, n)
      BY <2>2
    <2> HIDE DEF q, S
    <2>6. Informed(S, SubSeq(q, 1, n))
      BY <2>4, LessInformed
    <2>7. \A t \in Socket : Now(t)' = Now(t)
      BY <2>3 DEF Now
    <2>8. \A t \in Socket : Informed(Now(t)', toServer'[t])
      BY <2>3, <2>5, <2>6, <2>7 DEF InfoInv, S
    <2> QED
      BY <1>1, <2>3, <2>8
  <1>4. ASSUME NEW u \in User, NEW m \in Map \cup {NoMap}, Navigate(u, m) PROVE InfoInv'
    <2>1. Send(u, Farewell(u)) /\ NothingFromServer /\ link' = link
      BY <1>0, <1>4, NavigateIs
    <2>2. Farewell(u) \in Seq(Message)
      BY <1>0, FarewellIs
    <2>3. \A k \in 1..Len(Farewell(u)) : Farewell(u)[k].type # "SEND_MAPPER_INFO"
      <3>1. \/ Farewell(u) = <<>>
            \/ Farewell(u) = <<LeaveMapMessage>>
            \/ Farewell(u) = <<LeaveCallMessage(activeMap[u]), LeaveMapMessage>>
        BY <1>0, FarewellIs
      <3>2. /\ LeaveMapMessage.type = "LEAVE_MAP"
            /\ LeaveCallMessage(activeMap[u]).type = "LEAVE_CALL"
        BY DEF LeaveMapMessage, LeaveCallMessage, Say
      <3> QED
        BY <3>1, <3>2
    <2> QED
      BY <1>0, <2>1, <2>2, <2>3, SendInformed
  <1>5. ASSUME NEW u \in User, NEW m \in Map, Loaded(u, m) PROVE InfoInv'
    <2>1. Send(u, <<JoinMapMessage(m)>>) /\ NothingFromServer /\ link' = link
      BY <1>0, <1>5, LoadedIs
    <2> DEFINE c == <<JoinMapMessage(m)>>
    <2>2. JoinMapMessage(m) \in Message /\ JoinMapMessage(m).type # "SEND_MAPPER_INFO"
      BY SayTypes DEF JoinMapMessage, Say
    <2>3. c \in Seq(Message) /\ \A k \in 1..Len(c) : c[k].type # "SEND_MAPPER_INFO"
      BY <2>2
    <2>4. Send(u, c)
      BY <2>1
    <2> HIDE DEF c
    <2> QED
      BY <1>0, <2>1, <2>3, <2>4, SendInformed
  <1>6. ASSUME NEW u \in User, Stays(u) PROVE InfoInv'
    <2>1. PICK c \in Seq(Message) :
             /\ Send(u, c) /\ Chatter(c)
             /\ \A k \in 1..Len(c) : c[k].type = "SEND_MAPPER_INFO" =>
                   link[u] # NoSocket /\ OnMap(u) /\ c[k].map = activeMap[u]
      BY <1>0, <1>6, StaysIs
    <2>2. NothingFromServer /\ link' = link
      BY <1>6 DEF Stays
    <2>3. link[u] # NoSocket /\ OnMap(u) => activeMap[u] \in InTheEnd(Now(link[u]), toServer[link[u]])
      BY <1>0, ShowsInTheEnd
    <2> QED
      BY <1>0, <2>1, <2>2, <2>3, SendInformed
  <1>7. ASSUME NEW s \in Socket, Handle(s) PROVE InfoInv'
    <2> DEFINE q == toServer[s]
               S == Now(s)
    <2>1. /\ toServer'[s] = Tail(q)
          /\ \A t \in Socket : t # s => toServer'[t] = toServer[t]
          /\ sendBuffer' = sendBuffer
      BY <1>0, <1>7, HandleOut
    <2>2. q # <<>> /\ q \in Seq(Message) /\ S \in SUBSET Map /\ Informed(S, q)
      BY <1>0, <1>7, HandleIs DEF InfoInv
    <2>3. /\ Now(s)' = After(S, Head(q))
          /\ \A t \in Socket : t # s => mapid'[t] = mapid[t]
      BY <1>0, <1>7, HandleMaps
    <2> HIDE DEF q, S
    <2>4. Informed(After(S, Head(q)), Tail(q))
      BY <2>2, LessInformed
    <2>5. \A t \in Socket : t # s => Now(t)' = Now(t)
      BY <2>3 DEF Now
    <2>6. \A t \in Socket : Informed(Now(t)', toServer'[t])
      BY <2>1, <2>3, <2>4, <2>5 DEF InfoInv
    <2> QED
      BY <1>1, <2>1, <2>6
  <1>8. ASSUME NEW s \in Socket, Disconnect(s) PROVE InfoInv'
    <2>1. /\ toServer' = toServer /\ toServer[s] = <<>> /\ sendBuffer' = sendBuffer
          /\ mapid' = [mapid EXCEPT ![s] = NoMap]
      BY <1>0, <1>8, DisconnectOut
    <2>2. \A t \in Socket : t # s => Now(t)' = Now(t)
      BY <1>0, <2>1 DEF Now, Types, P!TypeOK
    <2>3. \A t \in Socket : Informed(Now(t)', toServer'[t])
      BY <2>1, <2>2 DEF InfoInv, Informed
    <2> QED
      BY <1>1, <2>1, <2>3
  <1>9. CASE UNCHANGED vars
    <2>1. sendBuffer' = sendBuffer /\ toServer' = toServer /\ mapid' = mapid
      BY <1>9 DEF vars, netVars, serverVars
    <2>2. \A s \in Socket : Now(s)' = Now(s)
      BY <2>1 DEF Now
    <2> QED
      BY <2>1, <2>2 DEF InfoInv
  <1> QED
    BY <1>0, <1>2, <1>3, <1>4, <1>5, <1>6, <1>7, <1>8, <1>9, NextIs, StayingStays

\* Every step keeps the background.
LEMMA BackgroundStep ==
    ASSUME OrderInvariant, OrderInvariant', Lists, Background, [Next]_vars
    PROVE  Background'
  <1>1. Types /\ NetInv
    BY DEF OrderInvariant
  <1>2. HeardInv' /\ ChatInv'
    BY <1>1, HeardStep, ChatStep DEF Background
  <1>3. Calm' => RoomInv'
    BY RoomStep DEF Background
  <1>4. ASSUME Peaceful' PROVE StayInv' /\ InfoInv'
    <2>1. Peaceful
      BY <1>1, <1>4, PeaceBefore
    <2>2. HeardInv /\ StayInv /\ InfoInv
      BY <2>1 DEF Background
    <2> QED
      BY <1>1, <1>4, <2>2, StayStep, InfoStep
  <1> QED
    BY <1>2, <1>3, <1>4 DEF Background

\* The background holds at first.
LEMMA BackgroundInit == Init => Background
  <1> SUFFICES ASSUME Init PROVE Background
    OBVIOUS
  <1>1. /\ activeMap = mapId /\ \A u \in User : mapId[u] \in Map \cup {NoMap}
        /\ loading = [u \in User |-> [m \in Map |-> IF m = mapId[u] THEN 1 ELSE 0]]
        /\ sendBuffer = [u \in User |-> <<>>] /\ link = [u \in User |-> NoSocket]
        /\ toServer = [s \in Socket |-> <<>>] /\ toClient = [s \in Socket |-> <<>>]
    BY DEF Init
  <1>2. HeardInv
    BY <1>1 DEF HeardInv
  <1>3. ChatInv
    BY <1>1, KeyAssumption DEF ChatInv
  <1>4. RoomInv
    <2>1. connected = {} /\ mapRoom = [m \in Map |-> {}]
          /\ userMapRoom = [u \in User |-> [m \in Map |-> {}]]
      BY DEF Init, Server!Init
    <2> QED
      BY <2>1 DEF RoomInv
  <1>5. StayInv /\ InfoInv
    <2>1. \A u \in User : Out(u) = <<>> /\ sendBuffer[u] = <<>>
      BY <1>1 DEF Out
    <2>2. \A s \in Socket : toServer[s] = <<>>
      BY <1>1
    <2> QED
      BY <2>1, <2>2 DEF StayInv, InfoInv, Informed
  <1> QED
    BY <1>2, <1>3, <1>4, <1>5 DEF Background

-----------------------------------------------------------------------------
\* Joining.

\* A page has yet to tell the server that it is on a map.
JoinComes(u) == \E k \in 1..Len(Out(u)) : Joins(Out(u)[k])

\* A page on its map whose connection is not there yet has its JOIN_MAP on the way.
LEMMA JoinPending ==
    ASSUME OrderInvariant, Calm, NEW u \in User, OnMap(u), link[u] # NoSocket,
           mapid[link[u]] # activeMap[u]
    PROVE  JoinComes(u)
  <1> DEFINE q == Out(u)
  <1>1. activeMap[u] \in At(Now(link[u]), q, Len(q) + 1)
    BY ShowsInTheEnd DEF InTheEnd
  <1>2. q \in Seq(Message)
    BY OrderParts DEF OrderInvariant
  <1> HIDE DEF q
  <1>3. activeMap[u] \notin Now(link[u])
    BY DEF Now
  <1>4. \E i \in 1..Len(q) + 1 - 1 : Joins(q[i])
    BY <1>1, <1>3 DEF At
  <1>5. Len(q) + 1 - 1 = Len(q)
    BY <1>2, LenProperties
  <1> QED
    BY <1>4, <1>5 DEF JoinComes, q

\* The map it joins next is its own.
LEMMA JoinIsOwn ==
    ASSUME OrderInvariant, Calm, StayInv, NEW u \in User, OnMap(u), link[u] # NoSocket,
           toServer[link[u]] # <<>>, Joins(Head(toServer[link[u]]))
    PROVE  Head(toServer[link[u]]).map = activeMap[u]
  <1> DEFINE q == Out(u)
             S == Now(link[u])
  <1>1. Out(u) = toServer[link[u]] /\ At(S, q, Len(q) + 1) \subseteq {activeMap[u]}
    BY ShowsInTheEnd DEF InTheEnd
  <1>2. q \in Seq(Message) /\ q # <<>> /\ Joins(Head(q)) /\ \A k \in 1..Len(q) : ~Leaves(q[k])
    BY <1>1, OrderParts DEF OrderInvariant, StayInv
  <1>3. \A x : x \in At(S, q, Len(q) + 1) => x = activeMap[u]
    BY <1>1
  <1> HIDE DEF q, S
  <1>4. Head(q) \in Message /\ Head(q) = q[1] /\ Len(q) \in Nat \ {0}
    BY <1>2, HeadTailProperties, EmptySeq, LenProperties
  <1>5. q[1].map \in Map /\ Joins(q[1])
    BY <1>2, <1>4 DEF Message, Joins
  <1>6. q[1].map \in At(S, q, Len(q) + 1)
    <2>1. 1 \in 1..Len(q) + 1 - 1 /\ \A k \in 1 + 1..Len(q) + 1 - 1 : k \in 1..Len(q)
      BY <1>4
    <2> QED
      BY <1>2, <1>5, <2>1 DEF At
  <1>7. q[1].map = activeMap[u]
    BY <1>3, <1>6
  <1> QED
    BY <1>1, <1>4, <1>7 DEF q

\* What is repeated is said.
LEMMA RepeatSays ==
    ASSUME NEW S, NEW x \in S, NEW n \in Nat \ {0}
    PROVE  x \in In(Repeat(<<x>>, n)) /\ Repeat(<<x>>, n) \in Seq(S)
  <1> DEFINE seqs == [i \in 1..n |-> <<x>>]
  <1>1. seqs \in Seq(Seq(S)) /\ Len(seqs) = n
    OBVIOUS
  <1>2. 1 \in 1..n /\ seqs[1] = <<x>> /\ x \in In(<<x>>)
    BY InShort
  <1> HIDE DEF seqs
  <1>3. x \in In(FlattenSeq(seqs))
    BY <1>1, <1>2, FlattenIn
  <1>4. FlattenSeq(seqs) \in Seq(S)
    BY <1>1, FlattenType
  <1> QED
    BY <1>3, <1>4 DEF Repeat, seqs

\* v has yet to tell u that it is on the map of u.
AnswerComes(v, u) ==
    \E k \in 1..Len(Out(v)) : /\ Out(v)[k].type = "SEND_MAPPER_INFO"
                              /\ Out(v)[k].peer = u /\ Out(v)[k].map = activeMap[u]

\* What is still to be said, by what is in the queue.
LEMMA ComesIs ==
    \A u, v \in User :
        /\ JoinComes(u) <=> \E x \in In(Out(u)) : Joins(x)
        /\ AnswerComes(v, u) <=> \E x \in In(Out(v)) : /\ x.type = "SEND_MAPPER_INFO"
                                                      /\ x.peer = u /\ x.map = activeMap[u]
        /\ HearsOf(v, u) <=> \E x \in In(toClient[link[v]]) : x.type = "NEW_MAPPER" /\ x.about = u
  BY DEF JoinComes, AnswerComes, HearsOf, In

\* What a page does with its list when it takes a message of the server.
LEMMA ReceiveLists ==
    ASSUME Types, NEW u \in User, Receive(u), NEW v
    PROVE  /\ chat[u] /\ v # u =>
                 (v \in participants'[u] <=>
                     \/ Adds(Head(toClient[link[u]]), v)
                     \/ v \in participants[u] /\ ~Drops(Head(toClient[link[u]]), v))
           /\ u \in participants'[u] => u \in participants[u]
  <1> DEFINE e == Head(toClient[link[u]])
  <1>1. participants \in [User -> SUBSET User]
    BY DEF Types, PeopleTypes
  <1>2. \/ e.type = "NEW_MAPPER" /\ NewMapper(u, e.about)
        \/ e.type = "LOST_MAPPER" /\ LostMapper(u, e.about)
        \/ e.type = "MAPPER_LIST_UPDATED" /\ MapperListUpdated(u, e.about, e.talking)
        \/ /\ e.type \notin {"NEW_MAPPER", "LOST_MAPPER", "MAPPER_LIST_UPDATED"}
           /\ participants' = participants
    BY DEF Receive, MapperJoinedCall, MapperLeftCall, Invited, CallAccepted, CallStarted, Ignored
  <1> HIDE DEF e
  <1>3. CASE e.type \in {"NEW_MAPPER", "MAPPER_LIST_UPDATED"}
    <2>1. participants' = [participants EXCEPT
                              ![u] = IF chat[u] /\ e.about # u THEN @ \cup {e.about} ELSE @]
      BY <1>2, <1>3 DEF NewMapper, MapperListUpdated, AddParticipant
    <2>2. participants'[u] = IF chat[u] /\ e.about # u THEN participants[u] \cup {e.about}
                             ELSE participants[u]
      BY <1>1, <2>1
    <2> QED
      BY <1>3, <2>2 DEF Adds, Drops, e
  <1>4. CASE e.type = "LOST_MAPPER"
    <2>1. participants'[u] = participants[u] \ {e.about}
      BY <1>1, <1>2, <1>4 DEF LostMapper
    <2> QED
      BY <1>4, <2>1 DEF Adds, Drops, e
  <1>5. CASE e.type \notin {"NEW_MAPPER", "LOST_MAPPER", "MAPPER_LIST_UPDATED"}
    BY <1>2, <1>5 DEF Adds, Drops, e
  <1> QED
    BY <1>3, <1>4, <1>5

\* Taking a message changes nothing in what a page on its map will list.
LEMMA ReceiveSees ==
    ASSUME Types, NEW u \in User, Receive(u), chat[u], NEW v, v # u
    PROVE  Sees(u, v)' <=> Sees(u, v)
  <1> DEFINE q == toClient[link[u]]
             known == v \in participants[u]
             after == v \in participants'[u]
  <1>1. q \in Seq(Notice) /\ q # <<>> /\ toClient'[link[u]] = Tail(q) /\ link' = link
    BY ReceiveIs
  <1>2. after <=> Adds(Head(q), v) \/ (known /\ ~Drops(Head(q), v))
    BY ReceiveLists
  <1>3. Sees(u, v) <=> Listed(known, q, v)
    BY DEF Sees
  <1>4. Sees(u, v)' <=> Listed(after, Tail(q), v)
    BY <1>1 DEF Sees
  <1> HIDE DEF q, known, after
  <1>5. Listed(known, q, v)
           <=> Listed(Adds(Head(q), v) \/ (known /\ ~Drops(Head(q), v)), Tail(q), v)
    BY <1>1, ListedTail
  <1>6. Listed(after, Tail(q), v)
           <=> Listed(Adds(Head(q), v) \/ (known /\ ~Drops(Head(q), v)), Tail(q), v)
    BY <1>2 DEF Listed
  <1> QED
    BY <1>3, <1>4, <1>5, <1>6

-----------------------------------------------------------------------------
\* Pages list nobody who is not on their map.

\* A connection of v is on the map of the connection of u.
Here(u, v) ==
    /\ mapid[link[u]] # NoMap
    /\ \E s \in connected : mapid[s] = mapid[link[u]] /\ Owner[s] = v

Sound ==
    /\ \A u \in User : u \notin participants[u]
    /\ \A u \in User : losses[u] = 0 /\ link[u] = NoSocket => participants[u] = {}
    /\ \A u \in User, v \in User :
          /\ losses[u] = 0 /\ link[u] # NoSocket /\ OnMap(u)
          /\ v # u /\ Sees(u, v)
          => Here(u, v)

\* A step in which u and the server rest.
LEMMA HereRests ==
    ASSUME mapid' = mapid, connected \subseteq connected', NEW u, link'[u] = link[u], NEW v
    PROVE  Here(u, v) => Here(u, v)'
  BY DEF Here

\* A page on its map has its chat.
LEMMA ChatIsThere ==
    ASSUME ChatInv, NEW u \in User, OnMap(u), activeMap[u] \in Map
    PROVE  chat[u]
  BY DEF ChatInv, OnMap

\* An event of a page leaves what the others list as it was.
LEMMA StayingSees ==
    ASSUME Types, ChatInv, NEW w \in User, StayingEvent(w), NEW u \in User, link[u] # NoSocket,
           NEW v, OnMap(u), v # u
    PROVE  Sees(u, v)' <=> Sees(u, v)
  <1>1. link' = link
    BY StayingStays DEF Stays
  <1>2. CASE UNCHANGED <<chat, participants, toClient, losses>>
    BY <1>1, <1>2 DEF Sees
  <1>3. CASE Receive(w)
    <2>1. CASE w = u
      <3>1. activeMap[u] \in Map
        BY DEF OnMap, Types, PageTypes
      <3>2. chat[u]
        BY <3>1, ChatIsThere
      <3> QED
        BY <1>3, <2>1, <3>2, ReceiveSees
    <2>2. CASE w # u
      <3>1. link[u] # link[w] /\ link[u] \in Socket
        BY <2>2, LinksAreOwn
      <3>2. toClient'[link[u]] = toClient[link[u]] /\ participants'[u] = participants[u]
        BY <1>3, <2>2, <3>1, ReceiveIs
      <3> QED
        BY <1>1, <3>2 DEF Sees
    <2> QED
      BY <2>1, <2>2
  <1> QED
    BY <1>2, <1>3, StayingIs

\* A message the server takes makes nobody listed who is not there.
LEMMA HandleSound ==
    ASSUME OrderInvariant, OrderInvariant', Calm', Lists, RoomInv, StayInv, InfoInv,
           NEW s \in Socket, Handle(s), NEW u \in User, link[u] # NoSocket, OnMap(u),
           NEW v \in User, v # u, Sees(u, v) => Here(u, v), Sees(u, v)'
    PROVE  Here(u, v)'
  <1> DEFINE e == Head(toServer[s])
  <1>1. /\ Types /\ Types' /\ P!TypeOK'
        /\ \A w \in Socket : toServer[w] \in Seq(Message) /\ Now(w) \in SUBSET Map
    BY OrderParts DEF OrderInvariant, Types
  <1>2. /\ link' = link /\ participants' = participants
        /\ e \in Message /\ toServer[s] # <<>> /\ Deliver(e.talking) /\ e.talking \in BOOLEAN
    BY <1>1, HandleIs, HandleOut DEF Message
  <1>3. PICK t \in Socket : t = link[u] /\ t = link'[u] /\ Owner[t] = u /\ t \in connected
    BY <1>1, <1>2, LinksAreOwn
  <1>4. /\ \A w \in Socket : w # s => mapid'[w] = mapid[w]
        /\ mapid'[s] = IF Leaves(e) THEN NoMap ELSE IF Joins(e) THEN e.map ELSE mapid[s]
        /\ Joins(e) => mapid[s] \in {NoMap, e.map} /\ e.map \in Map
        /\ s \in connected /\ connected' = connected
    BY HandleMaps
  <1>5. /\ Lost(t, v)' /\ ~Added(t, v)' => ~Sees(u, v)'
        /\ ~Added(t, v)' /\ ~Lost(t, v)' => (Sees(u, v)' <=> Sees(u, v))
    BY <1>1, <1>2, <1>3, DeliverSees
  <1>6. /\ Tells(t, "NEW_MAPPER", v)' <=> /\ Joins(e) /\ v = Owner[s]
                                          /\ t # s /\ t \in connected /\ mapid[t] = e.map
        /\ Tells(t, "LOST_MAPPER", v)' <=> /\ Leaves(e) /\ mapid[s] # NoMap /\ v = Owner[s]
                                           /\ t # s /\ t \in connected /\ mapid[t] = mapid[s]
        /\ Tells(t, "MAPPER_LIST_UPDATED", v)' <=>
              /\ e.type = "SEND_MAPPER_INFO" /\ v = Owner[s]
              /\ t # s /\ t \in connected /\ mapid[t] = e.map /\ Owner[t] = e.peer
    BY <1>3, WhoHears
  <1>7. \A w \in connected : w \in Socket
    BY <1>1 DEF Types, P!TypeOK
  <1>8. s = t => ~Leaves(e)
    <2> SUFFICES ASSUME s = t PROVE ~Leaves(e)
      OBVIOUS
    <2>0. link[u] = s
      BY <1>3
    <2> DEFINE q == Out(u)
    <2>1. q = toServer[s] /\ \A k \in 1..Len(q) : ~Leaves(q[k])
      BY <1>1, <2>0, HandleOut DEF StayInv
    <2>2. q \in Seq(Message) /\ q # <<>> /\ Head(q) = e
      BY <1>1, <1>2, <2>1
    <2> HIDE DEF q
    <2>3. Head(q) = q[1] /\ 1 \in 1..Len(q)
      BY <2>2, HeadTailProperties, EmptySeq, LenProperties
    <2> QED
      BY <2>1, <2>2, <2>3
  <1>9. e.type = "SEND_MAPPER_INFO" => mapid[s] = e.map /\ e.map \in Map
    <2> DEFINE q == toServer[s]
               S == Now(s)
    <2>1. q \in Seq(Message) /\ q # <<>> /\ Informed(S, q) /\ Head(q) = e
      BY <1>1, <1>2 DEF InfoInv
    <2>2. S = {mapid[s]} \ {NoMap}
      BY DEF Now
    <2> HIDE DEF q, S, e
    <2>3. Head(q) = q[1] /\ 1 \in 1..Len(q)
      BY <2>1, HeadTailProperties, EmptySeq, LenProperties
    <2>4. e.type = "SEND_MAPPER_INFO" => e.map \in At(S, q, 1)
      BY <2>1, <2>3 DEF Informed
    <2>5. e.type = "SEND_MAPPER_INFO" => e.map \in S
      BY <2>4, AtFirst
    <2>6. S \subseteq Map
      BY <1>1 DEF S
    <2> QED
      BY <2>2, <2>5, <2>6
  <1> HIDE DEF e
  <1>10. CASE Added(t, v)'
    <2>1. /\ t # s /\ mapid[t] = e.map /\ v = Owner[s]
          /\ Joins(e) \/ e.type = "SEND_MAPPER_INFO"
      BY <1>6, <1>10 DEF Added
    <2>2. e.map \in Map /\ mapid'[t] = e.map /\ mapid'[s] = e.map
      BY <1>3, <1>4, <1>9, <2>1 DEF Joins, Leaves
    <2> QED
      BY <1>3, <1>4, <2>1, <2>2, KeyAssumption DEF Here
  <1>11. CASE ~Added(t, v)'
    <2>1. ~Lost(t, v)' /\ Here(u, v)
      BY <1>5, <1>11
    <2>2. PICK r \in connected : mapid[r] = mapid[t] /\ Owner[r] = v
      BY <1>3, <2>1 DEF Here
    <2>3. mapid[t] # NoMap /\ r # t /\ r \in Socket
      BY <1>3, <1>7, <2>1, <2>2 DEF Here
    <2>4. mapid'[t] = mapid[t]
      BY <1>3, <1>4, <1>8, <2>3
    <2>5. mapid'[r] = mapid[r]
      <3>1. CASE r # s
        BY <1>4, <2>3, <3>1
      <3>2. CASE r = s
        <4>1. ~Leaves(e)
          BY <1>3, <1>6, <2>1, <2>2, <2>3, <3>2 DEF Lost
        <4> QED
          BY <1>4, <2>2, <2>3, <3>2, <4>1
      <3> QED
        BY <3>1, <3>2
    <2> QED
      BY <1>3, <1>4, <2>2, <2>3, <2>4, <2>5 DEF Here
  <1> QED
    BY <1>10, <1>11

\* Nor does the end of a connection.
LEMMA DisconnectSound ==
    ASSUME OrderInvariant, OrderInvariant', Lists, RoomInv,
           NEW s \in Socket, Disconnect(s), NEW u \in User, link[u] # NoSocket,
           NEW v \in User, v # u, Sees(u, v) => Here(u, v), Sees(u, v)'
    PROVE  Here(u, v)'
  <1>1. Types /\ P!TypeOK' /\ Deliver(FALSE)
    BY DEF OrderInvariant, Types, Disconnect
  <1>2. /\ link' = link /\ participants' = participants /\ link[u] # s
        /\ mapid' = [mapid EXCEPT ![s] = NoMap] /\ connected' = connected \ {s} /\ s \in connected
    BY <1>1, DisconnectOut
  <1>3. PICK t \in Socket : t = link[u] /\ t = link'[u] /\ t # s /\ t \in connected
    BY <1>1, <1>2, LinksAreOwn
  <1>4. /\ Lost(t, v)' /\ ~Added(t, v)' => ~Sees(u, v)'
        /\ ~Added(t, v)' /\ ~Lost(t, v)' => (Sees(u, v)' <=> Sees(u, v))
    BY <1>1, <1>2, <1>3, DeliverSees
  <1>5. /\ ~Tells(t, "NEW_MAPPER", v)' /\ ~Tells(t, "MAPPER_LIST_UPDATED", v)'
        /\ mapid[s] # NoMap =>
              (Tells(t, "LOST_MAPPER", v)' <=> /\ v = Owner[s] /\ t # s
                                               /\ t \in connected /\ mapid[t] = mapid[s])
    BY <1>3, WhoHearsOfLoss
  <1>6. /\ \A w \in connected : w \in Socket
        /\ \A w \in Socket : w # s => mapid'[w] = mapid[w]
    BY <1>1, <1>2 DEF Types, P!TypeOK
  <1>7. ~Added(t, v)'
    BY <1>5 DEF Added
  <1>8. ~Lost(t, v)' /\ Here(u, v)
    BY <1>4, <1>7
  <1>9. PICK r \in connected : mapid[r] = mapid[t] /\ Owner[r] = v
    BY <1>3, <1>8 DEF Here
  <1>10. mapid[t] # NoMap
    BY <1>3, <1>8 DEF Here
  <1>11. r # s
    BY <1>2, <1>3, <1>5, <1>8, <1>9, <1>10 DEF Lost
  <1> QED
    BY <1>2, <1>3, <1>6, <1>9, <1>10, <1>11 DEF Here

\* Every step keeps what the pages list right.
LEMMA SoundStep ==
    ASSUME OrderInvariant, OrderInvariant', Lists, Background, Sound, [Next]_vars, Peaceful'
    PROVE  Sound'
  <1>0. /\ Types /\ NetInv /\ Peaceful /\ Calm /\ Calm'
        /\ HeardInv /\ ChatInv /\ RoomInv /\ StayInv /\ InfoInv
    <2>1. Types /\ NetInv
      BY DEF OrderInvariant
    <2>2. Peaceful
      BY <2>1, PeaceBefore
    <2>3. Calm /\ Calm'
      BY <2>2 DEF Peaceful, Calm
    <2> QED
      BY <2>1, <2>2, <2>3 DEF Background
  <1>1. ASSUME \A u \in User : u \in participants'[u] => u \in participants[u],
               \A u \in User : losses'[u] = 0 /\ link'[u] = NoSocket => participants'[u] = {},
               \A u \in User, v \in User :
                  /\ losses'[u] = 0 /\ link'[u] # NoSocket /\ OnMap(u)'
                  /\ v # u /\ Sees(u, v)'
                  => Here(u, v)'
        PROVE  Sound'
    BY <1>1 DEF Sound
  <1>2. \A u \in User, v \in User :
           v # u /\ losses[u] = 0 /\ link[u] # NoSocket /\ OnMap(u) /\ Sees(u, v) => Here(u, v)
    BY DEF Sound
  \* What is as it was for page u.
  <1>3. ASSUME NEW u \in User, NEW v \in User, mapid' = mapid, connected \subseteq connected',
               link'[u] = link[u], OnMap(u)' => OnMap(u), losses'[u] = losses[u],
               Sees(u, v)' => Sees(u, v), v # u,
               losses'[u] = 0, link'[u] # NoSocket, OnMap(u)', Sees(u, v)'
        PROVE  Here(u, v)'
    BY <1>2, <1>3, HereRests
  <1>4. ASSUME NEW u, link'[u] = link[u], participants'[u] = participants[u],
               toClient'[link[u]] = toClient[link[u]], NEW v
        PROVE  Sees(u, v)' <=> Sees(u, v)
    BY <1>4 DEF Sees
  <1>5. \A u \in User : link[u] # NoSocket => link[u] \in Socket
    BY <1>0, LinksAreOwn
  <1>6. ASSUME NEW w \in User, Connect(w) PROVE Sound'
    <2>1. PICK s \in Socket :
             /\ link[w] = NoSocket /\ link'[w] = s
             /\ connected' = connected \cup {s} /\ mapid' = mapid
             /\ toClient' = toClient /\ toClient[s] = <<>>
             /\ \A v \in User : v # w => link'[v] = link[v]
             /\ activeMap' = activeMap /\ mapId' = mapId /\ loading' = loading
             /\ participants' = participants /\ losses' = losses /\ s # NoSocket
      BY <1>0, <1>6, ConnectIs
    <2>2. \A u \in User : OnMap(u)' <=> OnMap(u)
      BY <2>1, OnMapStays
    <2>3. \A u \in User : losses'[u] = 0 /\ link'[u] = NoSocket => participants'[u] = {}
      BY <2>1 DEF Sound
    <2>4. ASSUME NEW u \in User, NEW v \in User, v # u,
                 losses'[u] = 0, link'[u] # NoSocket, OnMap(u)', Sees(u, v)'
          PROVE  Here(u, v)'
      <3>1. CASE u = w
        <4>1. participants'[u] = {} /\ toClient'[link'[u]] = <<>>
          BY <2>1, <2>4, <3>1 DEF Sound
        <4>2. Sees(u, v)' <=> v \in participants'[u]
          <5> DEFINE known == v \in participants'[u]
          <5>1. Sees(u, v)' <=> Listed(known, <<>>, v)
            BY <4>1 DEF Sees
          <5> HIDE DEF known
          <5>2. Listed(known, <<>>, v) <=> known
            BY ListedNow
          <5> QED
            BY <5>1, <5>2 DEF known
        <4> QED
          BY <2>4, <4>1, <4>2
      <3>2. CASE u # w
        <4>1. Sees(u, v)' <=> Sees(u, v)
          BY <1>4, <2>1, <3>2
        <4> QED
          BY <1>3, <2>1, <2>2, <2>4, <3>2, <4>1
      <3> QED
        BY <3>1, <3>2
    <2> QED
      BY <1>1, <2>1, <2>3, <2>4
  <1>7. ASSUME NEW w \in User, Lose(w) PROVE Sound'
    <2>1. /\ link[w] # NoSocket /\ link[w] \in Socket /\ link'[w] = NoSocket /\ losses'[w] > 0
          /\ \A s \in Socket : s # link[w] => toClient'[s] = toClient[s]
          /\ \A v \in User : v # w => /\ link'[v] = link[v] /\ losses'[v] = losses[v]
                                      /\ link[v] # link[w]
          /\ activeMap' = activeMap /\ mapId' = mapId /\ loading' = loading
          /\ participants' = participants /\ connected' = connected /\ mapid' = mapid
      BY <1>0, <1>7, LoseIs
    <2>2. \A u \in User : OnMap(u)' <=> OnMap(u)
      BY <2>1, OnMapStays
    <2>3. ASSUME NEW u \in User, losses'[u] = 0, link'[u] = NoSocket PROVE participants'[u] = {}
      <3>1. u # w
        BY <2>1, <2>3
      <3> QED
        BY <2>1, <2>3, <3>1 DEF Sound
    <2>4. ASSUME NEW u \in User, NEW v \in User, v # u,
                 losses'[u] = 0, link'[u] # NoSocket, OnMap(u)', Sees(u, v)'
          PROVE  Here(u, v)'
      <3>1. u # w
        BY <2>1, <2>4
      <3>2. link'[u] = link[u] /\ toClient'[link[u]] = toClient[link[u]]
        BY <1>5, <2>1, <2>4, <3>1
      <3>3. Sees(u, v)' <=> Sees(u, v)
        BY <1>4, <2>1, <3>2
      <3> QED
        BY <1>3, <2>1, <2>2, <2>4, <3>1, <3>3
    <2> QED
      BY <1>1, <2>1, <2>3, <2>4
  <1>8. ASSUME NEW w \in User, NEW m \in Map \cup {NoMap}, Navigate(w, m) PROVE Sound'
    <2>1. /\ ~OnMap(w)'
          /\ \A v \in User : v # w => (OnMap(v)' <=> OnMap(v))
          /\ NothingFromServer /\ link' = link /\ participants' = participants
          /\ toClient' = toClient /\ losses' = losses
      BY <1>0, <1>8, NavigateIs
    <2>2. mapid' = mapid /\ connected' = connected
      BY <2>1, StillThere
    <2>3. \A u, v : Sees(u, v)' <=> Sees(u, v)
      BY <1>4, <2>1
    <2>4. ASSUME NEW u \in User, NEW v \in User, v # u,
                 losses'[u] = 0, link'[u] # NoSocket, OnMap(u)', Sees(u, v)'
          PROVE  Here(u, v)'
      <3>1. u # w
        BY <2>1, <2>4
      <3> QED
        BY <1>3, <2>1, <2>2, <2>3, <2>4, <3>1
    <2> QED
      BY <1>1, <2>1, <2>4 DEF Sound
  <1>9. ASSUME NEW w \in User, NEW m \in Map, Loaded(w, m) PROVE Sound'
    <2>1. /\ participants'[w] = {}
          /\ \A v \in User : v # w => /\ OnMap(v)' <=> OnMap(v)
                                      /\ participants'[v] = participants[v]
          /\ NothingFromServer /\ link' = link
          /\ toClient' = toClient /\ losses' = losses
          /\ ~Leaving(w)
      BY <1>0, <1>9, LoadedIs
    <2>2. mapid' = mapid /\ connected' = connected
      BY <2>1, StillThere
    <2>3. \A u \in User : losses'[u] = 0 /\ link'[u] = NoSocket => participants'[u] = {}
      BY <2>1 DEF Sound
    <2>4. ASSUME NEW u \in User, NEW v \in User, v # u,
                 losses'[u] = 0, link'[u] # NoSocket, OnMap(u)', Sees(u, v)'
          PROVE  Here(u, v)'
      <3>1. CASE u = w
        <4>1. toClient'[link'[u]] = <<>>
          BY <2>1, <2>4, <3>1 DEF Leaving
        <4>2. Sees(u, v)' <=> v \in participants'[u]
          <5> DEFINE known == v \in participants'[u]
          <5>1. Sees(u, v)' <=> Listed(known, <<>>, v)
            BY <4>1 DEF Sees
          <5> HIDE DEF known
          <5>2. Listed(known, <<>>, v) <=> known
            BY ListedNow
          <5> QED
            BY <5>1, <5>2 DEF known
        <4> QED
          BY <2>1, <2>4, <3>1, <4>2
      <3>2. CASE u # w
        <4>1. Sees(u, v)' <=> Sees(u, v)
          BY <1>4, <2>1, <3>2
        <4> QED
          BY <1>3, <2>1, <2>2, <2>4, <3>2, <4>1
      <3> QED
        BY <3>1, <3>2
    <2>5. \A u \in User : u \in participants'[u] => u \in participants[u]
      BY <2>1
    <2> QED
      BY <1>1, <2>3, <2>4, <2>5
  <1>10. ASSUME NEW w \in User, StayingEvent(w) PROVE Sound'
    <2>1. /\ NothingFromServer /\ link' = link
          /\ \A u \in User : OnMap(u)' <=> OnMap(u)
      BY <1>0, <1>10, StayingStays, OnMapStays DEF Stays, pageVars
    <2>2. mapid' = mapid /\ connected' = connected
      BY <2>1, StillThere
    <2>3. losses' = losses
      BY <1>0, <1>10, StayingIs, ReceiveIs
    <2>4. \A u \in User : u \in participants'[u] => u \in participants[u]
      BY <1>0, <1>10, StayingIs, ReceiveIs, ReceiveLists
    <2>5. \A u \in User : link'[u] = NoSocket => participants'[u] = participants[u]
      <3>1. CASE Receive(w)
        <4>1. link[w] # NoSocket
          BY <1>0, <3>1, ReceiveIs, NoSocketAssumption
        <4> QED
          BY <1>0, <2>1, <3>1, <4>1, ReceiveIs
      <3> QED
        BY <1>10, <3>1, StayingIs
    <2>6. ASSUME NEW u \in User, NEW v \in User, v # u,
                 losses'[u] = 0, link'[u] # NoSocket, OnMap(u)', Sees(u, v)'
          PROVE  Here(u, v)'
      <3>1. Sees(u, v)' <=> Sees(u, v)
        BY <1>0, <1>10, <2>1, <2>6, StayingSees
      <3> QED
        BY <1>3, <2>1, <2>2, <2>3, <2>6, <3>1
    <2>7. \A u \in User : losses'[u] = 0 /\ link'[u] = NoSocket => participants'[u] = {}
      BY <2>1, <2>3, <2>5 DEF Sound
    <2> QED
      BY <1>1, <2>4, <2>6, <2>7
  <1>11. ASSUME NEW s \in Socket, Handle(s) PROVE Sound'
    <2>1. /\ link' = link /\ participants' = participants /\ losses' = losses
          /\ \A u \in User : OnMap(u)' <=> OnMap(u)
      BY <1>0, <1>11, HandleOut, OnMapStays
    <2>2. ASSUME NEW u \in User, NEW v \in User, v # u,
                 losses'[u] = 0, link'[u] # NoSocket, OnMap(u)', Sees(u, v)'
          PROVE  Here(u, v)'
      <3>1. link[u] # NoSocket /\ OnMap(u) /\ (Sees(u, v) => Here(u, v))
        BY <1>2, <2>1, <2>2
      <3> QED
        BY <1>0, <1>11, <2>2, <3>1, HandleSound
    <2> QED
      BY <1>1, <2>1, <2>2 DEF Sound
  <1>12. ASSUME NEW s \in Socket, Disconnect(s) PROVE Sound'
    <2>1. /\ link' = link /\ participants' = participants /\ losses' = losses
          /\ \A u \in User : OnMap(u)' <=> OnMap(u)
      BY <1>0, <1>12, DisconnectOut, OnMapStays
    <2>2. ASSUME NEW u \in User, NEW v \in User, v # u,
                 losses'[u] = 0, link'[u] # NoSocket, OnMap(u)', Sees(u, v)'
          PROVE  Here(u, v)'
      <3>1. link[u] # NoSocket /\ (Sees(u, v) => Here(u, v))
        BY <1>2, <2>1, <2>2
      <3> QED
        BY <1>0, <1>12, <2>2, <3>1, DisconnectSound
    <2> QED
      BY <1>1, <2>1, <2>2 DEF Sound
  <1>13. CASE UNCHANGED vars
    <2>1. /\ link' = link /\ participants' = participants /\ losses' = losses
          /\ toClient' = toClient /\ mapid' = mapid /\ connected' = connected
          /\ activeMap' = activeMap /\ mapId' = mapId /\ loading' = loading
      BY <1>13 DEF vars, netVars, peopleVars, pageVars, serverVars
    <2>2. \A u \in User : OnMap(u)' <=> OnMap(u)
      BY <2>1, OnMapStays
    <2>3. \A u, v : Sees(u, v)' <=> Sees(u, v)
      BY <2>1 DEF Sees
    <2> QED
      BY <1>1, <1>3, <2>1, <2>2, <2>3 DEF Sound
  <1> QED
    BY <1>6, <1>7, <1>8, <1>9, <1>10, <1>11, <1>12, <1>13, NextIs

\* At first nobody is listed.
LEMMA SoundInit == Init => Sound
  BY DEF Init, Sound

-----------------------------------------------------------------------------
\* Pages on one map list each other, or will.

\* Whatever is missing is on its way.
WillSee(u, v) ==
    \/ Sees(u, v)
    \/ JoinComes(u)
    \/ JoinComes(v)
    \/ HearsOf(v, u)
    \/ AnswerComes(v, u)

Together(u, v) ==
    /\ u # v /\ link[u] # NoSocket /\ link[v] # NoSocket
    /\ OnMap(u) /\ OnMap(v) /\ activeMap[u] = activeMap[v]

Complete == \A u, v \in User : Together(u, v) => WillSee(u, v)

\* Nothing is taken from what u and v have to say and to hear.
LEMMA WillSeeKept ==
    ASSUME NEW u \in User, NEW v \in User, WillSee(u, v),
           Sees(u, v) => Sees(u, v)',
           In(Out(u)) \subseteq In(Out(u))', In(Out(v)) \subseteq In(Out(v))',
           In(toClient[link[v]]) \subseteq In(toClient[link[v]])',
           activeMap'[u] = activeMap[u]
    PROVE  WillSee(u, v)'
  <1>1. /\ JoinComes(u) => JoinComes(u)'
        /\ JoinComes(v) => JoinComes(v)'
        /\ HearsOf(v, u) => HearsOf(v, u)'
        /\ AnswerComes(v, u) => AnswerComes(v, u)'
    <2>1. /\ JoinComes(u) <=> \E x \in In(Out(u)) : Joins(x)
          /\ JoinComes(v) <=> \E x \in In(Out(v)) : Joins(x)
          /\ AnswerComes(v, u) <=> \E x \in In(Out(v)) : /\ x.type = "SEND_MAPPER_INFO"
                                                        /\ x.peer = u /\ x.map = activeMap[u]
          /\ HearsOf(v, u) <=> \E x \in In(toClient[link[v]]) : x.type = "NEW_MAPPER" /\ x.about = u
      BY ComesIs
    <2>2. /\ JoinComes(u)' <=> \E x \in In(Out(u))' : Joins(x)
          /\ JoinComes(v)' <=> \E x \in In(Out(v))' : Joins(x)
          /\ AnswerComes(v, u)' <=> \E x \in In(Out(v))' : /\ x.type = "SEND_MAPPER_INFO"
                                                          /\ x.peer = u /\ x.map = activeMap'[u]
          /\ HearsOf(v, u)' <=> \E x \in In(toClient[link[v]])' : x.type = "NEW_MAPPER" /\ x.about = u
      BY DEF JoinComes, AnswerComes, HearsOf, In
    <2> QED
      BY <2>1, <2>2
  <1> QED
    BY <1>1 DEF WillSee

\* What is said is added to what is there already.
LEMMA SendAdds ==
    ASSUME Types, NEW w \in User, NEW c \in Seq(Message), Send(w, c), link' = link
    PROVE  /\ \A u \in User : In(Out(u)) \subseteq In(Out(u))'
           /\ In(c) \subseteq In(Out(w))'
  <1> DEFINE q == Out(w)
  <1>1. q \in Seq(Message)
    BY OrderParts
  <1>2. Out(w)' = q \o c /\ \A u \in User : u # w => Out(u)' = Out(u)
    BY SendIs
  <1> HIDE DEF q
  <1>3. In(q \o c) = In(q) \cup In(c)
    BY <1>1, ConcatOnce
  <1>4. In(Out(w))' = In(q) \cup In(c)
    BY <1>2, <1>3 DEF In
  <1>5. In(Out(w)) = In(q)
    BY DEF q
  <1>6. \A u \in User : u # w => In(Out(u))' = In(Out(u))
    BY <1>2 DEF In
  <1> QED
    BY <1>4, <1>5, <1>6

\* The pages on their maps whose connections are not have something to say.
Pending ==
    \A u \in User :
        OnMap(u) /\ link[u] # NoSocket /\ mapid[link[u]] # activeMap[u] => JoinComes(u)

\* In the state after a step too.
LEMMA PendingThen == (OrderInvariant /\ Calm)' => Pending'
  <1>1. OrderInvariant /\ Calm => Pending
    BY JoinPending DEF Pending
  <1> QED
    BY <1>1, PTL

\* A page that takes a NEW_MAPPER about another on its map answers.
LEMMA ReceiveAnswers ==
    ASSUME Types, NEW v \in User, Receive(v), chat[v], activeMap[v] \in Map,
           NEW u \in User, u # v,
           Head(toClient[link[v]]).type = "NEW_MAPPER", Head(toClient[link[v]]).about = u
    PROVE  \E x \in In(Out(v))' : /\ x.type = "SEND_MAPPER_INFO"
                                  /\ x.peer = u /\ x.map = activeMap[v]
  <1>1. NewMapper(v, u)
    BY DEF Receive, Ignored
  <1> DEFINE x == Say("SEND_MAPPER_INFO", activeMap[v], u, inConversation[v])
             n == Handlers(v)
  <1>2. x \in Message /\ n \in Nat \ {0}
    <2>1. inConversation[v] \in BOOLEAN /\ losses[v] \in Nat
      BY DEF Types, CallTypes, NetTypes
    <2>2. x \in Message
      BY <2>1, SayTypes DEF Passed
    <2> QED
      BY <2>1, <2>2 DEF Handlers
  <1> DEFINE c == Repeat(<<x>>, n)
  <1>3. Send(v, c)
    BY <1>1, KeyAssumption DEF NewMapper, Details
  <1>4. x.type = "SEND_MAPPER_INFO" /\ x.peer = u /\ x.map = activeMap[v]
    BY DEF Say
  <1>5. link' = link
    BY ReceiveIs
  <1> HIDE DEF x, n
  <1>6. x \in In(c) /\ c \in Seq(Message)
    BY <1>2, RepeatSays
  <1> HIDE DEF c
  <1>7. In(c) \subseteq In(Out(v))'
    BY <1>3, <1>5, <1>6, SendAdds
  <1> QED
    BY <1>4, <1>6, <1>7

\* An event of page w that leaves it where it is.
LEMMA StayingWillSee ==
    ASSUME Types, ChatInv, NEW w \in User, StayingEvent(w), Peaceful',
           NEW u \in User, NEW v \in User, Together(u, v), WillSee(u, v)
    PROVE  WillSee(u, v)'
  <1>0. /\ u # v /\ link[u] # NoSocket /\ link[v] # NoSocket /\ OnMap(u) /\ OnMap(v)
        /\ activeMap[u] = activeMap[v] /\ activeMap[v] \in Map
    BY DEF Together, OnMap, Types, PageTypes
  <1>1. link' = link /\ activeMap' = activeMap
    BY StayingStays DEF Stays, pageVars
  <1>2. \A k \in User : In(Out(k)) \subseteq In(Out(k))'
    <2>1. PICK c \in Seq(Message) : Send(w, c)
      BY StayingStays, StaysIs
    <2> QED
      BY <1>1, <2>1, SendAdds
  <1>3. Sees(u, v)' <=> Sees(u, v)
    BY <1>0, StayingSees
  <1>4. CASE Receive(w) /\ w = v
    <2> DEFINE q == toClient[link[v]]
    <2>1. q \in Seq(Notice) /\ q # <<>> /\ toClient'[link[v]] = Tail(q)
      BY <1>4, ReceiveIs
    <2>2. In(q) = {Head(q)} \cup In(Tail(q))
      <3> HIDE DEF q
      <3> QED
        BY <2>1, InTail
    <2>3. chat[v]
      BY <1>0, ChatIsThere
    <2>4. CASE \E x \in In(q) : x.type = "NEW_MAPPER" /\ x.about = u
      <3>1. CASE Head(q).type = "NEW_MAPPER" /\ Head(q).about = u
        <4>1. \E x \in In(Out(v))' : /\ x.type = "SEND_MAPPER_INFO"
                                     /\ x.peer = u /\ x.map = activeMap[v]
          BY <1>0, <1>4, <2>3, <3>1, ReceiveAnswers
        <4>2. AnswerComes(v, u)'
          BY <1>0, <1>1, <4>1 DEF AnswerComes, In
        <4> QED
          BY <4>2 DEF WillSee
      <3>2. CASE ~(Head(q).type = "NEW_MAPPER" /\ Head(q).about = u)
        <4>1. \E x \in In(Tail(q)) : x.type = "NEW_MAPPER" /\ x.about = u
          BY <2>2, <2>4, <3>2
        <4>2. HearsOf(v, u)'
          BY <1>1, <2>1, <4>1 DEF HearsOf, In
        <4> QED
          BY <4>2 DEF WillSee
      <3> QED
        BY <3>1, <3>2
    <2>5. CASE ~\E x \in In(q) : x.type = "NEW_MAPPER" /\ x.about = u
      <3>1. ~HearsOf(v, u)
        BY <2>5, ComesIs
      <3>2. WillSee(u, v) => \/ Sees(u, v) \/ JoinComes(u) \/ JoinComes(v) \/ AnswerComes(v, u)
        BY <3>1 DEF WillSee
      <3>3. /\ JoinComes(u) => JoinComes(u)'
            /\ JoinComes(v) => JoinComes(v)'
            /\ AnswerComes(v, u) => AnswerComes(v, u)'
        <4>1. /\ In(Out(u)) \subseteq In(Out(u))' /\ In(Out(v)) \subseteq In(Out(v))'
              /\ activeMap'[u] = activeMap[u]
          BY <1>1, <1>2
        <4> QED
          BY <4>1 DEF JoinComes, AnswerComes, In
      <3> QED
        BY <1>3, <3>2, <3>3 DEF WillSee
    <2> QED
      BY <2>4, <2>5
  <1>5. CASE ~(Receive(w) /\ w = v)
    <2>1. toClient'[link[v]] = toClient[link[v]]
      <3>1. CASE Receive(w) /\ w # v
        <4>1. link[w] # link[v] /\ link[v] \in Socket
          BY <1>0, <3>1, LinksAreOwn
        <4> QED
          BY <3>1, <4>1, ReceiveIs
      <3> QED
        BY <1>5, <3>1, StayingIs
    <2>2. In(toClient[link[v]]) \subseteq In(toClient[link[v]])'
      BY <1>1, <2>1 DEF In
    <2> QED
      BY <1>1, <1>2, <1>3, <2>2, WillSeeKept
  <1> QED
    BY <1>4, <1>5

\* The server takes a message.
LEMMA HandleWillSee ==
    ASSUME OrderInvariant, OrderInvariant', Calm, Calm', Lists, Single, RoomInv, StayInv,
           NEW s \in Socket, Handle(s),
           NEW u \in User, NEW v \in User, Together(u, v), Together(u, v)', WillSee(u, v)
    PROVE  WillSee(u, v)'
  <1> DEFINE e == Head(toServer[s])
             m == activeMap[u]
  <1>0. /\ u # v /\ link[u] # NoSocket /\ link[v] # NoSocket /\ OnMap(u) /\ OnMap(v)
        /\ activeMap[u] = activeMap[v] /\ OnMap(u)' /\ OnMap(v)'
        /\ link'[u] # NoSocket /\ link'[v] # NoSocket
    BY DEF Together
  <1>1. /\ Types /\ P!TypeOK'
        /\ \A w \in User : Out(w) \in Seq(Message)
        /\ m \in Map /\ m # NoMap
    BY <1>0, OrderParts, KeyAssumption DEF OrderInvariant, Types, OnMap
  <1>2. /\ link' = link /\ participants' = participants /\ activeMap' = activeMap
        /\ e \in Message /\ toServer[s] # <<>> /\ Deliver(e.talking) /\ e.talking \in BOOLEAN
        /\ \A w \in User : Out(w)' = IF link[w] = s THEN Tail(Out(w)) ELSE Out(w)
        /\ \A w \in User : link[w] = s => Out(w) = toServer[s]
    BY <1>1, HandleIs, HandleOut DEF Message
  <1>3. PICK t \in Socket : t = link[u] /\ t = link'[u] /\ Owner[t] = u /\ t \in connected
    BY <1>0, <1>1, <1>2, LinksAreOwn
  <1>4. PICK r \in Socket : r = link[v] /\ r = link'[v] /\ Owner[r] = v /\ r \in connected
    BY <1>0, <1>1, <1>2, LinksAreOwn
  <1>5. /\ \A w \in Socket : w # s => mapid'[w] = mapid[w]
        /\ mapid'[s] = IF Leaves(e) THEN NoMap ELSE IF Joins(e) THEN e.map ELSE mapid[s]
        /\ s \in connected
    BY HandleMaps
  <1>6. \A k \in Socket, x \in User :
           /\ Tells(k, "NEW_MAPPER", x)' <=> /\ Joins(e) /\ x = Owner[s]
                                             /\ k # s /\ k \in connected /\ mapid[k] = e.map
           /\ Tells(k, "LOST_MAPPER", x)' <=> /\ Leaves(e) /\ mapid[s] # NoMap /\ x = Owner[s]
                                              /\ k # s /\ k \in connected /\ mapid[k] = mapid[s]
           /\ Tells(k, "MAPPER_LIST_UPDATED", x)' <=>
                 /\ e.type = "SEND_MAPPER_INFO" /\ x = Owner[s]
                 /\ k # s /\ k \in connected /\ mapid[k] = e.map /\ Owner[k] = e.peer
    BY WhoHears
  <1>7. /\ Added(t, v)' /\ ~Lost(t, v)' => Sees(u, v)'
        /\ ~Added(t, v)' /\ ~Lost(t, v)' => (Sees(u, v)' <=> Sees(u, v))
    BY <1>0, <1>1, <1>2, <1>3, DeliverSees
  <1>8. HearsOf(v, u) \/ Tells(r, "NEW_MAPPER", u)' => HearsOf(v, u)'
    BY <1>0, <1>1, <1>2, <1>4, DeliverSees
  <1>9. \A w \in User : link[w] = s =>
           /\ In(Out(w)) = {e} \cup In(Out(w))'
           /\ OnMap(w) => ~Leaves(e)
           /\ OnMap(w) /\ Joins(e) => e.map = activeMap[w]
    <2> SUFFICES ASSUME NEW w \in User, link[w] = s
                 PROVE  /\ In(Out(w)) = {e} \cup In(Out(w))'
                        /\ OnMap(w) => ~Leaves(e)
                        /\ OnMap(w) /\ Joins(e) => e.map = activeMap[w]
      OBVIOUS
    <2> DEFINE q == Out(w)
    <2>1. q \in Seq(Message) /\ q # <<>> /\ Head(q) = e /\ Out(w)' = Tail(q)
      BY <1>1, <1>2
    <2>2. OnMap(w) => \A k \in 1..Len(q) : ~Leaves(q[k])
      BY DEF StayInv
    <2>3. OnMap(w) /\ Joins(e) => e.map = activeMap[w]
      BY <1>2, JoinIsOwn, NoSocketAssumption
    <2> HIDE DEF q, e
    <2>4. Head(q) = q[1] /\ 1 \in 1..Len(q)
      BY <2>1, HeadTailProperties, EmptySeq, LenProperties
    <2>5. In(q) = {e} \cup In(Tail(q))
      BY <2>1, InTail
    <2>6. In(Out(w))' = In(Tail(q))
      BY <2>1 DEF In
    <2>7. OnMap(w) => ~Leaves(e)
      BY <2>1, <2>2, <2>4
    <2> QED
      BY <2>3, <2>5, <2>6, <2>7 DEF q
  <1>10. \A w \in User : link[w] # s => In(Out(w))' = In(Out(w))
    BY <1>2 DEF In
  <1> HIDE DEF e
  <1>11. CASE mapid'[t] # m \/ mapid'[r] # m
    <2>1. mapid'[t] # m => JoinComes(u)'
      BY <1>0, <1>2, <1>3, PendingThen DEF Pending
    <2>2. mapid'[r] # m => JoinComes(v)'
      BY <1>0, <1>2, <1>4, PendingThen DEF Pending
    <2> QED
      BY <1>11, <2>1, <2>2 DEF WillSee
  <1>12. CASE mapid'[t] = m /\ mapid'[r] = m
    <2>1. t # r
      BY <1>0, <1>3, <1>4
    <2>2. ~Lost(t, v)'
      <3> SUFFICES ASSUME Lost(t, v)' PROVE FALSE
        OBVIOUS
      <3>1. /\ Leaves(e) /\ mapid[s] # NoMap /\ v = Owner[s]
            /\ t # s /\ mapid[t] = mapid[s]
        BY <1>6 DEF Lost
      <3>2. CASE s = r
        BY <1>0, <1>4, <1>9, <3>1, <3>2
      <3>3. CASE s # r
        <4>1. mapid[t] = m /\ mapid[r] = m
          BY <1>5, <1>12, <3>1, <3>3
        <4> QED
          BY <1>1, <1>4, <1>5, <3>1, <3>3, <4>1 DEF Single
      <3> QED
        BY <3>2, <3>3
    <2>3. Sees(u, v) \/ Added(t, v)' => Sees(u, v)'
      BY <1>7, <2>2
    <2>4. CASE JoinComes(u)
      <3>1. PICK x \in In(Out(u)) : Joins(x)
        BY <2>4, ComesIs
      <3>2. CASE x \in In(Out(u))'
        <4>1. JoinComes(u)'
          BY <3>1, <3>2 DEF JoinComes, In
        <4> QED
          BY <4>1 DEF WillSee
      <3>3. CASE x \notin In(Out(u))'
        <4>1. t = s /\ x = e
          BY <1>3, <1>9, <1>10, <3>1, <3>3
        <4>2. Joins(e) /\ e.map = m
          BY <1>0, <1>3, <1>9, <3>1, <4>1
        <4>3. mapid[r] = m
          BY <1>5, <1>12, <2>1, <4>1
        <4>4. Tells(r, "NEW_MAPPER", u)'
          BY <1>3, <1>4, <1>6, <2>1, <4>1, <4>2, <4>3
        <4> QED
          BY <1>8, <4>4 DEF WillSee
      <3> QED
        BY <3>2, <3>3
    <2>5. CASE JoinComes(v)
      <3>1. PICK x \in In(Out(v)) : Joins(x)
        BY <2>5, ComesIs
      <3>2. CASE x \in In(Out(v))'
        <4>1. JoinComes(v)'
          BY <3>1, <3>2 DEF JoinComes, In
        <4> QED
          BY <4>1 DEF WillSee
      <3>3. CASE x \notin In(Out(v))'
        <4>1. r = s /\ x = e
          BY <1>4, <1>9, <1>10, <3>1, <3>3
        <4>2. Joins(e) /\ e.map = m
          BY <1>0, <1>4, <1>9, <3>1, <4>1
        <4>3. mapid[t] = m
          BY <1>5, <1>12, <2>1, <4>1
        <4>4. Added(t, v)'
          BY <1>3, <1>4, <1>6, <2>1, <4>1, <4>2, <4>3 DEF Added
        <4> QED
          BY <2>3, <4>4 DEF WillSee
      <3> QED
        BY <3>2, <3>3
    <2>6. CASE AnswerComes(v, u)
      <3>1. PICK x \in In(Out(v)) : x.type = "SEND_MAPPER_INFO" /\ x.peer = u /\ x.map = m
        BY <2>6, ComesIs
      <3>2. CASE x \in In(Out(v))'
        <4>1. AnswerComes(v, u)'
          BY <1>2, <3>1, <3>2 DEF AnswerComes, In
        <4> QED
          BY <4>1 DEF WillSee
      <3>3. CASE x \notin In(Out(v))'
        <4>1. r = s /\ x = e
          BY <1>4, <1>9, <1>10, <3>1, <3>3
        <4>2. mapid[t] = m
          BY <1>5, <1>12, <2>1, <4>1
        <4>3. Added(t, v)'
          BY <1>3, <1>4, <1>6, <2>1, <3>1, <4>1, <4>2 DEF Added
        <4> QED
          BY <2>3, <4>3 DEF WillSee
      <3> QED
        BY <3>2, <3>3
    <2> QED
      BY <1>8, <2>3, <2>4, <2>5, <2>6 DEF WillSee
  <1> QED
    BY <1>11, <1>12

\* The server finds a connection gone.
LEMMA DisconnectWillSee ==
    ASSUME OrderInvariant, OrderInvariant', Calm', Lists, Single, RoomInv,
           NEW s \in Socket, Disconnect(s),
           NEW u \in User, NEW v \in User, Together(u, v), Together(u, v)', WillSee(u, v)
    PROVE  WillSee(u, v)'
  <1> DEFINE m == activeMap[u]
  <1>0. /\ u # v /\ link[u] # NoSocket /\ link[v] # NoSocket /\ OnMap(u) /\ OnMap(v)
        /\ activeMap[u] = activeMap[v] /\ OnMap(u)' /\ OnMap(v)'
        /\ link'[u] # NoSocket /\ link'[v] # NoSocket
    BY DEF Together
  <1>1. Types /\ P!TypeOK' /\ Deliver(FALSE) /\ m # NoMap
    BY <1>0 DEF OrderInvariant, Types, Disconnect, OnMap
  <1>2. /\ link' = link /\ participants' = participants /\ activeMap' = activeMap
        /\ \A w \in User : link[w] # s /\ Out(w)' = Out(w)
        /\ mapid' = [mapid EXCEPT ![s] = NoMap] /\ s \in connected
    BY <1>1, DisconnectOut
  <1>3. PICK t \in Socket : t = link[u] /\ t = link'[u] /\ t # s /\ t \in connected
    BY <1>0, <1>1, <1>2, LinksAreOwn
  <1>4. PICK r \in Socket : r = link[v] /\ r = link'[v] /\ Owner[r] = v /\ r # s /\ r \in connected
    BY <1>0, <1>1, <1>2, LinksAreOwn
  <1>5. \A w \in Socket : w # s => mapid'[w] = mapid[w]
    BY <1>1, <1>2 DEF Types, P!TypeOK
  <1>6. /\ ~Added(t, v)'
        /\ Lost(t, v)' => mapid[s] # NoMap /\ v = Owner[s] /\ mapid[t] = mapid[s]
    BY WhoHearsOfLoss DEF Added, Lost
  <1>7. ~Added(t, v)' /\ ~Lost(t, v)' => (Sees(u, v)' <=> Sees(u, v))
    BY <1>0, <1>1, <1>2, <1>3, DeliverSees
  <1>8. HearsOf(v, u) => HearsOf(v, u)'
    BY <1>0, <1>1, <1>2, <1>4, DeliverSees
  <1>9. CASE mapid'[t] # m \/ mapid'[r] # m
    <2>1. mapid'[t] # m => JoinComes(u)'
      BY <1>0, <1>2, <1>3, PendingThen DEF Pending
    <2>2. mapid'[r] # m => JoinComes(v)'
      BY <1>0, <1>2, <1>4, PendingThen DEF Pending
    <2> QED
      BY <1>9, <2>1, <2>2 DEF WillSee
  <1>10. CASE mapid'[t] = m /\ mapid'[r] = m
    <2>1. mapid[t] = m /\ mapid[r] = m
      BY <1>3, <1>4, <1>5, <1>10
    <2>2. ~Lost(t, v)'
      BY <1>1, <1>2, <1>4, <1>6, <2>1 DEF Single
    <2>3. Sees(u, v) => Sees(u, v)'
      BY <1>6, <1>7, <2>2
    <2>4. /\ JoinComes(u) => JoinComes(u)'
          /\ JoinComes(v) => JoinComes(v)'
          /\ AnswerComes(v, u) => AnswerComes(v, u)'
      BY <1>2 DEF JoinComes, AnswerComes
    <2> QED
      BY <1>8, <2>3, <2>4 DEF WillSee
  <1> QED
    BY <1>9, <1>10

\* Every step keeps on its way what is missing in the lists of the pages.
LEMMA CompleteStep ==
    ASSUME OrderInvariant, OrderInvariant', Lists, Background, Complete, [Next]_vars, Peaceful'
    PROVE  Complete'
  <1>0. /\ Types /\ NetInv /\ Peaceful /\ Calm /\ Calm' /\ Single
        /\ HeardInv /\ ChatInv /\ RoomInv /\ StayInv
    <2>1. Types /\ NetInv
      BY DEF OrderInvariant
    <2>2. Peaceful
      BY <2>1, PeaceBefore
    <2>3. Calm /\ Calm' /\ Undoubled
      BY <2>2 DEF Peaceful, Calm, Undoubled
    <2> QED
      BY <2>1, <2>2, <2>3 DEF Background, Lists
  <1> SUFFICES ASSUME NEW u \in User, NEW v \in User, Together(u, v)'
               PROVE  WillSee(u, v)'
    BY DEF Complete
  <1>1. /\ u # v /\ link'[u] # NoSocket /\ link'[v] # NoSocket /\ OnMap(u)' /\ OnMap(v)'
        /\ activeMap'[u] = activeMap'[v]
    BY DEF Together
  \* What is as it was for pages u and v.
  <1>2. ASSUME link'[u] = link[u], link'[v] = link[v], OnMap(u), OnMap(v),
               activeMap'[u] = activeMap[u], activeMap'[v] = activeMap[v],
               participants'[u] = participants[u],
               toClient'[link[u]] = toClient[link[u]], toClient'[link[v]] = toClient[link[v]],
               In(Out(u)) \subseteq In(Out(u))', In(Out(v)) \subseteq In(Out(v))'
        PROVE  WillSee(u, v)'
    <2>1. WillSee(u, v)
      BY <1>1, <1>2 DEF Complete, Together
    <2>2. Sees(u, v) => Sees(u, v)'
      BY <1>2 DEF Sees
    <2>3. In(toClient[link[v]]) \subseteq In(toClient[link[v]])'
      BY <1>2 DEF In
    <2> QED
      BY <1>2, <2>1, <2>2, <2>3, WillSeeKept
  <1>3. \A k \in User : Out(k)' = Out(k) => In(Out(k)) \subseteq In(Out(k))'
    BY DEF In
  <1>4. ASSUME NEW c, NEW e, Joins(e), e \in In(c), Out(u)' = c \/ Out(v)' = c
        PROVE  WillSee(u, v)'
    <2>1. JoinComes(u)' \/ JoinComes(v)'
      BY <1>4 DEF JoinComes, In
    <2> QED
      BY <2>1 DEF WillSee
  <1>5. \A m \in Map : Joins(JoinMapMessage(m))
    BY DEF Joins, JoinMapMessage, Say
  <1>6. ASSUME NEW w \in User, Connect(w) PROVE WillSee(u, v)'
    <2>1. PICK s \in Socket :
             /\ toClient' = toClient /\ Out(w)' = Rejoin(w) \o sendBuffer[w]
             /\ \A k \in User : k # w => link'[k] = link[k] /\ Out(k)' = Out(k)
             /\ activeMap' = activeMap /\ mapId' = mapId /\ loading' = loading
             /\ participants' = participants
      BY <1>0, <1>6, ConnectIs
    <2>2. \A k \in User : OnMap(k)' <=> OnMap(k)
      BY <2>1, OnMapStays
    <2>3. CASE w \in {u, v}
      <3>1. activeMap[w] \in Map /\ activeMap[w] # NoMap
        BY <1>0, <1>1, <2>2, <2>3 DEF OnMap, Types, PageTypes
      <3> DEFINE x == JoinMapMessage(activeMap[w])
                 q == <<x>>
                 b == sendBuffer[w]
      <3>2. Rejoin(w) = q /\ q \in Seq(Message) /\ b \in Seq(Message)
        BY <1>0, <3>1, RejoinIs, OrderParts
      <3>3. x \in In(q) /\ Joins(x)
        BY <1>5, <3>1, InShort
      <3>4. Out(w)' = q \o b
        BY <2>1, <3>2
      <3> HIDE DEF x, q, b
      <3>5. x \in In(q \o b)
        BY <3>2, <3>3, ConcatOnce
      <3>6. Out(u)' = q \o b \/ Out(v)' = q \o b
        BY <2>3, <3>4
      <3> DEFINE c == q \o b
      <3>7. PICK c1, x1 : c1 = c /\ x1 = x
        OBVIOUS
      <3> HIDE DEF c
      <3>8. Joins(x1) /\ x1 \in In(c1) /\ (Out(u)' = c1 \/ Out(v)' = c1)
        BY <3>3, <3>5, <3>6, <3>7 DEF c
      <3> QED
        BY <1>4, <3>8
    <2>4. CASE w \notin {u, v}
      BY <1>1, <1>2, <1>3, <2>1, <2>2, <2>4
    <2> QED
      BY <2>3, <2>4
  <1>7. ASSUME NEW w \in User, Lose(w) PROVE WillSee(u, v)'
    <2>1. /\ link'[w] = NoSocket
          /\ \A s \in Socket : s # link[w] => toClient'[s] = toClient[s]
          /\ \A k \in User : k # w => /\ link'[k] = link[k] /\ link[k] # link[w]
                                      /\ Out(k)' = Out(k)
          /\ activeMap' = activeMap /\ mapId' = mapId /\ loading' = loading
          /\ participants' = participants
      BY <1>0, <1>7, LoseIs
    <2>2. \A k \in User : OnMap(k)' <=> OnMap(k)
      BY <2>1, OnMapStays
    <2>3. w \notin {u, v}
      BY <1>1, <2>1
    <2>4. link[u] \in Socket /\ link[v] \in Socket
      BY <1>0, <1>1, <2>1, <2>3, LinksAreOwn
    <2>5. toClient'[link[u]] = toClient[link[u]] /\ toClient'[link[v]] = toClient[link[v]]
      BY <2>1, <2>3, <2>4
    <2> QED
      BY <1>1, <1>2, <1>3, <2>1, <2>2, <2>3, <2>5
  <1>8. ASSUME NEW w \in User, NEW m \in Map \cup {NoMap}, Navigate(w, m) PROVE WillSee(u, v)'
    <2>1. /\ ~OnMap(w)'
          /\ \A k \in User : k # w => /\ OnMap(k)' <=> OnMap(k)
                                      /\ activeMap'[k] = activeMap[k]
          /\ Send(w, Farewell(w)) /\ link' = link /\ participants' = participants
          /\ toClient' = toClient
      BY <1>0, <1>8, NavigateIs
    <2>2. w \notin {u, v}
      BY <1>1, <2>1
    <2>3. \A k \in User : In(Out(k)) \subseteq In(Out(k))'
      <3>1. Farewell(w) \in Seq(Message)
        BY <1>0, FarewellIs
      <3> QED
        BY <1>0, <2>1, <3>1, SendAdds
    <2> QED
      BY <1>1, <1>2, <2>1, <2>2, <2>3
  <1>9. ASSUME NEW w \in User, NEW m \in Map, Loaded(w, m) PROVE WillSee(u, v)'
    <2>1. /\ \A k \in User : k # w => /\ OnMap(k)' <=> OnMap(k)
                                      /\ activeMap'[k] = activeMap[k]
                                      /\ participants'[k] = participants[k]
          /\ Send(w, <<JoinMapMessage(m)>>) /\ link' = link /\ toClient' = toClient
      BY <1>0, <1>9, LoadedIs
    <2>2. /\ \A k \in User : In(Out(k)) \subseteq In(Out(k))'
          /\ \E x \in In(Out(w))' : Joins(x)
      <3> DEFINE x == JoinMapMessage(m)
                 c == <<x>>
      <3>1. x \in Message /\ Joins(x) /\ x \in In(c)
        BY <1>5, SayTypes, InShort
      <3>2. c \in Seq(Message)
        BY <3>1
      <3>3. Send(w, c)
        BY <2>1
      <3> HIDE DEF x, c
      <3>4. (\A k \in User : In(Out(k)) \subseteq In(Out(k))') /\ In(c) \subseteq In(Out(w))'
        BY <1>0, <2>1, <3>2, <3>3, SendAdds
      <3> QED
        BY <3>1, <3>4
    <2>3. CASE w \in {u, v}
      <3>1. JoinComes(w)'
        BY <2>2 DEF JoinComes, In
      <3> QED
        BY <2>3, <3>1 DEF WillSee
    <2>4. CASE w \notin {u, v}
      BY <1>1, <1>2, <2>1, <2>2, <2>4
    <2> QED
      BY <2>3, <2>4
  <1>10. ASSUME NEW w \in User, StayingEvent(w) PROVE WillSee(u, v)'
    <2>1. /\ link' = link /\ activeMap' = activeMap
          /\ \A k \in User : OnMap(k)' <=> OnMap(k)
      BY <1>0, <1>10, StayingStays, OnMapStays DEF Stays, pageVars
    <2>2. Together(u, v)
      BY <1>1, <2>1 DEF Together
    <2>3. WillSee(u, v)
      BY <2>2 DEF Complete
    <2> QED
      BY <1>0, <1>10, <2>2, <2>3, StayingWillSee
  <1>11. ASSUME NEW s \in Socket, Handle(s) PROVE WillSee(u, v)'
    <2>1. /\ link' = link /\ activeMap' = activeMap
          /\ \A k \in User : OnMap(k)' <=> OnMap(k)
      BY <1>0, <1>11, HandleOut, OnMapStays
    <2>2. Together(u, v)
      BY <1>1, <2>1 DEF Together
    <2>3. WillSee(u, v)
      BY <2>2 DEF Complete
    <2> QED
      BY <1>0, <1>11, <2>2, <2>3, HandleWillSee
  <1>12. ASSUME NEW s \in Socket, Disconnect(s) PROVE WillSee(u, v)'
    <2>1. /\ link' = link /\ activeMap' = activeMap
          /\ \A k \in User : OnMap(k)' <=> OnMap(k)
      BY <1>0, <1>12, DisconnectOut, OnMapStays
    <2>2. Together(u, v)
      BY <1>1, <2>1 DEF Together
    <2>3. WillSee(u, v)
      BY <2>2 DEF Complete
    <2> QED
      BY <1>0, <1>12, <2>2, <2>3, DisconnectWillSee
  <1>13. CASE UNCHANGED vars
    <2>1. /\ link' = link /\ participants' = participants /\ toClient' = toClient
          /\ activeMap' = activeMap /\ mapId' = mapId /\ loading' = loading
          /\ sendBuffer' = sendBuffer /\ toServer' = toServer
      BY <1>13 DEF vars, netVars, peopleVars, pageVars
    <2>2. (\A k \in User : OnMap(k)' <=> OnMap(k)) /\ \A k \in User : Out(k)' = Out(k)
      BY <2>1, OnMapStays DEF Out
    <2> QED
      BY <1>1, <1>2, <1>3, <2>1, <2>2
  <1> QED
    BY <1>6, <1>7, <1>8, <1>9, <1>10, <1>11, <1>12, <1>13, NextIs

\* At first nobody is connected.
LEMMA CompleteInit == Init => Complete
  <1> SUFFICES ASSUME Init, NEW u \in User PROVE link[u] = NoSocket
    BY DEF Complete, Together
  <1> QED
    BY DEF Init

\* When nothing is on its way, what a page will list is what it lists.
LEMMA QuietLists ==
    ASSUME OrderInvariant, Lists, Background, Sound, Complete, Quiet, Peaceful,
           NEW m \in Map, NEW u \in Showing(m)
    PROVE  /\ Showing(m) \ {u} \subseteq participants[u]
           /\ losses[u] = 0 => participants[u] \subseteq Showing(m) \ {u}
  <1>0. Types /\ Calm
    BY DEF OrderInvariant, Peaceful, Calm
  <1>1. \A v \in User : /\ link[v] # NoSocket /\ link[v] \in Socket
                        /\ link[v] \in connected /\ Owner[link[v]] = v
                        /\ activeMap[v] = mapId[v]
                        /\ \A k \in Map : mapid[link[v]] = k <=> activeMap[v] = k
    BY <1>0, QuietMaps, LinksAreOwn DEF Quiet
  <1>2. \A v \in User : Out(v) = <<>> /\ toClient[link[v]] = <<>>
    BY <1>1 DEF Quiet, Out
  <1>3. \A v \in User : OnMap(v) <=> activeMap[v] # NoMap
    BY <1>1 DEF Quiet, OnMap
  <1>4. ASSUME NEW v PROVE Sees(u, v) <=> v \in participants[u]
    <2> DEFINE known == v \in participants[u]
    <2>1. Sees(u, v) <=> Listed(known, <<>>, v)
      BY <1>2 DEF Sees, Showing
    <2> HIDE DEF known
    <2>2. Listed(known, <<>>, v) <=> known
      BY ListedNow
    <2> QED
      BY <2>1, <2>2 DEF known
  <1>5. u \in User /\ activeMap[u] = m /\ m # NoMap
    BY KeyAssumption DEF Showing
  <1>6. ASSUME NEW v \in Showing(m), v # u PROVE v \in participants[u]
    <2>1. v \in User /\ activeMap[v] = m
      BY DEF Showing
    <2>2. WillSee(u, v)
      BY <1>1, <1>3, <1>5, <1>6, <2>1 DEF Complete, Together
    <2>3. ~JoinComes(u) /\ ~JoinComes(v) /\ ~HearsOf(v, u) /\ ~AnswerComes(v, u)
      BY <1>2, <1>5, <2>1 DEF JoinComes, HearsOf, AnswerComes
    <2> QED
      BY <1>4, <2>2, <2>3 DEF WillSee
  <1>7. ASSUME losses[u] = 0, NEW v \in participants[u] PROVE v \in Showing(m) \ {u}
    <2>1. v \in User /\ v # u
      BY <1>0, <1>5 DEF Sound, Types, PeopleTypes
    <2>2. Here(u, v)
      BY <1>1, <1>3, <1>4, <1>5, <1>7, <2>1 DEF Sound
    <2>3. PICK s \in connected : mapid[s] = m /\ Owner[s] = v
      BY <1>1, <1>5, <2>2 DEF Here
    <2>4. s = link[v]
      BY <1>1, <2>1, <2>3 DEF Quiet
    <2> QED
      BY <1>1, <2>1, <2>3, <2>4 DEF Showing
  <1> QED
    BY <1>6, <1>7

\* When nothing is on its way, and nothing happened out of order, everybody on a map is
\* listed in the chat of everybody else there: newcomers are told by those already on the
\* map and tell them in turn (NEW_MAPPER and MAPPER_LIST_UPDATED), whatever joins, leaves
\* and lost connections overlap.  A page that kept its connection lists nobody else.
THEOREM PagesListEachOther == Spec => []PagesSeeEachOther
  <1> DEFINE Whole == /\ OrderInvariant /\ Lists /\ Background
                      /\ Peaceful => Sound /\ Complete
  <1>1. Init => Whole
    BY OrderInit, ListsInit, BackgroundInit, SoundInit, CompleteInit
  <1>2. Whole /\ [Next]_vars => Whole'
    <2> SUFFICES ASSUME Whole, [Next]_vars PROVE Whole'
      OBVIOUS
    <2>1. OrderInvariant'
      BY OrderStep
    <2>2. Lists'
      BY <2>1, ListsStep
    <2>3. Background'
      BY <2>1, BackgroundStep
    <2>4. ASSUME Peaceful' PROVE Sound' /\ Complete'
      <3>1. Peaceful
        BY <2>4, PeaceBefore DEF OrderInvariant
      <3> QED
        BY <2>1, <2>4, <3>1, SoundStep, CompleteStep
    <2> QED
      BY <2>1, <2>2, <2>3, <2>4
  <1>3. Whole => PagesSeeEachOther
    BY QuietLists DEF PagesSeeEachOther, Peaceful
  <1> QED
    BY <1>1, <1>2, <1>3, PTL DEF Spec

-----------------------------------------------------------------------------
\* Who talks.
\*
\* What the page of u makes of the events about v, first of the notices on their way to
\* it, then of the messages v's page has yet to be heard with: each becomes the notice of
\* its kind.  Announces(u) and Departs: u hears that v is there, that v is gone;
\* Speaks(u) and Hushes(u): that v talks, that it does not.
Shows(v) == {e \in Notice : Adds(e, v)}
Removes(v) == {e \in Notice : Drops(e, v)}
TellsTalk(v) ==
    {e \in Notice : /\ e.about = v
                    /\ \/ e.type = "MAPPER_JOINED_CALL"
                       \/ e.type = "MAPPER_LIST_UPDATED" /\ e.talking}
TellsHush(v) ==
    {e \in Notice : /\ e.about = v
                    /\ \/ e.type \in {"NEW_MAPPER", "LOST_MAPPER", "MAPPER_LEFT_CALL"}
                       \/ e.type = "MAPPER_LIST_UPDATED" /\ ~e.talking}

Announces(u) ==
    {e \in Message : Joins(e) \/ (e.type = "SEND_MAPPER_INFO" /\ e.peer = u)}
Departs == {e \in Message : Leaves(e)}
Speaks(u) ==
    {e \in Message : \/ e.type = "JOIN_CALL"
                     \/ e.type = "SEND_MAPPER_INFO" /\ e.peer = u /\ e.talking}
Hushes(u) ==
    {e \in Message : \/ Joins(e) \/ Leaves(e) \/ e.type = "LEAVE_CALL"
                     \/ e.type = "SEND_MAPPER_INFO" /\ e.peer = u /\ ~e.talking}

\* What u knows of v now.
Holds(u, v) == v \in DOMAIN mappersOnMap[u]
HoldsTalking(u, v) == Holds(u, v) /\ mappersOnMap[u][v]

\* When u has taken what is on its way to it.
WillHold(u, v) ==
    \/ Lasts(toClient[link[u]], Shows(v), Removes(v))
    \/ Clear(toClient[link[u]], Removes(v)) /\ Holds(u, v)
WillCount(u, v) ==
    \/ Lasts(toClient[link[u]], TellsTalk(v), TellsHush(v))
    \/ Clear(toClient[link[u]], TellsHush(v)) /\ HoldsTalking(u, v)

\* And when the server has taken what v has said, too.
Known(u, v) ==
    \/ Lasts(Out(v), Announces(u), Departs)
    \/ Clear(Out(v), Departs) /\ WillHold(u, v)
Counted(u, v) ==
    \/ Lasts(Out(v), Speaks(u), Hushes(u))
    \/ Clear(Out(v), Hushes(u)) /\ WillCount(u, v)

\* Unless u has yet to join, or v to hear of it.
WillKnow(u, v) == JoinComes(u) \/ HearsOf(v, u) \/ Known(u, v)
WillBeCounted(u, v) == JoinComes(u) \/ HearsOf(v, u) \/ Counted(u, v)

\* What says, to anybody, that a page does not talk.
Silence ==
    {e \in Message : \/ Joins(e) \/ Leaves(e) \/ e.type = "LEAVE_CALL"
                     \/ e.type = "SEND_MAPPER_INFO" /\ ~e.talking}
CallJoins == {e \in Message : e.type = "JOIN_CALL"}

\* Pages talk on their maps only.
TalkersOnMap == \A v \in User : inConversation[v] => OnMap(v)

\* A page that has never been connected has nobody to talk to.
Unheard ==
    \A v \in User : losses[v] = 0 /\ link[v] = NoSocket =>
        ~inConversation[v] /\ ~live[v] /\ ~waiting[v] /\ toast[v] = {}

\* A page that has kept its connection has no other.
Alone == \A s \in connected : losses[Owner[s]] = 0 => link[Owner[s]] = s

\* A talking page that has yet to join its map joins the call after that.
JoinsInOrder ==
    \A v \in User : losses[v] = 0 /\ inConversation[v] /\ JoinComes(v) =>
        Lasts(Out(v), CallJoins, Silence)

Talkers ==
    \A u, v \in User : Together(u, v) /\ losses[v] = 0 =>
        WillKnow(u, v) /\ (inConversation[v] => WillBeCounted(u, v))

\* An event that leaves a page where it is touches no other page.
LEMMA StayingAlone ==
    ASSUME Types, NEW w \in User, StayingEvent(w)
    PROVE  /\ \A x \in User : x # w => /\ inConversation'[x] = inConversation[x]
                                       /\ live'[x] = live[x] /\ waiting'[x] = waiting[x]
                                       /\ toast'[x] = toast[x]
                                       /\ mappersOnMap'[x] = mappersOnMap[x]
           /\ losses' = losses /\ link' = link
           /\ ~Receive(w) => mappersOnMap' = mappersOnMap
  <1> SUFFICES ASSUME NEW x \in User, x # w
               PROVE  /\ inConversation'[x] = inConversation[x]
                      /\ live'[x] = live[x] /\ waiting'[x] = waiting[x]
                      /\ toast'[x] = toast[x]
                      /\ mappersOnMap'[x] = mappersOnMap[x]
    <2>1. losses' = losses /\ link' = link
      BY DEF StayingEvent, Invite, JoinButton, LeaveButton, AnswerYes, AnswerNo, Dismiss,
             CameraReady, Receive, Click, netVars
    <2>2. ~Receive(w) => mappersOnMap' = mappersOnMap
      BY DEF StayingEvent, Invite, JoinButton, LeaveButton, AnswerYes, AnswerNo, Dismiss,
             CameraReady, Click, peopleVars
    <2> QED
      BY <2>1, <2>2
  <1>0. CallTypes /\ PeopleTypes
    BY DEF Types
  <1>1. CASE \/ \E v \in User : Invite(w, v)
             \/ AnswerNo(w) \/ Dismiss(w) \/ CameraReady(w)
    BY <1>0, <1>1 DEF Invite, AnswerNo, Dismiss, CameraReady, Click, peopleVars, CallTypes
  <1>2. ASSUME NEW n, StartTalking(w, n)
        PROVE  /\ inConversation'[x] = inConversation[x]
               /\ live'[x] = live[x] /\ waiting'[x] = waiting[x] /\ toast'[x] = toast[x]
    BY <1>0, <1>2 DEF StartTalking, CallTypes
  <1>3. CASE JoinButton(w)
    BY <1>2, <1>3 DEF JoinButton, Click, peopleVars
  <1>4. CASE LeaveButton(w) \/ AnswerYes(w)
    BY <1>0, <1>4 DEF LeaveButton, AnswerYes, Click, peopleVars, CallTypes
  <1>5. CASE Receive(w)
    <2> DEFINE e == Head(toClient[link[w]])
    <2>1. ASSUME NEW ends, CallEnds(w, ends)
          PROVE  /\ inConversation'[x] = inConversation[x]
                 /\ live'[x] = live[x] /\ waiting'[x] = waiting[x] /\ toast'[x] = toast[x]
      BY <1>0, <2>1 DEF CallEnds, CallTypes
    <2>2. ASSUME NEW c, Ask(w, c) PROVE toast'[x] = toast[x]
      BY <1>0, <2>2 DEF Ask, CallTypes
    <2>3. ASSUME NEW m, Knows(w, m) PROVE mappersOnMap'[x] = mappersOnMap[x]
      BY <1>0, <2>3 DEF Knows, PeopleTypes
    <2>4. CASE NewMapper(w, e.about)
      BY <2>2, <2>3, <2>4 DEF NewMapper
    <2>5. CASE LostMapper(w, e.about) \/ MapperLeftCall(w, e.about)
      BY <2>1, <2>3, <2>5 DEF LostMapper, MapperLeftCall
    <2>6. CASE MapperListUpdated(w, e.about, e.talking) \/ MapperJoinedCall(w, e.about)
      BY <2>3, <2>6 DEF MapperListUpdated, MapperJoinedCall, callVars
    <2>7. CASE Invited(w, e.about, "accept") \/ Invited(w, e.about, "join")
      BY <2>2, <2>7 DEF Invited
    <2>8. CASE CallAccepted(w)
      BY <1>2, <2>8 DEF CallAccepted
    <2>9. CASE CallStarted(w)
      BY <1>0, <2>2, <2>9 DEF CallStarted, CallTypes
    <2>10. CASE Ignored(w, e)
      BY <2>10 DEF Ignored, callVars
    <2> QED
      BY <1>5, <2>4, <2>5, <2>6, <2>7, <2>8, <2>9, <2>10 DEF Receive
  <1> QED
    BY <1>1, <1>3, <1>4, <1>5 DEF StayingEvent

\* A page starts to talk on its map, or earlier than it should.
LEMMA TalkStarts ==
    ASSUME Types, NEW w \in User, StayingEvent(w), inConversation'[w], Peaceful'
    PROVE  inConversation[w] \/ OnMap(w)
  <1>0. CallTypes
    BY DEF Types
  <1>1. CASE (\E v \in User : Invite(w, v)) \/ AnswerNo(w) \/ Dismiss(w) \/ CameraReady(w)
    BY <1>1 DEF Invite, AnswerNo, Dismiss, CameraReady
  <1>2. Click(w) => OnMap(w)
    BY DEF Click, Peaceful
  <1>3. CASE JoinButton(w) \/ AnswerYes(w)
    BY <1>2, <1>3 DEF JoinButton, AnswerYes
  <1>4. CASE LeaveButton(w)
    BY <1>0, <1>2, <1>4 DEF LeaveButton
  <1>5. CASE Receive(w)
    <2> DEFINE e == Head(toClient[link[w]])
    <2>1. ASSUME NEW ends, CallEnds(w, ends) PROVE inConversation[w]
      BY <1>0, <2>1 DEF CallEnds, CallTypes
    <2>2. CASE e.type = "CALL_ACCEPTED" /\ CallAccepted(w)
      BY <1>5, <2>2 DEF Receive, Peaceful
    <2>3. CASE LostMapper(w, e.about) \/ MapperLeftCall(w, e.about)
      BY <2>1, <2>3 DEF LostMapper, MapperLeftCall
    <2>4. CASE \/ NewMapper(w, e.about) \/ MapperListUpdated(w, e.about, e.talking)
               \/ MapperJoinedCall(w, e.about)
               \/ Invited(w, e.about, "accept") \/ Invited(w, e.about, "join")
               \/ CallStarted(w) \/ Ignored(w, e)
      <3>1. UNCHANGED inConversation
        BY <2>4 DEF NewMapper, MapperListUpdated, MapperJoinedCall, Invited, CallStarted,
                    Ignored, callVars
      <3> QED
        BY <3>1
    <2> QED
      BY <1>5, <2>2, <2>3, <2>4 DEF Receive
  <1> QED
    BY <1>1, <1>3, <1>4, <1>5 DEF StayingEvent

\* Without a connection, and with nothing to click at, nobody talks.
LEMMA StayingUnheard ==
    ASSUME Types, NEW w \in User, StayingEvent(w), link[w] = NoSocket,
           ~inConversation[w], ~live[w], ~waiting[w], toast[w] = {}
    PROVE  ~inConversation'[w] /\ ~live'[w] /\ ~waiting'[w] /\ toast'[w] = {}
  <1>0. CallTypes
    BY DEF Types
  <1>1. CASE \E v \in User : Invite(w, v)
    BY <1>0, <1>1 DEF Invite, CallTypes
  <1>2. CASE \/ JoinButton(w) \/ LeaveButton(w) \/ AnswerYes(w) \/ AnswerNo(w) \/ Dismiss(w)
             \/ CameraReady(w) \/ Receive(w)
    BY <1>2 DEF JoinButton, LeaveButton, AnswerYes, AnswerNo, Dismiss, CameraReady, Receive
  <1> QED
    BY <1>1, <1>2 DEF StayingEvent

\* Moving on ends the call of a page that is on its map.
LEMMA NavigateTalk ==
    ASSUME Types, NEW w \in User, NEW m \in Map \cup {NoMap}, Navigate(w, m), OnMap(w)
    PROVE  ~inConversation'[w]
  <1>1. Ends(w)
    BY DEF Ends, OnMap
  <1> QED
    BY <1>1 DEF Navigate, LeavesCall, Types, CallTypes

\* ... and touches no other page.
LEMMA NavigateAlone ==
    ASSUME Types, NEW w \in User, NEW m \in Map \cup {NoMap}, Navigate(w, m)
    PROVE  /\ \A x \in User : x # w => /\ inConversation'[x] = inConversation[x]
                                       /\ live'[x] = live[x]
           /\ inConversation'[w] => inConversation[w]
           /\ live'[w] => live[w]
           /\ waiting' = waiting /\ toast' = toast /\ mappersOnMap' = mappersOnMap
           /\ connected' = connected
  BY DEF Navigate, peopleVars, Types, CallTypes, NothingFromServer, serverVars

\* The answer that starts a map.
LEMMA LoadedAlone ==
    ASSUME Types, NEW w \in User, NEW m \in Map, Loaded(w, m)
    PROVE  /\ \A x \in User : x # w => live'[x] = live[x]
           /\ ~live'[w] /\ inConversation' = inConversation /\ ~OnMap(w)
           /\ waiting' = waiting /\ toast' = toast /\ mappersOnMap' = mappersOnMap
           /\ connected' = connected
  BY DEF Loaded, Types, CallTypes, OnMap, NothingFromServer, serverVars

\* In a peaceful past pages talk on their maps only.
LEMMA TalkersStep ==
    ASSUME Types, NetInv, HeardInv, TalkersOnMap, [Next]_vars, Peaceful'
    PROVE  TalkersOnMap'
  <1>1. ASSUME NEW w \in User, StayingEvent(w) PROVE TalkersOnMap'
    <2>1. \A x \in User : OnMap(x)' <=> OnMap(x)
      BY <1>1, StayingStays, OnMapStays DEF Stays, pageVars
    <2>2. \A x \in User : x # w => inConversation'[x] = inConversation[x]
      BY <1>1, StayingAlone
    <2>3. inConversation'[w] => inConversation[w] \/ OnMap(w)
      BY <1>1, TalkStarts
    <2> QED
      BY <2>1, <2>2, <2>3 DEF TalkersOnMap
  <1>2. ASSUME NEW w \in User, NEW m \in Map \cup {NoMap}, Navigate(w, m) PROVE TalkersOnMap'
    <2>1. \A x \in User : x # w => OnMap(x)' <=> OnMap(x)
      BY <1>2, NavigateIs
    <2> QED
      BY <1>2, <2>1, NavigateTalk, NavigateAlone DEF TalkersOnMap
  <1>3. ASSUME NEW w \in User, NEW m \in Map, Loaded(w, m) PROVE TalkersOnMap'
    <2>1. \A x \in User : x # w => OnMap(x)' <=> OnMap(x)
      BY <1>3, LoadedIs
    <2> QED
      BY <1>3, <2>1, LoadedAlone DEF TalkersOnMap
  <1>4. ASSUME inConversation' = inConversation, activeMap' = activeMap, mapId' = mapId,
               loading' = loading
        PROVE  TalkersOnMap'
    <2>1. \A x \in User : OnMap(x)' <=> OnMap(x)
      BY <1>4, OnMapStays
    <2> QED
      BY <1>4, <2>1 DEF TalkersOnMap
  <1>5. CASE \/ \E w \in User : Connect(w) \/ Lose(w)
             \/ \E s \in Socket : Handle(s) \/ Disconnect(s)
             \/ UNCHANGED vars
    BY <1>4, <1>5 DEF Connect, Lose, Handle, Disconnect, vars, callVars, pageVars
  <1> QED
    BY <1>1, <1>2, <1>3, <1>5, NextIs

\* A page that has not been connected hears nothing.
LEMMA UnheardStep ==
    ASSUME Types, NetInv, HeardInv, Unheard, [Next]_vars
    PROVE  Unheard'
  <1> SUFFICES ASSUME NEW v \in User, losses'[v] = 0, link'[v] = NoSocket
               PROVE  ~inConversation'[v] /\ ~live'[v] /\ ~waiting'[v] /\ toast'[v] = {}
    BY DEF Unheard
  <1>1. ASSUME losses[v] = 0, link[v] = NoSocket
        PROVE  ~inConversation[v] /\ ~live[v] /\ ~waiting[v] /\ toast[v] = {}
    BY <1>1 DEF Unheard
  <1>2. ASSUME NEW w \in User, StayingEvent(w)
        PROVE  ~inConversation'[v] /\ ~live'[v] /\ ~waiting'[v] /\ toast'[v] = {}
    BY <1>1, <1>2, StayingAlone, StayingUnheard
  <1>3. ASSUME NEW w \in User, NEW m \in Map \cup {NoMap}, Navigate(w, m)
        PROVE  ~inConversation'[v] /\ ~live'[v] /\ ~waiting'[v] /\ toast'[v] = {}
    BY <1>1, <1>3, NavigateIs, NavigateAlone
  <1>4. ASSUME NEW w \in User, NEW m \in Map, Loaded(w, m)
        PROVE  ~inConversation'[v] /\ ~live'[v] /\ ~waiting'[v] /\ toast'[v] = {}
    BY <1>1, <1>4, LoadedIs, LoadedAlone
  <1>5. ASSUME NEW w \in User, Connect(w)
        PROVE  ~inConversation'[v] /\ ~live'[v] /\ ~waiting'[v] /\ toast'[v] = {}
    <2>1. link'[w] # NoSocket /\ losses' = losses /\ \A k \in User : k # w => link'[k] = link[k]
      <3>1. PICK s \in Socket : link'[w] = s /\ s # NoSocket /\ losses' = losses
                                /\ \A k \in User : k # w => link'[k] = link[k]
        BY <1>5, ConnectIs
      <3> QED
        BY <3>1
    <2>2. UNCHANGED callVars
      BY <1>5 DEF Connect
    <2> QED
      BY <1>1, <2>1, <2>2 DEF callVars
  <1>6. ASSUME NEW w \in User, Lose(w)
        PROVE  ~inConversation'[v] /\ ~live'[v] /\ ~waiting'[v] /\ toast'[v] = {}
    <2>1. losses'[w] > 0 /\ \A k \in User : k # w => link'[k] = link[k] /\ losses'[k] = losses[k]
      BY <1>6, LoseIs
    <2>2. UNCHANGED callVars
      BY <1>6 DEF Lose
    <2> QED
      BY <1>1, <2>1, <2>2 DEF callVars
  <1>7. CASE \/ \E s \in Socket : Handle(s) \/ Disconnect(s)
             \/ UNCHANGED vars
    BY <1>1, <1>7 DEF Handle, Disconnect, vars, callVars, netVars
  <1> QED
    BY <1>2, <1>3, <1>4, <1>5, <1>6, <1>7, NextIs

\* A page that has never lost a connection has one at most.
LEMMA AloneStep ==
    ASSUME Types, NetInv, HeardInv, Alone, [Next]_vars
    PROVE  Alone'
  <1>0. \A s \in connected : s \in Socket /\ Owner[s] \in User
    BY PageAssumption DEF Types, P!TypeOK
  <1>1. ASSUME connected' \subseteq connected, link' = link, losses' = losses PROVE Alone'
    BY <1>1 DEF Alone
  <1>2. ASSUME NEW w \in User, Connect(w) PROVE Alone'
    <2>1. PICK s \in Socket : /\ Owner[s] = w /\ link[w] = NoSocket /\ link'[w] = s
                              /\ connected' = connected \cup {s} /\ losses' = losses
                              /\ \A k \in User : k # w => link'[k] = link[k]
      BY <1>2, ConnectIs
    <2>2. ASSUME NEW t \in connected', losses'[Owner[t]] = 0 PROVE link'[Owner[t]] = t
      <3>1. CASE t = s
        BY <2>1, <3>1
      <3>2. CASE t # s
        <4>1. t \in connected /\ link[Owner[t]] = t /\ t # NoSocket
          BY <1>0, <2>1, <2>2, <3>2, NoSocketAssumption DEF Alone
        <4> QED
          BY <1>0, <2>1, <4>1
      <3> QED
        BY <3>1, <3>2
    <2> QED
      BY <2>2 DEF Alone
  <1>3. ASSUME NEW w \in User, Lose(w) PROVE Alone'
    <2>1. /\ losses'[w] > 0 /\ connected' = connected
          /\ \A k \in User : k # w => link'[k] = link[k] /\ losses'[k] = losses[k]
      BY <1>3, LoseIs
    <2> QED
      BY <1>0, <2>1 DEF Alone
  <1>4. ASSUME NEW w \in User, StayingEvent(w) PROVE Alone'
    <2>1. connected' = connected
      BY <1>4, StayingStays DEF Stays, NothingFromServer, serverVars
    <2> QED
      BY <1>1, <1>4, <2>1, StayingAlone
  <1>5. ASSUME NEW w \in User, NEW m \in Map \cup {NoMap}, Navigate(w, m) PROVE Alone'
    BY <1>1, <1>5, NavigateIs, NavigateAlone
  <1>6. ASSUME NEW w \in User, NEW m \in Map, Loaded(w, m) PROVE Alone'
    BY <1>1, <1>6, LoadedIs, LoadedAlone
  <1>7. ASSUME NEW s \in Socket, Handle(s) PROVE Alone'
    BY <1>1, <1>7, HandleIs, HandleOut
  <1>8. ASSUME NEW s \in Socket, Disconnect(s) PROVE Alone'
    BY <1>1, <1>8, DisconnectOut
  <1>9. CASE UNCHANGED vars
    BY <1>1, <1>9 DEF vars, netVars, serverVars
  <1> QED
    BY <1>2, <1>3, <1>4, <1>5, <1>6, <1>7, <1>8, <1>9, NextIs

-----------------------------------------------------------------------------
\* What a page says while it talks.
Lively == Message \ Silence

\* The messages a page may say while it talks.
LEMMA LivelyTypes ==
    /\ \A m \in Map : JoinCallMessage(m) \in Lively /\ JoinCallMessage(m) \in CallJoins
    /\ \A type \in Passed, m \in Map, v \in User, talking \in BOOLEAN :
          (type = "SEND_MAPPER_INFO" => talking) => Say(type, m, v, talking) \in Lively
  BY SayTypes DEF Lively, Silence, CallJoins, Joins, Leaves, JoinCallMessage, Say, Passed

\* Starting to talk says that it does.
LEMMA StartTalkingSays ==
    ASSUME Types, NEW w \in User, NEW n \in Nat \ {0}, StartTalking(w, n), activeMap[w] # NoMap
    PROVE  \E c \in Seq(Lively) : Send(w, c) /\ \E x \in In(c) : x \in CallJoins
  <1>1. activeMap[w] \in Map
    BY DEF Types, PageTypes
  <1> DEFINE x == JoinCallMessage(activeMap[w])
  <1>2. x \in Lively /\ x \in CallJoins
    BY <1>1, LivelyTypes
  <1>3. Send(w, Repeat(<<x>>, n))
    BY DEF StartTalking
  <1> HIDE DEF x
  <1>4. x \in In(Repeat(<<x>>, n)) /\ Repeat(<<x>>, n) \in Seq(Lively)
    BY <1>2, RepeatSays
  <1> QED
    BY <1>2, <1>3, <1>4

\* What the callbacks of a toast say.
LEMMA AnswerSays ==
    ASSUME Types, NEW w \in User, activeMap[w] # NoMap, NEW c \in Callbacks(w)
    PROVE  /\ Answer(w, c) \in Seq(Lively)
           /\ c.does # "invite" => \E x \in In(Answer(w, c)) : x \in CallJoins
  <1> DEFINE x == JoinCallMessage(activeMap[w])
             joins == <<x>>
             invites == <<InviteMessage("INVITE_A_CALL", w, c.whom)>>
             accepts == <<InviteMessage("ACCEPT_CALL", w, c.whom)>>
             n == c.times
  <1>1. activeMap[w] \in Map
    BY DEF Types, PageTypes
  <1>2. /\ c.does \in {"accept", "join", "invite"}
        /\ c.does # "join" => c.whom \in User
        /\ n \in Nat /\ n # 0
    BY BoundsAssumption DEF Callbacks, Question
  <1>3. x \in Lively /\ x \in CallJoins
    BY <1>1, LivelyTypes
  <1>4. c.does # "join" => /\ InviteMessage("INVITE_A_CALL", w, c.whom) \in Lively
                           /\ InviteMessage("ACCEPT_CALL", w, c.whom) \in Lively
    BY <1>1, <1>2, LivelyTypes DEF InviteMessage, Passed
  <1>5. Answer(w, c) = Repeat(CASE c.does = "accept" -> accepts \o joins
                                [] c.does = "join"   -> joins
                                [] c.does = "invite" -> invites, n)
    BY DEF Answer
  <1>6. joins \in Seq(Lively) /\ x \in In(joins)
    <2> HIDE DEF x
    <2> QED
      BY <1>3, InShort
  <1>7. c.does # "join" => invites \in Seq(Lively) /\ accepts \in Seq(Lively)
    BY <1>4
  <1> HIDE DEF x, n, joins, invites, accepts
  <1>8. c.does # "join" => accepts \o joins \in Seq(Lively) /\ x \in In(accepts \o joins)
    BY <1>6, <1>7, ConcatOnce
  <1>9. ASSUME NEW y \in Seq(Lively)
        PROVE  /\ Repeat(y, n) \in Seq(Lively)
               /\ \A z \in In(y) : z \in In(Repeat(y, n))
    <2> DEFINE reps == [i \in 1..n |-> y]
    <2>1. reps \in Seq(Seq(Lively)) /\ Len(reps) = n /\ \A i \in 1..n : reps[i] = y
      BY <1>2, <1>9
    <2>2. Repeat(y, n) = FlattenSeq(reps)
      BY DEF Repeat
    <2> HIDE DEF reps
    <2>3. 1 \in 1..Len(reps)
      BY <1>2, <2>1
    <2>4. \A z : z \in In(FlattenSeq(reps)) <=> \E i \in 1..Len(reps) : z \in In(reps[i])
      BY <2>1, FlattenIn
    <2> QED
      BY <1>2, <1>9, <2>1, <2>2, <2>3, <2>4, RepeatType
  <1>10. CASE c.does = "accept"
    <2>1. Answer(w, c) = Repeat(accepts \o joins, n)
      BY <1>5, <1>10
    <2> QED
      BY <1>3, <1>8, <1>9, <1>10, <2>1
  <1>11. CASE c.does = "join"
    <2>1. Answer(w, c) = Repeat(joins, n)
      BY <1>5, <1>11
    <2> QED
      BY <1>3, <1>6, <1>9, <1>11, <2>1
  <1>12. CASE c.does = "invite"
    <2>1. Answer(w, c) = Repeat(invites, n)
      BY <1>5, <1>12
    <2> QED
      BY <1>7, <1>9, <1>12, <2>1
  <1> QED
    BY <1>2, <1>10, <1>11, <1>12

\* What several callbacks say.
LEMMA AnswerAllSays ==
    ASSUME Types, NEW w \in User, activeMap[w] # NoMap, NEW T \in SUBSET toast[w]
    PROVE  /\ AnswerAll(w, T) \in Seq(Lively)
           /\ \A c \in T : c.does # "invite" => \E x \in In(AnswerAll(w, T)) : x \in CallJoins
  <1> DEFINE callbacks == SetToSeq(T)
             answers == [i \in DOMAIN callbacks |-> Answer(w, callbacks[i])]
  <1>1. T \subseteq Callbacks(w) /\ IsFiniteSet(T)
    BY FS_Subset DEF Types, CallTypes
  <1>2. callbacks \in Seq(T) /\ In(callbacks) = T
    BY <1>1, SequenceOf
  <1>3. \A c \in T : /\ Answer(w, c) \in Seq(Lively)
                     /\ c.does # "invite" => \E x \in In(Answer(w, c)) : x \in CallJoins
    BY <1>1, AnswerSays
  <1>4. AnswerAll(w, T) = FlattenSeq(answers)
    BY DEF AnswerAll
  <1>5. /\ DOMAIN callbacks = 1..Len(callbacks) /\ Len(callbacks) \in Nat
        /\ \A i \in 1..Len(callbacks) : callbacks[i] \in T
    BY <1>2
  <1>6. answers \in Seq(Seq(Lively)) /\ Len(answers) = Len(callbacks)
        /\ \A i \in 1..Len(callbacks) : answers[i] = Answer(w, callbacks[i])
    <2> HIDE DEF callbacks
    <2> QED
      BY <1>3, <1>5
  <1> HIDE DEF answers, callbacks
  <1>7. FlattenSeq(answers) \in Seq(Lively)
    BY <1>6, FlattenType
  <1>8. \A x : x \in In(FlattenSeq(answers)) <=> \E i \in 1..Len(answers) : x \in In(answers[i])
    BY <1>6, FlattenIn
  <1>9. ASSUME NEW c \in T, c.does # "invite"
        PROVE  \E x \in In(FlattenSeq(answers)) : x \in CallJoins
    <2>1. PICK i \in 1..Len(callbacks) : callbacks[i] = c
      BY <1>2, <1>9 DEF In
    <2>2. PICK x \in In(Answer(w, c)) : x \in CallJoins
      BY <1>3, <1>9
    <2> QED
      BY <1>6, <1>8, <2>1, <2>2
  <1> QED
    BY <1>4, <1>7, <1>9

\* Yes to whatever the toasts ask.
LEMMA AnswerYesTalk ==
    ASSUME Types, NEW w \in User, AnswerYes(w), activeMap[w] # NoMap, inConversation'[w]
    PROVE  \E c \in Seq(Lively) : /\ Send(w, c)
                                  /\ inConversation[w] \/ \E x \in In(c) : x \in CallJoins
  <1>1. /\ Send(w, AnswerAll(w, toast[w]))
        /\ inConversation[w] \/ \E c \in toast[w] : c.does # "invite"
    BY DEF AnswerYes, Types, CallTypes
  <1>2. /\ AnswerAll(w, toast[w]) \in Seq(Lively)
        /\ \A c \in toast[w] : c.does # "invite" =>
                \E x \in In(AnswerAll(w, toast[w])) : x \in CallJoins
    BY AnswerAllSays
  <1> QED
    BY <1>1, <1>2

\* A page that talks says so to whoever is new.
LEMMA ReceiveTalk ==
    ASSUME Types, NEW w \in User, Receive(w), activeMap[w] # NoMap, inConversation'[w]
    PROVE  \E c \in Seq(Lively) : /\ Send(w, c)
                                  /\ inConversation[w] \/ \E x \in In(c) : x \in CallJoins
  <1> DEFINE e == Head(toClient[link[w]])
  <1>0. NetTypes /\ CallTypes /\ activeMap[w] \in Map
    BY DEF Types, PageTypes
  <1>1. link[w] # NoSocket /\ toClient[link[w]] # <<>>
    BY DEF Receive
  <1>2. e \in Notice
    BY <1>1, HeadNotice
  <1>3. Handlers(w) \in Nat \ {0}
    BY <1>0 DEF Handlers, NetTypes
  <1>4. ASSUME UNCHANGED <<sendBuffer, toServer>>, inConversation[w]
        PROVE  \E c \in Seq(Lively) : Send(w, c) /\ inConversation[w]
    <2>1. Send(w, <<>>) /\ <<>> \in Seq(Lively)
      BY <1>0, <1>4, SendNothing
    <2> QED
      BY <1>4, <2>1
  <1>5. CASE e.type = "NEW_MAPPER" /\ NewMapper(w, e.about)
    <2>1. e.about \in User /\ inConversation[w]
      BY <1>2, <1>5, NoticeNames DEF NewMapper
    <2>2. CASE ~(e.about # w /\ chat[w])
      <3>1. UNCHANGED <<sendBuffer, toServer>>
        BY <1>5, <2>2 DEF NewMapper
      <3> QED
        BY <1>4, <2>1, <3>1
    <2>3. CASE e.about # w /\ chat[w]
      <3> DEFINE info == Say("SEND_MAPPER_INFO", activeMap[w], e.about, inConversation[w])
      <3>1. Send(w, Details(w, e.about))
        BY <1>5, <2>3 DEF NewMapper
      <3>2. inConversation[w] \in BOOLEAN
        BY <1>0 DEF CallTypes
      <3>3. info \in Lively
        BY <1>0, <2>1, <3>2, LivelyTypes DEF Passed
      <3>4. Details(w, e.about) = Repeat(<<info>>, Handlers(w))
        BY <1>0, KeyAssumption DEF Details
      <3> HIDE DEF info, e
      <3>5. Repeat(<<info>>, Handlers(w)) \in Seq(Lively)
        BY <1>3, <3>3, RepeatSays
      <3> QED
        BY <2>1, <3>1, <3>4, <3>5
    <2> QED
      BY <2>2, <2>3
  <1>6. CASE e.type = "CALL_ACCEPTED" /\ CallAccepted(w)
    BY <1>3, <1>6, StartTalkingSays DEF CallAccepted
  <1>7. CASE \/ LostMapper(w, e.about)
             \/ MapperListUpdated(w, e.about, e.talking)
             \/ MapperJoinedCall(w, e.about)
             \/ MapperLeftCall(w, e.about)
             \/ Invited(w, e.about, "accept")
             \/ Invited(w, e.about, "join")
             \/ CallStarted(w)
             \/ Ignored(w, e)
    <2>1. UNCHANGED <<sendBuffer, toServer>>
      BY <1>7 DEF LostMapper, MapperListUpdated, MapperJoinedCall, MapperLeftCall, Invited,
                  CallStarted, Ignored
    <2>2. ASSUME NEW ends, CallEnds(w, ends) PROVE inConversation[w]
      BY <1>0, <2>2 DEF CallEnds, CallTypes
    <2>3. inConversation[w]
      BY <1>7, <2>2 DEF LostMapper, MapperListUpdated, MapperJoinedCall, MapperLeftCall, Invited,
                        CallStarted, Ignored, callVars
    <2> QED
      BY <1>4, <2>1, <2>3
  <1> QED
    BY <1>5, <1>6, <1>7 DEF Receive

\* What a page says in an event after which it talks.
LEMMA StayingSays ==
    ASSUME Types, NEW w \in User, StayingEvent(w), OnMap(w), chat[w], inConversation'[w]
    PROVE  \E c \in Seq(Lively) : /\ Send(w, c)
                                  /\ inConversation[w] \/ \E x \in In(c) : x \in CallJoins
  <1>0. NetTypes /\ CallTypes /\ activeMap[w] \in Map /\ activeMap[w] # NoMap
    BY DEF Types, PageTypes, OnMap
  <1>1. CASE \E v \in User : Invite(w, v)
    <2>1. PICK v \in User : Invite(w, v)
      BY <1>1
    <2>2. PICK type \in {"INVITE_A_CALL", "INVITE_TO_JOIN"} :
             Send(w, <<InviteMessage(type, w, v)>>)
      BY <2>1 DEF Invite
    <2>3. InviteMessage(type, w, v) \in Lively
      BY <1>0, <2>2, LivelyTypes DEF InviteMessage, Passed
    <2>4. <<InviteMessage(type, w, v)>> \in Seq(Lively)
      BY <2>3
    <2>5. inConversation[w]
      BY <2>1 DEF Invite
    <2> QED
      BY <2>2, <2>4, <2>5
  <1>2. CASE JoinButton(w)
    <2>1. StartTalking(w, 1) /\ 1 \in Nat \ {0}
      BY <1>2 DEF JoinButton
    <2> QED
      BY <1>0, <2>1, StartTalkingSays
  <1>3. CASE LeaveButton(w)
    BY <1>0, <1>3 DEF LeaveButton, CallTypes
  <1>4. CASE AnswerYes(w)
    BY <1>0, <1>4, AnswerYesTalk
  <1>5. CASE Dismiss(w) \/ CameraReady(w)
    <2>1. Send(w, <<>>) /\ <<>> \in Seq(Lively)
      BY <1>0, <1>5, SendNothing DEF Dismiss, CameraReady, netVars
    <2> QED
      BY <1>5, <2>1 DEF Dismiss, CameraReady
  <1>6. CASE Receive(w)
    BY <1>0, <1>6, ReceiveTalk
  <1>7. CASE AnswerNo(w)
    <2> DEFINE invites == {c \in toast[w] : c.does = "invite"}
    <2>1. Send(w, AnswerAll(w, invites)) /\ inConversation[w]
      BY <1>7 DEF AnswerNo
    <2>2. AnswerAll(w, invites) \in Seq(Lively)
      BY <1>0, AnswerAllSays
    <2> QED
      BY <2>1, <2>2
  <1> QED
    BY <1>1, <1>2, <1>3, <1>4, <1>5, <1>6, <1>7 DEF StayingEvent

\* A page that talks on after an event says nothing that says it does not; one that starts
\* to talk says so.
LEMMA StayingTalk ==
    ASSUME Types, NEW w \in User, StayingEvent(w), OnMap(w), chat[w], inConversation'[w]
    PROVE  \E c \in Seq(Message) : /\ Send(w, c)
                                   /\ Clear(c, Silence)
                                   /\ inConversation[w] \/ \E x \in In(c) : x \in CallJoins
  <1>1. PICK c \in Seq(Lively) : /\ Send(w, c)
                                 /\ inConversation[w] \/ \E x \in In(c) : x \in CallJoins
    BY StayingSays
  <1>2. c \in Seq(Message) /\ Clear(c, Silence)
    BY DEF Lively, Clear
  <1> QED
    BY <1>1, <1>2

-----------------------------------------------------------------------------
\* What a page makes of the messages of the server.

\* The record a page keeps of the others after a message of the server.
LEMMA ReceiveKnows ==
    ASSUME Types, NEW u \in User, Receive(u), NEW e, e = Head(toClient[link[u]])
    PROVE  /\ \A x \in User : x # u => mappersOnMap'[x] = mappersOnMap[x]
           /\ e.type = "NEW_MAPPER" =>
                 mappersOnMap'[u] = Server!Assign(mappersOnMap[u], e.about, FALSE)
           /\ e.type = "MAPPER_LIST_UPDATED" =>
                 mappersOnMap'[u] = Server!Assign(mappersOnMap[u], e.about, e.talking)
           /\ e.type = "LOST_MAPPER" =>
                 mappersOnMap'[u] = Server!Omit(mappersOnMap[u], e.about)
           /\ e.type = "MAPPER_JOINED_CALL" /\ e.about \in DOMAIN mappersOnMap[u] =>
                 mappersOnMap'[u] = Server!Assign(mappersOnMap[u], e.about, TRUE)
           /\ e.type = "MAPPER_LEFT_CALL" /\ e.about \in DOMAIN mappersOnMap[u] =>
                 mappersOnMap'[u] = Server!Assign(mappersOnMap[u], e.about, FALSE)
           /\ \/ e.type \notin {"NEW_MAPPER", "MAPPER_LIST_UPDATED", "LOST_MAPPER"}
                                    \cup {"MAPPER_JOINED_CALL", "MAPPER_LEFT_CALL"}
              \/ /\ e.type \in {"MAPPER_JOINED_CALL", "MAPPER_LEFT_CALL"}
                 /\ e.about \notin DOMAIN mappersOnMap[u]
              => mappersOnMap'[u] = mappersOnMap[u]
  <1>1. mappersOnMap \in [User -> Mappers]
    BY DEF Types, PeopleTypes
  <1>2. ASSUME NEW f, Knows(u, f)
        PROVE  mappersOnMap'[u] = f /\ \A x \in User : x # u => mappersOnMap'[x] = mappersOnMap[x]
    BY <1>1, <1>2 DEF Knows
  <1>3. \/ e.type = "NEW_MAPPER" /\ Knows(u, Server!Assign(mappersOnMap[u], e.about, FALSE))
        \/ e.type = "LOST_MAPPER" /\ Knows(u, Server!Omit(mappersOnMap[u], e.about))
        \/ /\ e.type = "MAPPER_LIST_UPDATED"
           /\ Knows(u, Server!Assign(mappersOnMap[u], e.about, e.talking))
        \/ /\ e.type = "MAPPER_JOINED_CALL" /\ e.about \in DOMAIN mappersOnMap[u]
           /\ Knows(u, Server!Assign(mappersOnMap[u], e.about, TRUE))
        \/ /\ e.type = "MAPPER_LEFT_CALL" /\ e.about \in DOMAIN mappersOnMap[u]
           /\ Knows(u, Server!Assign(mappersOnMap[u], e.about, FALSE))
        \/ /\ e.type \in {"MAPPER_JOINED_CALL", "MAPPER_LEFT_CALL"}
           /\ e.about \notin DOMAIN mappersOnMap[u]
           /\ mappersOnMap' = mappersOnMap
        \/ /\ e.type \notin {"NEW_MAPPER", "MAPPER_LIST_UPDATED", "LOST_MAPPER"}
                                \cup {"MAPPER_JOINED_CALL", "MAPPER_LEFT_CALL"}
           /\ mappersOnMap' = mappersOnMap
    BY DEF Receive, NewMapper, LostMapper, MapperListUpdated, MapperJoinedCall, MapperLeftCall,
           Invited, CallAccepted, CallStarted, Ignored
  <1> QED
    BY <1>2, <1>3

\* What it knows of one of them.
LEMMA ReceiveHolds ==
    ASSUME Types, NEW u \in User, Receive(u), NEW v \in User,
           NEW e, e = Head(toClient[link[u]])
    PROVE  /\ Holds(u, v)' <=> e \in Shows(v) \/ (Holds(u, v) /\ e \notin Removes(v))
           /\ HoldsTalking(u, v)' <=>
                 \/ e.type = "MAPPER_LIST_UPDATED" /\ e.about = v /\ e.talking
                 \/ e.type = "MAPPER_JOINED_CALL" /\ e.about = v /\ Holds(u, v)
                 \/ HoldsTalking(u, v) /\ e \notin TellsHush(v)
  <1> DEFINE f == mappersOnMap[u]
             g == mappersOnMap'[u]
  <1>1. e \in Notice /\ e.talking \in BOOLEAN
    BY ReceiveIs, NoticeNames
  <1>2. f \in [DOMAIN f -> BOOLEAN]
    <2>1. f \in Mappers
      BY DEF Types, PeopleTypes
    <2> HIDE DEF f
    <2> QED
      BY <2>1 DEF Mappers, P!Dictionary
  <1>3. /\ Holds(u, v)' <=> v \in DOMAIN g
        /\ HoldsTalking(u, v)' <=> v \in DOMAIN g /\ g[v]
        /\ Holds(u, v) <=> v \in DOMAIN f
        /\ HoldsTalking(u, v) <=> v \in DOMAIN f /\ f[v]
    BY DEF Holds, HoldsTalking
  <1>4. /\ e.type = "NEW_MAPPER" => g = Server!Assign(f, e.about, FALSE)
        /\ e.type = "MAPPER_LIST_UPDATED" => g = Server!Assign(f, e.about, e.talking)
        /\ e.type = "LOST_MAPPER" => g = Server!Omit(f, e.about)
        /\ e.type = "MAPPER_JOINED_CALL" /\ e.about \in DOMAIN f =>
              g = Server!Assign(f, e.about, TRUE)
        /\ e.type = "MAPPER_LEFT_CALL" /\ e.about \in DOMAIN f =>
              g = Server!Assign(f, e.about, FALSE)
        /\ \/ e.type \notin {"NEW_MAPPER", "MAPPER_LIST_UPDATED", "LOST_MAPPER"}
                                 \cup {"MAPPER_JOINED_CALL", "MAPPER_LEFT_CALL"}
           \/ /\ e.type \in {"MAPPER_JOINED_CALL", "MAPPER_LEFT_CALL"}
              /\ e.about \notin DOMAIN f
           => g = f
    BY ReceiveKnows
  <1> HIDE DEF f, g
  <1>5. ASSUME NEW k, NEW b \in BOOLEAN, g = Server!Assign(f, k, b)
        PROVE  /\ v \in DOMAIN g <=> v = k \/ v \in DOMAIN f
               /\ v = k => (g[v] <=> b)
               /\ v # k /\ v \in DOMAIN f => (g[v] <=> f[v])
    BY <1>2, <1>5 DEF Server!Assign
  <1>6. ASSUME NEW k, g = Server!Omit(f, k)
        PROVE  /\ v \in DOMAIN g <=> v # k /\ v \in DOMAIN f
               /\ v # k /\ v \in DOMAIN f => (g[v] <=> f[v])
    BY <1>2, <1>6 DEF Server!Omit
  <1>7. /\ e \in Shows(v) <=> e.about = v /\ e.type \in {"NEW_MAPPER", "MAPPER_LIST_UPDATED"}
        /\ e \in Removes(v) <=> e.about = v /\ e.type = "LOST_MAPPER"
        /\ e \in TellsHush(v) <=>
              /\ e.about = v
              /\ \/ e.type \in {"NEW_MAPPER", "LOST_MAPPER", "MAPPER_LEFT_CALL"}
                 \/ e.type = "MAPPER_LIST_UPDATED" /\ ~e.talking
    BY <1>1 DEF Shows, Removes, TellsHush, Adds, Drops
  <1>8. CASE e.type = "NEW_MAPPER"
    BY <1>3, <1>4, <1>5, <1>7, <1>8
  <1>9. CASE e.type = "MAPPER_LIST_UPDATED"
    BY <1>1, <1>3, <1>4, <1>5, <1>7, <1>9
  <1>10. CASE e.type = "LOST_MAPPER"
    BY <1>3, <1>4, <1>6, <1>7, <1>10
  <1>11. CASE e.type = "MAPPER_JOINED_CALL"
    BY <1>3, <1>4, <1>5, <1>7, <1>11
  <1>12. CASE e.type = "MAPPER_LEFT_CALL"
    BY <1>3, <1>4, <1>5, <1>7, <1>12
  <1>13. CASE e.type \notin {"NEW_MAPPER", "MAPPER_LIST_UPDATED", "LOST_MAPPER"}
                                 \cup {"MAPPER_JOINED_CALL", "MAPPER_LEFT_CALL"}
    BY <1>3, <1>4, <1>7, <1>13
  <1> QED
    BY <1>8, <1>9, <1>10, <1>11, <1>12, <1>13

\* Taking a message of the server changes nothing in what a page will know of the others.
LEMMA ReceiveWill ==
    ASSUME Types, NEW u \in User, Receive(u), NEW v \in User
    PROVE  /\ WillHold(u, v) => WillHold(u, v)'
           /\ WillHold(u, v) /\ WillCount(u, v) => WillCount(u, v)'
  <1> DEFINE q == toClient[link[u]]
             r == Tail(q)
             e == Head(q)
  <1>1. /\ q \in Seq(Notice) /\ q # <<>> /\ e \in Notice /\ link' = link
        /\ toClient'[link[u]] = r
    BY ReceiveIs
  <1>2. /\ WillHold(u, v) <=> Lasts(q, Shows(v), Removes(v)) \/ (Clear(q, Removes(v)) /\ Holds(u, v))
        /\ WillCount(u, v) <=> \/ Lasts(q, TellsTalk(v), TellsHush(v))
                               \/ Clear(q, TellsHush(v)) /\ HoldsTalking(u, v)
    BY DEF WillHold, WillCount
  <1>3. /\ Shows(v)' = Shows(v) /\ Removes(v)' = Removes(v)
        /\ TellsTalk(v)' = TellsTalk(v) /\ TellsHush(v)' = TellsHush(v)
    BY DEF Shows, Removes, TellsTalk, TellsHush
  <1>4. /\ WillHold(u, v)' <=> \/ Lasts(r, Shows(v), Removes(v))
                               \/ Clear(r, Removes(v)) /\ Holds(u, v)'
        /\ WillCount(u, v)' <=> \/ Lasts(r, TellsTalk(v), TellsHush(v))
                                \/ Clear(r, TellsHush(v)) /\ HoldsTalking(u, v)'
    BY <1>1, <1>3 DEF WillHold, WillCount
  <1>5. /\ Holds(u, v)' <=> e \in Shows(v) \/ (Holds(u, v) /\ e \notin Removes(v))
        /\ HoldsTalking(u, v)' <=>
              \/ e.type = "MAPPER_LIST_UPDATED" /\ e.about = v /\ e.talking
              \/ e.type = "MAPPER_JOINED_CALL" /\ e.about = v /\ Holds(u, v)
              \/ HoldsTalking(u, v) /\ e \notin TellsHush(v)
    BY ReceiveHolds
  <1>6. r \in Seq(Notice)
    BY <1>1
  <1> HIDE DEF q, r, e
  <1>7. ASSUME NEW S, NEW U
        PROVE  /\ Clear(q, U) <=> e \notin U /\ Clear(r, U)
               /\ Lasts(q, S, U) <=> (e \in S /\ Clear(r, U)) \/ Lasts(r, S, U)
    BY <1>1, LastsTail DEF r, e
  <1>8. WillHold(u, v) <=> WillHold(u, v)'
    BY <1>2, <1>4, <1>5, <1>7
  <1>9. ASSUME Lasts(r, Shows(v), Removes(v)), Clear(r, TellsHush(v))
        PROVE  Lasts(r, TellsTalk(v), TellsHush(v))
    <2>1. PICK x \in In(r) : x \in Shows(v)
      BY <1>6, <1>9, LastsFrom
    <2>2. x \notin TellsHush(v)
      BY <1>6, <1>9, LastsFrom
    <2>3. x \in TellsTalk(v)
      BY <2>1, <2>2 DEF Shows, Adds, TellsTalk, TellsHush
    <2> QED
      BY <1>6, <1>9, <2>1, <2>3, LastsFrom
  <1>10. ASSUME WillHold(u, v), WillCount(u, v) PROVE WillCount(u, v)'
    <2>1. CASE Lasts(r, TellsTalk(v), TellsHush(v))
      BY <1>4, <2>1
    <2>2. CASE Clear(q, TellsHush(v)) /\ HoldsTalking(u, v)
      BY <1>4, <1>5, <1>7, <2>2
    <2>3. CASE e \in TellsTalk(v) /\ Clear(r, TellsHush(v))
      <3>1. CASE e.type = "MAPPER_LIST_UPDATED" /\ e.about = v /\ e.talking
        BY <1>4, <1>5, <2>3, <3>1
      <3>2. CASE e.type = "MAPPER_JOINED_CALL" /\ e.about = v
        <4>1. e \notin Shows(v)
          BY <3>2 DEF Shows, Adds
        <4>2. Lasts(r, Shows(v), Removes(v)) \/ Holds(u, v)
          BY <1>2, <1>7, <1>10, <4>1
        <4> QED
          BY <1>4, <1>5, <1>9, <2>3, <3>2, <4>2
      <3> QED
        BY <2>3, <3>1, <3>2 DEF TellsTalk
    <2> QED
      BY <1>2, <1>7, <1>10, <2>1, <2>2, <2>3
  <1> QED
    BY <1>8, <1>10

\* When nothing is on its way, what a page will know is what it knows.
LEMMA WillNow ==
    ASSUME NEW u \in User, NEW v \in User, toClient[link[u]] = <<>>
    PROVE  /\ WillHold(u, v) <=> Holds(u, v)
           /\ WillCount(u, v) <=> HoldsTalking(u, v)
  BY NothingLasts DEF WillHold, WillCount

-----------------------------------------------------------------------------
\* What the server makes of the messages of a page.

\* A page on its map says nothing of another one.
LEMMA HeadIsOwn ==
    ASSUME OrderInvariant, Calm, Called, StayInv, InfoInv, NEW v \in User, OnMap(v),
           link[v] # NoSocket, toServer[link[v]] # <<>>, NEW e, e = Head(toServer[link[v]])
    PROVE  /\ ~Leaves(e)
           /\ Joins(e) \/ e.type \in {"JOIN_CALL", "SEND_MAPPER_INFO"} => e.map = activeMap[v]
  <1> DEFINE q == Out(v)
             S == Now(link[v])
  <1>1. /\ Out(v) = toServer[link[v]] /\ link[v] \in Socket
        /\ At(S, q, Len(q) + 1) \subseteq {activeMap[v]}
    BY ShowsInTheEnd DEF InTheEnd
  <1>2. /\ q \in Seq(Message) /\ q # <<>> /\ e = Head(q) /\ S \in SUBSET Map
        /\ \A k \in 1..Len(q) : ~Leaves(q[k])
    BY <1>1, OrderParts DEF OrderInvariant, StayInv
  <1>3. Joins(e) => e.map = activeMap[v]
    BY JoinIsOwn
  <1>4. Placed(S, q) /\ Informed(S, q)
    BY <1>1 DEF OrderInvariant, CallInv, InfoInv
  <1>5. \A x : x \in At(S, q, Len(q) + 1) => x = activeMap[v]
    BY <1>1
  <1> HIDE DEF q, S
  <1>6. e = q[1] /\ 1 \in 1..Len(q) /\ Len(q) \in Nat
    BY <1>2, HeadTailProperties, EmptySeq, LenProperties
  <1>7. \A x \in S : x = activeMap[v]
    <2>1. \A k \in 1..Len(q) + 1 - 1 : k \in 1..Len(q)
      BY <1>6
    <2> QED
      BY <1>2, <1>5, <2>1 DEF At
  <1>8. e.type = "JOIN_CALL" => e.map \in S
    BY <1>2, <1>4, Taken
  <1>9. e.type = "SEND_MAPPER_INFO" => e.map \in S
    BY <1>4, <1>6, AtFirst DEF Informed
  <1> QED
    BY <1>2, <1>3, <1>6, <1>7, <1>8, <1>9

\* What reports of v an event brings to one connection.
LEMMA ReportsOf ==
    ASSUME P!TypeOK', NEW talking \in BOOLEAN, NEW t \in Socket, NEW v,
           NEW f, f = For(t, emitted', talking)
    PROVE  /\ f \in Seq(Notice)
           /\ \A x \in In(f) : x.about = v /\ x.type \in Reports =>
                 Tells(t, x.type, v)' /\ x.talking = talking
           /\ \A k \in Reports : Tells(t, k, v)' =>
                 [type |-> k, about |-> v, talking |-> talking] \in In(f)
           /\ (\A k \in Reports : ~Tells(t, k, v)') =>
                 Clear(f, Removes(v)) /\ Clear(f, TellsHush(v))
  <1>1. /\ f \in Seq(Notice)
        /\ \A x : x \in In(f) <=>
              \E k \in Told : \E w : /\ Tells(t, k, w)'
                                   /\ x = [type |-> k, about |-> w, talking |-> talking]
    BY ForSays
  <1>2. Reports \subseteq Told
    BY DEF Reports, Told, Server!MessageType
  <1>3. ASSUME NEW x \in In(f), x.about = v, x.type \in Reports
        PROVE  Tells(t, x.type, v)' /\ x.talking = talking
    <2>1. PICK k \in Told : \E w : /\ Tells(t, k, w)'
                                 /\ x = [type |-> k, about |-> w, talking |-> talking]
      BY <1>1, <1>3
    <2>2. PICK w : Tells(t, k, w)' /\ x = [type |-> k, about |-> w, talking |-> talking]
      BY <2>1
    <2>3. x.type = k /\ w = v /\ x.talking = talking
      BY <1>3, <2>2
    <2> QED
      BY <2>2, <2>3
  <1>4. ASSUME NEW k \in Reports, Tells(t, k, v)'
        PROVE  [type |-> k, about |-> v, talking |-> talking] \in In(f)
    BY <1>1, <1>2, <1>4
  <1>5. ASSUME \A k \in Reports : ~Tells(t, k, v)'
        PROVE  Clear(f, Removes(v)) /\ Clear(f, TellsHush(v))
    <2>1. \A x \in In(f) : x.about = v => x.type \notin Reports
      BY <1>3, <1>5
    <2>2. \A x \in In(f) : x \notin Removes(v) /\ x \notin TellsHush(v)
      BY <2>1 DEF Removes, Drops, TellsHush, Reports
    <2> QED
      BY <2>2 DEF Clear, In
  <1> QED
    BY <1>1, <1>3, <1>4, <1>5

\* Further notices.
LEMMA Delivered ==
    ASSUME Types, P!TypeOK', NEW talking \in BOOLEAN, Deliver(talking), link' = link,
           mappersOnMap' = mappersOnMap, NEW u \in User, link[u] # NoSocket, NEW v \in User,
           NEW f, f = For(link[u], emitted', talking)
    PROVE  /\ WillHold(u, v)' <=> \/ Lasts(f, Shows(v), Removes(v))
                                  \/ Clear(f, Removes(v)) /\ WillHold(u, v)
           /\ WillCount(u, v)' <=> \/ Lasts(f, TellsTalk(v), TellsHush(v))
                                   \/ Clear(f, TellsHush(v)) /\ WillCount(u, v)
  <1>1. PICK t \in Socket : t = link[u] /\ t = link'[u]
    BY DEF Types, NetTypes
  <1> DEFINE q == toClient[t]
  <1>2. Owner[t] = u /\ q \in Seq(Notice)
    BY <1>1 DEF Types, NetTypes
  <1>3. toClient'[t] = q \o f
    BY <1>1, <1>2 DEF Deliver
  <1>4. f \in Seq(Notice)
    BY <1>1, ReportsOf
  <1>5. /\ Shows(v)' = Shows(v) /\ Removes(v)' = Removes(v)
        /\ TellsTalk(v)' = TellsTalk(v) /\ TellsHush(v)' = TellsHush(v)
        /\ (Holds(u, v)' <=> Holds(u, v)) /\ (HoldsTalking(u, v)' <=> HoldsTalking(u, v))
    BY DEF Shows, Removes, TellsTalk, TellsHush, Holds, HoldsTalking
  <1>6. /\ WillHold(u, v) <=> Lasts(q, Shows(v), Removes(v)) \/ (Clear(q, Removes(v)) /\ Holds(u, v))
        /\ WillCount(u, v) <=> \/ Lasts(q, TellsTalk(v), TellsHush(v))
                               \/ Clear(q, TellsHush(v)) /\ HoldsTalking(u, v)
    BY <1>1 DEF WillHold, WillCount
  <1>7. /\ WillHold(u, v)' <=> \/ Lasts(q \o f, Shows(v), Removes(v))
                               \/ Clear(q \o f, Removes(v)) /\ Holds(u, v)
        /\ WillCount(u, v)' <=> \/ Lasts(q \o f, TellsTalk(v), TellsHush(v))
                                \/ Clear(q \o f, TellsHush(v)) /\ HoldsTalking(u, v)
    BY <1>1, <1>3, <1>5 DEF WillHold, WillCount
  <1> HIDE DEF q
  <1>8. ASSUME NEW S, NEW U
        PROVE  /\ Clear(q \o f, U) <=> Clear(q, U) /\ Clear(f, U)
               /\ Lasts(q \o f, S, U) <=> Lasts(f, S, U) \/ (Lasts(q, S, U) /\ Clear(f, U))
    BY <1>2, <1>4, LastsAppend
  <1> QED
    BY <1>6, <1>7, <1>8

\* What the first message of v becomes for u, whose connection is on the same map.
LEMMA HandleOwn ==
    ASSUME OrderInvariant, OrderInvariant', Calm, Called, Lists, RoomInv, StayInv, InfoInv,
           NEW s \in Socket, Handle(s), NEW u \in User, NEW v \in User, Together(u, v),
           link[v] = s, mapid[link[u]] = activeMap[u],
           NEW e, e = Head(toServer[s]), NEW f, f = For(link[u], emitted', e.talking)
    PROVE  /\ e \notin Departs /\ Clear(f, Removes(v))
           /\ e \in Announces(u) => Lasts(f, Shows(v), Removes(v))
           /\ e \in Speaks(u) => Lasts(f, TellsTalk(v), TellsHush(v))
           /\ e \notin Hushes(u) => Clear(f, TellsHush(v))
  <1>0. /\ u # v /\ link[u] # NoSocket /\ link[v] # NoSocket /\ OnMap(v)
        /\ activeMap[u] = activeMap[v]
    BY DEF Together
  <1>1. Types /\ P!TypeOK'
    BY DEF OrderInvariant, Types
  <1>2. e \in Message /\ toServer[s] # <<>> /\ e.talking \in BOOLEAN
    BY <1>1, HandleIs DEF Message
  <1>3. PICK t \in Socket : t = link[u] /\ Owner[t] = u /\ t \in connected /\ t # s
    BY <1>0, <1>1, LinksAreOwn
  <1>4. Owner[s] = v
    BY <1>0, <1>1, LinksAreOwn
  <1>5. ~Leaves(e) /\ (Joins(e) \/ e.type \in {"JOIN_CALL", "SEND_MAPPER_INFO"} => e.map = activeMap[v])
    BY <1>0, <1>2, HeadIsOwn
  <1>6. /\ Tells(t, "NEW_MAPPER", v)' <=> Joins(e)
        /\ ~Tells(t, "LOST_MAPPER", v)'
        /\ Tells(t, "MAPPER_LIST_UPDATED", v)' <=> e.type = "SEND_MAPPER_INFO" /\ e.peer = u
        /\ Tells(t, "MAPPER_JOINED_CALL", v)' <=> e.type = "JOIN_CALL"
        /\ Tells(t, "MAPPER_LEFT_CALL", v)' => e.type = "LEAVE_CALL"
    <2>1. mapid[t] = activeMap[v]
      BY <1>0, <1>3
    <2>2. /\ Tells(t, "NEW_MAPPER", v)' <=> /\ Joins(e) /\ v = Owner[s]
                                            /\ t # s /\ t \in connected /\ mapid[t] = e.map
          /\ Tells(t, "LOST_MAPPER", v)' => Leaves(e)
          /\ Tells(t, "MAPPER_LIST_UPDATED", v)' <=>
                /\ e.type = "SEND_MAPPER_INFO" /\ v = Owner[s]
                /\ t # s /\ t \in connected /\ mapid[t] = e.map /\ Owner[t] = e.peer
          /\ Tells(t, "MAPPER_JOINED_CALL", v)' <=>
                /\ e.type = "JOIN_CALL" /\ v = Owner[s]
                /\ t # s /\ t \in connected /\ mapid[t] = e.map
          /\ Tells(t, "MAPPER_LEFT_CALL", v)' => e.type = "LEAVE_CALL"
      BY WhoHears
    <2> QED
      BY <1>3, <1>4, <1>5, <2>1, <2>2
  <1>7. /\ f \in Seq(Notice)
        /\ \A x \in In(f) : x.about = v /\ x.type \in Reports =>
              Tells(t, x.type, v)' /\ x.talking = e.talking
        /\ \A k \in Reports : Tells(t, k, v)' =>
              [type |-> k, about |-> v, talking |-> e.talking] \in In(f)
    <2>1. f = For(t, emitted', e.talking)
      BY <1>3
    <2>2. PICK talking \in BOOLEAN : talking = e.talking
      BY <1>2
    <2> QED
      BY <1>1, <2>1, <2>2, ReportsOf
  <1>8. \A x \in In(f) : x \in Notice
    BY <1>7, InIsRange
  <1>9. Clear(f, Removes(v))
    <2>1. ASSUME NEW x \in In(f), x \in Removes(v) PROVE FALSE
      <3>1. x.about = v /\ x.type = "LOST_MAPPER"
        BY <2>1 DEF Removes, Drops
      <3> QED
        BY <1>6, <1>7, <3>1 DEF Reports
    <2> QED
      BY <2>1 DEF Clear, In
  <1>10. ASSUME e \in Announces(u) PROVE Lasts(f, Shows(v), Removes(v))
    <2>1. PICK k \in {"NEW_MAPPER", "MAPPER_LIST_UPDATED"} : Tells(t, k, v)'
      BY <1>6, <1>10 DEF Announces
    <2> DEFINE x == [type |-> k, about |-> v, talking |-> e.talking]
    <2>2. x \in In(f) /\ x.about = v /\ x.type = k
      BY <1>7, <2>1 DEF Reports
    <2> HIDE DEF x
    <2>3. x \in Shows(v)
      BY <1>8, <2>1, <2>2 DEF Shows, Adds
    <2> QED
      BY <1>7, <1>9, <2>2, <2>3, LastsFrom
  <1>11. ASSUME e \notin Hushes(u) PROVE Clear(f, TellsHush(v))
    <2>1. ASSUME NEW x \in In(f), x \in TellsHush(v) PROVE FALSE
      <3>1. /\ x.about = v
            /\ \/ x.type \in {"NEW_MAPPER", "LOST_MAPPER", "MAPPER_LEFT_CALL"}
               \/ x.type = "MAPPER_LIST_UPDATED" /\ ~x.talking
        BY <2>1 DEF TellsHush
      <3>2. Tells(t, x.type, v)' /\ x.talking = e.talking
        BY <1>7, <3>1 DEF Reports
      <3>3. ~Joins(e) /\ e.type # "LEAVE_CALL" /\ (e.type = "SEND_MAPPER_INFO" /\ e.peer = u => e.talking)
        BY <1>2, <1>11 DEF Hushes
      <3> QED
        BY <1>6, <3>1, <3>2, <3>3
    <2> QED
      BY <2>1 DEF Clear, In
  <1>12. ASSUME e \in Speaks(u) PROVE Lasts(f, TellsTalk(v), TellsHush(v))
    <2>1. \/ e.type = "JOIN_CALL"
          \/ e.type = "SEND_MAPPER_INFO" /\ e.peer = u /\ e.talking
      BY <1>12 DEF Speaks
    <2>2. Clear(f, TellsHush(v))
      BY <1>11, <2>1 DEF Hushes, Joins, Leaves
    <2>3. PICK k \in {"MAPPER_JOINED_CALL", "MAPPER_LIST_UPDATED"} :
             Tells(t, k, v)' /\ (k = "MAPPER_LIST_UPDATED" => e.talking)
      BY <1>6, <2>1
    <2> DEFINE x == [type |-> k, about |-> v, talking |-> e.talking]
    <2>4. x \in In(f) /\ x.about = v /\ x.type = k /\ x.talking = e.talking
      BY <1>7, <2>3 DEF Reports
    <2> HIDE DEF x
    <2>5. x \in TellsTalk(v)
      BY <1>8, <2>3, <2>4 DEF TellsTalk
    <2> QED
      BY <1>7, <2>2, <2>4, <2>5, LastsFrom
  <1> QED
    BY <1>5, <1>9, <1>10, <1>11, <1>12 DEF Departs

\* What is known after a step.
LEMMA KnownThen ==
    ASSUME NEW u \in User, NEW v \in User
    PROVE  /\ Known(u, v)' <=> \/ Lasts(Out(v)', Announces(u), Departs)
                               \/ Clear(Out(v)', Departs) /\ WillHold(u, v)'
           /\ Counted(u, v)' <=> \/ Lasts(Out(v)', Speaks(u), Hushes(u))
                                 \/ Clear(Out(v)', Hushes(u)) /\ WillCount(u, v)'
  <1>1. /\ Announces(u)' = Announces(u) /\ Departs' = Departs
        /\ Speaks(u)' = Speaks(u) /\ Hushes(u)' = Hushes(u)
    BY DEF Announces, Departs, Speaks, Hushes, Joins, Leaves
  <1> QED
    BY <1>1 DEF Known, Counted

\* A page that has yet to join its map will be known there; and counted, if it talks.
LEMMA JoinerKnown ==
    ASSUME Types, StayInv, NEW u \in User, NEW v \in User, OnMap(v), JoinComes(v)
    PROVE  /\ Known(u, v)
           /\ JoinsInOrder /\ inConversation[v] /\ losses[v] = 0 => Counted(u, v)
  <1>1. Out(v) \in Seq(Message)
    BY OrderParts
  <1>2. Clear(Out(v), Departs)
    BY DEF StayInv, Clear, Departs
  <1>3. PICK x \in In(Out(v)) : Joins(x)
    BY ComesIs
  <1>4. x \in Announces(u)
    BY <1>1, <1>3, InIsRange DEF Announces
  <1>5. Lasts(Out(v), Announces(u), Departs)
    BY <1>1, <1>2, <1>3, <1>4, LastsFrom
  <1>6. CallJoins \subseteq Speaks(u) /\ Hushes(u) \subseteq Silence
    BY DEF CallJoins, Speaks, Hushes, Silence
  <1>7. ASSUME JoinsInOrder, inConversation[v], losses[v] = 0
        PROVE  Lasts(Out(v), Speaks(u), Hushes(u))
    <2>1. Lasts(Out(v), CallJoins, Silence)
      BY <1>7 DEF JoinsInOrder
    <2> QED
      BY <1>1, <1>6, <2>1, LastsFrom
  <1> QED
    BY <1>5, <1>7 DEF Known, Counted

\* The server takes a message of v.
LEMMA HandleOwnTalk ==
    ASSUME OrderInvariant, OrderInvariant', Calm, Called, Lists, RoomInv, StayInv, InfoInv,
           NEW s \in Socket, Handle(s), NEW u \in User, NEW v \in User, Together(u, v),
           link[v] = s
    PROVE  /\ WillKnow(u, v) => WillKnow(u, v)'
           /\ WillBeCounted(u, v) => WillBeCounted(u, v)'
  <1> DEFINE e == Head(toServer[s])
             f == For(link[u], emitted', e.talking)
             q == Out(v)
  <1>0. u # v /\ link[u] # NoSocket /\ link[v] # NoSocket /\ OnMap(u) /\ OnMap(v)
    BY DEF Together
  <1>1. Types /\ P!TypeOK' /\ q \in Seq(Message)
    BY OrderParts DEF OrderInvariant, Types
  <1>2. /\ link' = link /\ mappersOnMap' = mappersOnMap /\ link[u] # s
        /\ e \in Message /\ toServer[s] # <<>> /\ Deliver(e.talking) /\ e.talking \in BOOLEAN
        /\ Out(u)' = Out(u) /\ q = toServer[s] /\ q # <<>> /\ Out(v)' = Tail(q) /\ e = Head(q)
    <2>1. mappersOnMap' = mappersOnMap
      BY DEF Handle, peopleVars
    <2>2. link[u] # s
      BY <1>0, <1>1, LinksAreOwn
    <2> QED
      BY <1>1, <2>1, <2>2, HandleIs, HandleOut DEF Message
  <1>3. JoinComes(u) => JoinComes(u)'
    BY <1>2 DEF JoinComes
  <1>4. HearsOf(v, u) => HearsOf(v, u)'
    <2>1. participants' = participants
      BY DEF Handle, peopleVars
    <2> QED
      BY <1>0, <1>1, <1>2, <2>1, DeliverSees
  <1>5. CASE mapid[link[u]] # activeMap[u]
    <2>1. JoinComes(u)'
      BY <1>0, <1>3, <1>5, JoinPending
    <2> QED
      BY <2>1 DEF WillKnow, WillBeCounted
  <1>6. CASE mapid[link[u]] = activeMap[u]
    <2>1. /\ e \notin Departs /\ Clear(f, Removes(v))
          /\ e \in Announces(u) => Lasts(f, Shows(v), Removes(v))
          /\ e \in Speaks(u) => Lasts(f, TellsTalk(v), TellsHush(v))
          /\ e \notin Hushes(u) => Clear(f, TellsHush(v))
      BY <1>6, HandleOwn
    <2>2. /\ WillHold(u, v)' <=> \/ Lasts(f, Shows(v), Removes(v))
                                 \/ Clear(f, Removes(v)) /\ WillHold(u, v)
          /\ WillCount(u, v)' <=> \/ Lasts(f, TellsTalk(v), TellsHush(v))
                                  \/ Clear(f, TellsHush(v)) /\ WillCount(u, v)
      BY <1>0, <1>1, <1>2, Delivered
    <2> HIDE DEF f, e, q
    <2>3. ASSUME NEW S, NEW U
          PROVE  /\ Clear(q, U) <=> e \notin U /\ Clear(Tail(q), U)
                 /\ Lasts(q, S, U) <=> (e \in S /\ Clear(Tail(q), U)) \/ Lasts(Tail(q), S, U)
      BY <1>1, <1>2, LastsTail
    <2>4. /\ Known(u, v)' <=> \/ Lasts(Tail(q), Announces(u), Departs)
                              \/ Clear(Tail(q), Departs) /\ WillHold(u, v)'
          /\ Counted(u, v)' <=> \/ Lasts(Tail(q), Speaks(u), Hushes(u))
                                \/ Clear(Tail(q), Hushes(u)) /\ WillCount(u, v)'
      BY <1>2, KnownThen
    <2>5. /\ Known(u, v) <=> \/ Lasts(q, Announces(u), Departs)
                             \/ Clear(q, Departs) /\ WillHold(u, v)
          /\ Counted(u, v) <=> \/ Lasts(q, Speaks(u), Hushes(u))
                               \/ Clear(q, Hushes(u)) /\ WillCount(u, v)
      BY DEF Known, Counted, q
    <2>6. Known(u, v) => Known(u, v)'
      BY <2>1, <2>2, <2>3, <2>4, <2>5
    <2>7. Counted(u, v) => Counted(u, v)'
      BY <2>1, <2>2, <2>3, <2>4, <2>5
    <2> QED
      BY <1>3, <1>4, <2>6, <2>7 DEF WillKnow, WillBeCounted
  <1> QED
    BY <1>5, <1>6

\* Notices that are not about v.
LEMMA OthersTalk ==
    ASSUME Types, P!TypeOK', NEW talking \in BOOLEAN, Deliver(talking), link' = link,
           mappersOnMap' = mappersOnMap, participants' = participants,
           NEW u \in User, NEW v \in User, link[u] # NoSocket, link[v] # NoSocket,
           Out(v)' = Out(v),
           \A k \in Reports : ~Tells(link[u], k, v)'
    PROVE  /\ Known(u, v) => Known(u, v)'
           /\ Counted(u, v) => Counted(u, v)'
           /\ HearsOf(v, u) => HearsOf(v, u)'
  <1>1. PICK t \in Socket : t = link[u]
    BY DEF Types, NetTypes
  <1> DEFINE f == For(link[u], emitted', talking)
  <1>2. Clear(f, Removes(v)) /\ Clear(f, TellsHush(v))
    <2>1. \A k \in Reports : ~Tells(t, k, v)'
      BY <1>1
    <2>2. f = For(t, emitted', talking)
      BY <1>1
    <2> HIDE DEF f
    <2> QED
      BY <2>1, <2>2, ReportsOf
  <1>3. /\ WillHold(u, v) => WillHold(u, v)'
        /\ WillCount(u, v) => WillCount(u, v)'
    BY <1>2, Delivered
  <1>4. HearsOf(v, u) => HearsOf(v, u)'
    BY DeliverSees
  <1> QED
    BY <1>3, <1>4, KnownThen DEF Known, Counted

\* The server takes a message of another page: at most u joins, and v will hear of it.
LEMMA HandleOtherTalk ==
    ASSUME OrderInvariant, OrderInvariant', Calm, Calm', Lists, RoomInv, StayInv,
           JoinsInOrder,
           NEW s \in Socket, Handle(s), NEW u \in User, NEW v \in User, Together(u, v),
           Owner[s] # v, losses[v] = 0
    PROVE  /\ WillKnow(u, v) => WillKnow(u, v)'
           /\ inConversation[v] /\ WillBeCounted(u, v) => WillBeCounted(u, v)'
  <1> DEFINE e == Head(toServer[s])
             m == activeMap[u]
  <1>0. /\ u # v /\ link[u] # NoSocket /\ link[v] # NoSocket /\ OnMap(u) /\ OnMap(v)
        /\ m = activeMap[v]
    BY DEF Together
  <1>1. Types /\ P!TypeOK' /\ Out(u) \in Seq(Message)
    BY OrderParts DEF OrderInvariant, Types
  <1>2. PICK r \in Socket : r = link[v] /\ r = link'[v] /\ Owner[r] = v /\ r \in connected /\ r # s
    <2>1. link' = link
      BY <1>1, HandleOut
    <2> QED
      BY <1>0, <1>1, <2>1, LinksAreOwn
  <1>3. /\ link' = link /\ mappersOnMap' = mappersOnMap /\ participants' = participants
        /\ e \in Message /\ toServer[s] # <<>> /\ Deliver(e.talking) /\ e.talking \in BOOLEAN
        /\ Out(u)' = IF link[u] = s THEN Tail(Out(u)) ELSE Out(u)
        /\ link[u] = s => Out(u) = toServer[s]
        /\ Out(v)' = Out(v)
    <2>1. mappersOnMap' = mappersOnMap /\ participants' = participants
      BY DEF Handle, peopleVars
    <2> QED
      BY <1>1, <1>2, <2>1, HandleIs, HandleOut DEF Message
  <1>4. \A k \in Reports : ~Tells(link[u], k, v)'
    <2>1. PICK t \in Socket : t = link[u] /\ t = link'[u]
      BY <1>0, <1>1, <1>3, LinksAreOwn
    <2>2. \A k \in Reports : ~Tells(t, k, v)'
      BY WhoHears DEF Reports
    <2> QED
      BY <2>1, <2>2
  <1>5. /\ Known(u, v) => Known(u, v)'
        /\ Counted(u, v) => Counted(u, v)'
        /\ HearsOf(v, u) => HearsOf(v, u)'
    <2>1. PICK talking \in BOOLEAN : talking = e.talking
      BY <1>3
    <2>2. Deliver(talking)
      BY <1>3, <2>1
    <2> QED
      BY <1>0, <1>1, <1>3, <1>4, <2>2, OthersTalk
  <1>6. ASSUME JoinComes(u)
        PROVE  JoinComes(u)' \/ HearsOf(v, u)' \/ JoinComes(v)
    <2>1. PICK x \in In(Out(u)) : Joins(x)
      BY <1>6, ComesIs
    <2>2. CASE x \in In(Out(u))'
      BY <2>1, <2>2 DEF JoinComes, In
    <2>3. CASE x \notin In(Out(u))'
      <3>1. link[u] = s /\ x = e
        <4> DEFINE q == Out(u)
        <4>1. link[u] = s
          BY <1>3, <2>1, <2>3 DEF In
        <4>2. q = toServer[s] /\ Out(u)' = Tail(q) /\ q # <<>> /\ e = Head(q)
          BY <1>3, <4>1
        <4> HIDE DEF q, e
        <4>3. In(q) = {e} \cup In(Tail(q))
          BY <1>1, <4>2, InTail DEF q
        <4>4. x \in In(q) /\ x \notin In(Tail(q))
          BY <2>1, <2>3, <4>2 DEF q, In
        <4> QED
          BY <4>1, <4>3, <4>4
      <3>2. e.map = m
        BY <1>0, <1>3, <2>1, <3>1, JoinIsOwn
      <3>3. CASE mapid[r] = m
        <4>1. Tells(r, "NEW_MAPPER", u)'
          <5>1. u = Owner[s]
            BY <1>0, <1>1, <3>1, LinksAreOwn
          <5> QED
            BY <1>2, <2>1, <3>1, <3>2, <3>3, <5>1, WhoHears
        <4>2. HearsOf(v, u)'
          <5>1. PICK talking \in BOOLEAN : talking = e.talking
            BY <1>3
          <5>2. Deliver(talking)
            BY <1>3, <5>1
          <5>3. HearsOf(v, u) \/ Tells(r, "NEW_MAPPER", u)' => HearsOf(v, u)'
            BY <1>0, <1>1, <1>2, <1>3, <5>2, DeliverSees
          <5> QED
            BY <4>1, <5>3
        <4> QED
          BY <4>2
      <3>4. CASE mapid[r] # m
        BY <1>0, <1>2, <3>4, JoinPending
      <3> QED
        BY <3>3, <3>4
    <2> QED
      BY <2>2, <2>3
  <1>7. JoinComes(v) => Known(u, v) /\ (inConversation[v] => Counted(u, v))
    BY <1>0, <1>1, JoinerKnown
  <1> QED
    BY <1>5, <1>6, <1>7 DEF WillKnow, WillBeCounted

\* The server takes a message, of whomever.
LEMMA HandleTalk ==
    ASSUME OrderInvariant, OrderInvariant', Calm, Called, Calm', Lists, RoomInv, StayInv,
           InfoInv, Alone, JoinsInOrder,
           NEW s \in Socket, Handle(s), NEW u \in User, NEW v \in User, Together(u, v),
           losses[v] = 0
    PROVE  /\ WillKnow(u, v) => WillKnow(u, v)'
           /\ inConversation[v] /\ WillBeCounted(u, v) => WillBeCounted(u, v)'
  <1>1. CASE link[v] = s
    BY <1>1, HandleOwnTalk
  <1>2. CASE link[v] # s
    <2>1. s \in connected
      BY HandleMaps
    <2>2. Owner[s] # v
      BY <1>2, <2>1 DEF Alone
    <2> QED
      BY <2>2, HandleOtherTalk
  <1> QED
    BY <1>1, <1>2

\* The server finds a connection gone, which is not the one of v.
LEMMA DisconnectTalk ==
    ASSUME OrderInvariant, OrderInvariant', Lists, RoomInv, Alone,
           NEW s \in Socket, Disconnect(s), NEW u \in User, NEW v \in User, Together(u, v),
           losses[v] = 0
    PROVE  /\ WillKnow(u, v) => WillKnow(u, v)'
           /\ WillBeCounted(u, v) => WillBeCounted(u, v)'
  <1>0. u # v /\ link[u] # NoSocket /\ link[v] # NoSocket
    BY DEF Together
  <1>1. Types /\ P!TypeOK' /\ Deliver(FALSE)
    BY DEF OrderInvariant, Types, Disconnect
  <1>2. /\ link' = link /\ participants' = participants /\ mappersOnMap' = mappersOnMap
        /\ Out(u)' = Out(u) /\ Out(v)' = Out(v) /\ link[v] # s /\ s \in connected
    <2>1. mappersOnMap' = mappersOnMap
      BY DEF Disconnect, peopleVars
    <2> QED
      BY <1>1, <2>1, DisconnectOut
  <1>3. Owner[s] # v
    BY <1>2 DEF Alone
  <1>4. \A k \in Reports : ~Tells(link[u], k, v)'
    <2>1. PICK t \in Socket : t = link[u] /\ t = link'[u]
      BY <1>0, <1>1, <1>2, LinksAreOwn
    <2>2. \A k \in Reports : ~Tells(t, k, v)'
      BY <1>3, WhoHearsOfLoss DEF Reports
    <2> QED
      BY <2>1, <2>2
  <1>5. /\ Known(u, v) => Known(u, v)'
        /\ Counted(u, v) => Counted(u, v)'
        /\ HearsOf(v, u) => HearsOf(v, u)'
    BY <1>0, <1>1, <1>2, <1>4, OthersTalk
  <1>6. JoinComes(u) => JoinComes(u)'
    BY <1>2 DEF JoinComes
  <1> QED
    BY <1>5, <1>6 DEF WillKnow, WillBeCounted

-----------------------------------------------------------------------------
\* What is known and counted, kept through every step.

\* An event that leaves another page, u among them, where it is.
LEMMA StayingTalkOthers ==
    ASSUME Types, NEW w \in User, StayingEvent(w), Peaceful',
           NEW u \in User, NEW v \in User, Together(u, v), w # v
    PROVE  /\ WillKnow(u, v) => WillKnow(u, v)'
           /\ inConversation'[v] = inConversation[v]
           /\ WillKnow(u, v) /\ WillBeCounted(u, v) => WillBeCounted(u, v)'
  <1> DEFINE q == Out(v)
  <1>0. u # v /\ link[u] # NoSocket /\ link[v] # NoSocket
    BY DEF Together
  <1>1. /\ link' = link /\ inConversation'[v] = inConversation[v]
        /\ w # u => mappersOnMap'[u] = mappersOnMap[u]
        /\ ~Receive(w) => mappersOnMap' = mappersOnMap
    BY <1>0, StayingAlone
  <1>2. PICK c \in Seq(Message) : Send(w, c)
    BY StayingStays, StaysIs
  <1>3. /\ In(Out(u)) \subseteq In(Out(u))' /\ Out(v)' = q
        /\ q \in Seq(Message)
    BY <1>1, <1>2, SendAdds, SendIs, OrderParts
  <1>4. toClient'[link[v]] = toClient[link[v]]
        /\ (~(Receive(w) /\ w = u) => toClient'[link[u]] = toClient[link[u]])
    <2>1. CASE Receive(w)
      <3>1. /\ link[w] # link[v] /\ link[v] \in Socket /\ link[u] \in Socket
            /\ w # u => link[w] # link[u]
        BY <1>0, LinksAreOwn
      <3> QED
        BY <2>1, <3>1, ReceiveIs
    <2> QED
      BY <2>1, StayingIs
  <1>5. HearsOf(v, u) => HearsOf(v, u)'
    BY <1>1, <1>4 DEF HearsOf
  <1>6. JoinComes(u) => JoinComes(u)'
    BY <1>3 DEF JoinComes, In
  <1>7. /\ WillHold(u, v) => WillHold(u, v)'
        /\ WillHold(u, v) /\ WillCount(u, v) => WillCount(u, v)'
    <2>1. CASE Receive(w) /\ w = u
      BY <2>1, ReceiveWill
    <2>2. CASE ~(Receive(w) /\ w = u)
      <3>1. mappersOnMap'[u] = mappersOnMap[u] /\ toClient'[link[u]] = toClient[link[u]]
        BY <1>1, <1>4, <2>2
      <3> QED
        BY <1>1, <3>1 DEF WillHold, WillCount, Holds, HoldsTalking, Shows, Removes, TellsTalk,
                          TellsHush
    <2> QED
      BY <2>1, <2>2
  <1>8. Known(u, v) => Known(u, v)'
    BY <1>3, <1>7, KnownThen DEF Known
  \* Who has only been announced talks if the announcement says so.
  <1>9. Known(u, v) /\ Counted(u, v) => Counted(u, v)'
    <2>1. Lasts(q, Speaks(u), Hushes(u)) => Counted(u, v)'
      BY <1>3, KnownThen
    <2>2. ASSUME Clear(q, Hushes(u)), WillCount(u, v), Known(u, v), ~WillHold(u, v)
          PROVE  Lasts(q, Speaks(u), Hushes(u))
      <3>1. Lasts(q, Announces(u), Departs)
        BY <2>2 DEF Known
      <3> HIDE DEF q
      <3>2. PICK x \in In(q) : x \in Announces(u)
        BY <1>3, <3>1, LastsFrom
      <3>3. x \notin Hushes(u)
        BY <1>3, <2>2, LastsFrom
      <3>4. x \in Speaks(u)
        BY <3>2, <3>3 DEF Announces, Hushes, Speaks
      <3> QED
        BY <1>3, <2>2, <3>2, <3>4, LastsFrom
    <2>3. ASSUME Clear(q, Hushes(u)), WillCount(u, v), WillHold(u, v)
          PROVE  Counted(u, v)'
      BY <1>3, <1>7, <2>3, KnownThen
    <2> QED
      BY <2>1, <2>2, <2>3 DEF Counted
  <1> QED
    BY <1>1, <1>5, <1>6, <1>8, <1>9 DEF WillKnow, WillBeCounted

\* A page that takes a NEW_MAPPER about another on its map tells it whether it talks.
LEMMA ReceiveTells ==
    ASSUME Types, NEW v \in User, Receive(v), chat[v], activeMap[v] \in Map,
           NEW u \in User, u # v,
           Head(toClient[link[v]]).type = "NEW_MAPPER", Head(toClient[link[v]]).about = u
    PROVE  /\ \E c \in Seq(Message) :
                 /\ Send(v, c)
                 /\ \E x \in In(c) : /\ x.type = "SEND_MAPPER_INFO" /\ x.peer = u
                                     /\ x.talking = inConversation[v]
                                     /\ \A y \in In(c) : y = x
           /\ inConversation'[v] = inConversation[v]
  <1>1. NewMapper(v, u)
    BY DEF Receive, Ignored
  <1> DEFINE x == Say("SEND_MAPPER_INFO", activeMap[v], u, inConversation[v])
             n == Handlers(v)
             c == Repeat(<<x>>, n)
  <1>2. x \in Message /\ n \in Nat \ {0}
    <2>1. inConversation[v] \in BOOLEAN /\ losses[v] \in Nat
      BY DEF Types, CallTypes, NetTypes
    <2>2. x \in Message
      BY <2>1, SayTypes DEF Passed
    <2> QED
      BY <2>1, <2>2 DEF Handlers
  <1>3. Send(v, c)
    BY <1>1, KeyAssumption DEF NewMapper, Details
  <1>4. x.type = "SEND_MAPPER_INFO" /\ x.peer = u /\ x.talking = inConversation[v]
    BY DEF Say
  <1> HIDE DEF x, n
  <1>5. x \in In(c) /\ c \in Seq({x})
    BY <1>2, RepeatSays
  <1>6. c \in Seq(Message)
    BY <1>2, RepeatSays
  <1> HIDE DEF c
  <1>7. \A y \in In(c) : y = x
    BY <1>5, InIsRange
  <1>8. inConversation'[v] = inConversation[v]
    BY <1>1 DEF NewMapper
  <1> QED
    BY <1>3, <1>4, <1>5, <1>6, <1>7, <1>8

\* An event that leaves the page itself where it is.
LEMMA StayingTalkOwn ==
    ASSUME Types, ChatInv, NEW v \in User, StayingEvent(v), Peaceful',
           NEW u \in User, Together(u, v)
    PROVE  /\ WillKnow(u, v) => WillKnow(u, v)'
           /\ inConversation'[v] /\ (inConversation[v] => WillBeCounted(u, v)) =>
                 WillBeCounted(u, v)'
  <1> DEFINE q == Out(v)
  <1>0. /\ u # v /\ link[u] # NoSocket /\ link[v] # NoSocket /\ OnMap(v)
        /\ activeMap[v] \in Map /\ chat[v]
    BY ChatIsThere DEF Together, OnMap, Types, PageTypes
  <1>1. /\ link' = link /\ mappersOnMap'[u] = mappersOnMap[u]
        /\ q \in Seq(Message)
    BY <1>0, StayingAlone, OrderParts
  <1>2. PICK c \in Seq(Message) : Send(v, c) /\ Chatter(c)
    BY StayingStays, StaysIs
  <1>3. Out(v)' = q \o c /\ (JoinComes(u) => JoinComes(u)')
    <2>1. Out(v)' = q \o c /\ Out(u)' = Out(u)
      BY <1>0, <1>1, <1>2, SendIs
    <2> QED
      BY <2>1 DEF JoinComes
  <1>4. Clear(c, Departs)
    BY <1>2 DEF Clear, Departs, Chatter
  <1>5. /\ toClient'[link[u]] = toClient[link[u]]
        /\ ~Receive(v) => toClient'[link[v]] = toClient[link[v]]
    <2>1. CASE Receive(v)
      <3>1. link[v] # link[u] /\ link[u] \in Socket
        BY <1>0, LinksAreOwn
      <3> QED
        BY <2>1, <3>1, ReceiveIs
    <2> QED
      BY <2>1, StayingIs
  <1>6. (WillHold(u, v)' <=> WillHold(u, v)) /\ (WillCount(u, v)' <=> WillCount(u, v))
    BY <1>1, <1>5 DEF WillHold, WillCount, Holds, HoldsTalking, Shows, Removes, TellsTalk,
                      TellsHush
  <1>7. Known(u, v) => Known(u, v)'
    <2> HIDE DEF q
    <2>1. /\ Clear(q \o c, Departs) <=> Clear(q, Departs) /\ Clear(c, Departs)
          /\ Lasts(q \o c, Announces(u), Departs) <=>
                \/ Lasts(c, Announces(u), Departs)
                \/ Lasts(q, Announces(u), Departs) /\ Clear(c, Departs)
      BY <1>1, <1>2, LastsAppend
    <2>2. Known(u, v) <=> \/ Lasts(q, Announces(u), Departs)
                          \/ Clear(q, Departs) /\ WillHold(u, v)
      BY DEF Known, q
    <2> QED
      BY <1>3, <1>4, <1>6, <2>1, <2>2, KnownThen
  <1>8. ASSUME inConversation'[v], inConversation[v] => Counted(u, v)
        PROVE  Counted(u, v)'
    <2>1. PICK d \in Seq(Message) : /\ Send(v, d) /\ Clear(d, Silence)
                                    /\ inConversation[v] \/ \E x \in In(d) : x \in CallJoins
      BY <1>0, <1>8, StayingTalk
    <2>2. Out(v)' = q \o d
      BY <1>0, <1>1, <2>1, SendIs
    <2>3. CallJoins \subseteq Speaks(u) /\ Hushes(u) \subseteq Silence
      BY DEF CallJoins, Speaks, Hushes, Silence
    <2>4. /\ Clear(d, Hushes(u))
          /\ (\E x \in In(d) : x \in CallJoins) => Lasts(d, Speaks(u), Hushes(u))
      <3>1. Clear(d, Hushes(u))
        BY <2>1, <2>3, LastsFrom
      <3> QED
        BY <2>1, <2>3, <3>1, LastsFrom
    <2>5. Counted(u, v) <=> \/ Lasts(q, Speaks(u), Hushes(u))
                            \/ Clear(q, Hushes(u)) /\ WillCount(u, v)
      BY DEF Counted, q
    <2> HIDE DEF q
    <2>6. /\ Clear(q \o d, Hushes(u)) <=> Clear(q, Hushes(u)) /\ Clear(d, Hushes(u))
          /\ Lasts(q \o d, Speaks(u), Hushes(u)) <=>
                \/ Lasts(d, Speaks(u), Hushes(u))
                \/ Lasts(q, Speaks(u), Hushes(u)) /\ Clear(d, Hushes(u))
      BY <1>1, <2>1, LastsAppend
    <2> QED
      BY <1>6, <1>8, <2>1, <2>2, <2>4, <2>5, <2>6, KnownThen
  \* Who is new to v is told by v itself.
  <1>9. ASSUME HearsOf(v, u), ~HearsOf(v, u)'
        PROVE  Known(u, v)' /\ (inConversation'[v] => Counted(u, v)')
    <2>1. /\ Receive(v)
          /\ Head(toClient[link[v]]).type = "NEW_MAPPER" /\ Head(toClient[link[v]]).about = u
      <3>1. Receive(v)
        BY <1>1, <1>5, <1>9 DEF HearsOf
      <3> DEFINE r == toClient[link[v]]
      <3>2. r \in Seq(Notice) /\ r # <<>> /\ toClient'[link[v]] = Tail(r)
        BY <3>1, ReceiveIs
      <3>3. In(r) = {Head(r)} \cup In(Tail(r))
        <4> HIDE DEF r
        <4> QED
          BY <3>2, InTail
      <3>4. PICK x \in In(r) : x.type = "NEW_MAPPER" /\ x.about = u
        BY <1>9, ComesIs
      <3>5. x \notin In(Tail(r))
        <4>1. HearsOf(v, u)' <=> \E k \in 1..Len(Tail(r)) : /\ Tail(r)[k].type = "NEW_MAPPER"
                                                            /\ Tail(r)[k].about = u
          BY <1>1, <3>2 DEF HearsOf
        <4> HIDE DEF r
        <4> QED
          BY <1>9, <3>4, <4>1 DEF In
      <3> QED
        BY <3>1, <3>3, <3>4, <3>5
    <2>2. PICK d \in Seq(Message) :
             /\ Send(v, d)
             /\ \E x \in In(d) : /\ x.type = "SEND_MAPPER_INFO" /\ x.peer = u
                                 /\ x.talking = inConversation[v]
                                 /\ \A y \in In(d) : y = x
      BY <1>0, <2>1, ReceiveTells
    <2>3. PICK x \in In(d) : /\ x.type = "SEND_MAPPER_INFO" /\ x.peer = u
                             /\ x.talking = inConversation[v]
                             /\ \A y \in In(d) : y = x
      BY <2>2
    <2>4. x \in Message /\ Out(v)' = q \o d /\ inConversation'[v] = inConversation[v]
      <3>1. x \in Message
        BY <2>2, <2>3, InIsRange
      <3>2. Out(v)' = q \o d
        BY <1>1, <2>2, SendIs
      <3> HIDE DEF q
      <3>3. inConversation'[v] = inConversation[v]
        BY <1>0, <2>1, ReceiveTells
      <3> QED
        BY <3>1, <3>2, <3>3
    <2> HIDE DEF q
    <2>5. Lasts(d, Announces(u), Departs)
      <3>1. x \in Announces(u) /\ x \notin Departs
        BY <2>3, <2>4 DEF Announces, Departs, Leaves
      <3>2. Clear(d, Departs)
        BY <2>2, <2>3, <3>1, LastsFrom
      <3> QED
        BY <2>2, <2>3, <3>1, <3>2, LastsFrom
    <2>6. inConversation'[v] => Lasts(d, Speaks(u), Hushes(u))
      <3> SUFFICES ASSUME inConversation'[v] PROVE Lasts(d, Speaks(u), Hushes(u))
        OBVIOUS
      <3>1. x \in Speaks(u) /\ x \notin Hushes(u)
        BY <2>3, <2>4 DEF Speaks, Hushes, Joins, Leaves
      <3>2. Clear(d, Hushes(u))
        BY <2>2, <2>3, <3>1, LastsFrom
      <3> QED
        BY <2>2, <2>3, <3>1, <3>2, LastsFrom
    <2>7. Lasts(q \o d, Announces(u), Departs)
      BY <1>1, <2>2, <2>5, LastsAppend
    <2>8. inConversation'[v] => Lasts(q \o d, Speaks(u), Hushes(u))
      BY <1>1, <2>2, <2>6, LastsAppend
    <2> QED
      BY <2>4, <2>7, <2>8, KnownThen
  <1>10. WillKnow(u, v) => WillKnow(u, v)'
    BY <1>3, <1>7, <1>9 DEF WillKnow
  <1>11. ASSUME inConversation'[v], inConversation[v] => WillBeCounted(u, v)
         PROVE  WillBeCounted(u, v)'
    BY <1>3, <1>8, <1>9, <1>11 DEF WillBeCounted
  <1> QED
    BY <1>10, <1>11

\* Losses are never forgotten.
LEMMA LossesStay ==
    ASSUME Types, NetInv, HeardInv, [Next]_vars, NEW v \in User, losses'[v] = 0
    PROVE  losses[v] = 0 /\ ((\E w \in User : Lose(w)) \/ losses' = losses)
  <1>1. ASSUME NEW w \in User, Lose(w) PROVE losses[v] = 0
    BY <1>1, LoseIs
  <1>2. ASSUME NEW w \in User, Connect(w) PROVE losses' = losses
    BY <1>2 DEF Connect
  <1>3. ASSUME NEW w \in User, StayingEvent(w) PROVE losses' = losses
    BY <1>3, StayingAlone
  <1>4. ASSUME NEW w \in User, NEW m \in Map \cup {NoMap}, Navigate(w, m) PROVE losses' = losses
    BY <1>4, NavigateIs
  <1>5. ASSUME NEW w \in User, NEW m \in Map, Loaded(w, m) PROVE losses' = losses
    BY <1>5, LoadedIs
  <1>6. CASE \/ \E s \in Socket : Handle(s) \/ Disconnect(s)
             \/ UNCHANGED vars
    <2>1. losses' = losses
      BY <1>6 DEF Handle, Disconnect, vars, netVars
    <2> QED
      BY <2>1
  <1> QED
    BY <1>1, <1>2, <1>3, <1>4, <1>5, <1>6, NextIs

\* A page that talks before it has joined its map joins the call after it.
LEMMA JoinsInOrderStep ==
    ASSUME OrderInvariant, Background, TalkersOnMap, TalkersOnMap', Unheard, JoinsInOrder,
           [Next]_vars, Peaceful'
    PROVE  JoinsInOrder'
  <1>0. Types /\ NetInv /\ HeardInv /\ ChatInv
    BY DEF OrderInvariant, Background
  <1> SUFFICES ASSUME NEW v \in User, losses'[v] = 0, inConversation'[v], JoinComes(v)'
               PROVE  Lasts(Out(v)', CallJoins, Silence)
    BY DEF JoinsInOrder, CallJoins, Silence, Joins, Leaves
  <1> DEFINE q == Out(v)
  <1>1. /\ OnMap(v)' /\ losses[v] = 0 /\ q \in Seq(Message)
        /\ inConversation[v] => OnMap(v) /\ link[v] # NoSocket
    BY <1>0, LossesStay, OrderParts DEF TalkersOnMap, Unheard
  <1>2. ASSUME Out(v)' = Out(v), inConversation'[v] => inConversation[v]
        PROVE  Lasts(Out(v)', CallJoins, Silence)
    <2>1. JoinComes(v)
      BY <1>2 DEF JoinComes
    <2> QED
      BY <1>1, <1>2, <2>1 DEF JoinsInOrder
  <1>3. \A x : Joins(x) /\ x \in Message => x \in Silence
    BY DEF Silence
  <1>4. ASSUME NEW w \in User, StayingEvent(w) PROVE Lasts(Out(v)', CallJoins, Silence)
    <2>1. /\ link' = link
          /\ OnMap(v)' <=> OnMap(v)
          /\ w # v => inConversation'[v] = inConversation[v]
      BY <1>0, <1>4, StayingStays, StayingAlone, OnMapStays DEF Stays, pageVars
    <2>2. CASE w # v
      <3>1. PICK c \in Seq(Message) : Send(w, c)
        BY <1>0, <1>4, StayingStays, StaysIs
      <3> QED
        BY <1>0, <1>2, <2>1, <2>2, <3>1, SendIs
    <2>3. CASE w = v
      <3>1. OnMap(v) /\ chat[v]
        <4>1. OnMap(v) /\ activeMap[v] \in Map
          BY <1>0, <1>1, <2>1 DEF OnMap, Types, PageTypes
        <4> QED
          BY <1>0, <4>1, ChatIsThere
      <3>2. PICK d \in Seq(Message) : /\ Send(v, d) /\ Clear(d, Silence)
                                      /\ inConversation[v] \/ \E x \in In(d) : x \in CallJoins
        BY <1>0, <1>4, <2>3, <3>1, StayingTalk
      <3>3. Out(v)' = q \o d
        BY <1>0, <2>1, <3>2, SendIs
      <3>4. JoinComes(v)
        <4>1. PICK x \in In(q \o d) : Joins(x)
          <5>1. JoinComes(v)' <=> \E k \in 1..Len(q \o d) : Joins((q \o d)[k])
            BY <3>3 DEF JoinComes
          <5> QED
            BY <5>1 DEF In
        <4> HIDE DEF q
        <4>2. x \in In(q) \/ x \in In(d)
          BY <1>1, <3>2, <4>1, ConcatOnce
        <4>3. x \notin In(d)
          BY <1>3, <3>2, <4>1, InIsRange, LastsFrom
        <4>4. \E k \in 1..Len(q) : Joins(q[k])
          BY <4>1, <4>2, <4>3 DEF In
        <4> QED
          BY <4>4 DEF JoinComes, q
      <3>5. inConversation[v] => Lasts(q, CallJoins, Silence)
        BY <1>1, <3>4 DEF JoinsInOrder
      <3> HIDE DEF q
      <3>6. (\E x \in In(d) : x \in CallJoins) => Lasts(d, CallJoins, Silence)
        BY <3>2, LastsFrom
      <3>7. Lasts(q \o d, CallJoins, Silence)
        BY <1>1, <3>2, <3>5, <3>6, LastsAppend
      <3> QED
        BY <3>3, <3>7
    <2> QED
      BY <2>2, <2>3
  <1>5. ASSUME NEW w \in User, NEW m \in Map \cup {NoMap}, Navigate(w, m)
        PROVE  Lasts(Out(v)', CallJoins, Silence)
    <2>1. ~OnMap(w)' /\ Send(w, Farewell(w)) /\ link' = link
      BY <1>0, <1>5, NavigateIs
    <2>2. w # v
      BY <1>1, <2>1
    <2>3. Farewell(w) \in Seq(Message) /\ inConversation'[v] = inConversation[v]
      BY <1>0, <1>5, <2>2, FarewellIs, NavigateAlone
    <2> QED
      BY <1>0, <1>2, <2>1, <2>2, <2>3, SendIs
  <1>6. ASSUME NEW w \in User, NEW m \in Map, Loaded(w, m)
        PROVE  Lasts(Out(v)', CallJoins, Silence)
    <2>1. /\ Send(w, <<JoinMapMessage(m)>>) /\ link' = link
          /\ ~OnMap(w) /\ inConversation' = inConversation
      BY <1>0, <1>6, LoadedIs, LoadedAlone
    <2>2. w # v
      BY <1>1, <2>1
    <2>3. <<JoinMapMessage(m)>> \in Seq(Message)
      <3>1. JoinMapMessage(m) \in Message
        BY SayTypes
      <3> QED
        BY <3>1
    <2> QED
      BY <1>0, <1>2, <2>1, <2>2, <2>3, SendIs
  <1>7. ASSUME NEW w \in User, Connect(w) PROVE Lasts(Out(v)', CallJoins, Silence)
    <2>1. link[w] = NoSocket /\ \A k \in User : k # w => Out(k)' = Out(k)
      BY <1>0, <1>7, ConnectIs
    <2>2. inConversation' = inConversation
      BY <1>7 DEF Connect, callVars
    <2> QED
      BY <1>1, <1>2, <2>1, <2>2
  <1>8. ASSUME NEW w \in User, Lose(w) PROVE Lasts(Out(v)', CallJoins, Silence)
    <2>1. losses'[w] > 0 /\ \A k \in User : k # w => Out(k)' = Out(k)
      BY <1>0, <1>8, LoseIs
    <2>2. inConversation' = inConversation
      BY <1>8 DEF Lose, callVars
    <2> QED
      BY <1>2, <2>1, <2>2
  <1>9. ASSUME NEW s \in Socket, Handle(s) PROVE Lasts(Out(v)', CallJoins, Silence)
    <2>1. /\ Out(v)' = IF link[v] = s THEN Tail(q) ELSE q
          /\ link[v] = s => q = toServer[s]
          /\ toServer[s] # <<>>
      BY <1>0, <1>9, HandleOut, HandleIs
    <2>2. inConversation' = inConversation
      BY <1>9 DEF Handle, callVars
    <2>3. CASE link[v] # s
      BY <1>2, <2>1, <2>2, <2>3
    <2>4. CASE link[v] = s
      <3>1. Out(v)' = Tail(q) /\ q # <<>>
        BY <2>1, <2>4
      <3>2. PICK x \in In(Tail(q)) : Joins(x)
        <4>1. JoinComes(v)' <=> \E k \in 1..Len(Tail(q)) : Joins(Tail(q)[k])
          BY <3>1 DEF JoinComes
        <4> QED
          BY <4>1 DEF In
      <3>3. JoinComes(v)
        <4> HIDE DEF q
        <4>0. In(q) = {Head(q)} \cup In(Tail(q))
          BY <1>1, <3>1, InTail
        <4>1. x \in In(q)
          BY <3>2, <4>0
        <4>2. \E k \in 1..Len(q) : Joins(q[k])
          BY <3>2, <4>1 DEF In
        <4> QED
          BY <4>2 DEF JoinComes, q
      <3>4. Lasts(q, CallJoins, Silence)
        BY <1>1, <2>2, <3>3 DEF JoinsInOrder
      <3> HIDE DEF q
      <3>5. Tail(q) \in Seq(Message)
        BY <1>1, <3>1
      <3>6. ~Clear(Tail(q), Silence)
        <4>1. x \in Message
          BY <3>2, <3>5, InIsRange
        <4>2. x \in Silence
          BY <1>3, <3>2, <4>1
        <4> QED
          BY <3>2, <4>2 DEF Clear, In
      <3>7. Lasts(q, CallJoins, Silence) <=> \/ Head(q) \in CallJoins /\ Clear(Tail(q), Silence)
                                             \/ Lasts(Tail(q), CallJoins, Silence)
        BY <1>1, <3>1, LastsTail
      <3> QED
        BY <3>1, <3>4, <3>6, <3>7
    <2> QED
      BY <2>3, <2>4
  <1>10. CASE \/ \E s \in Socket : Disconnect(s)
              \/ UNCHANGED vars
    <2>1. /\ inConversation' = inConversation /\ link' = link /\ toServer' = toServer
          /\ sendBuffer' = sendBuffer
      BY <1>10 DEF Disconnect, vars, callVars, netVars
    <2> QED
      BY <1>2, <2>1 DEF Out
  <1> QED
    BY <1>4, <1>5, <1>6, <1>7, <1>8, <1>9, <1>10, NextIs

\* Who has yet to join its map will be known there.
Joiners == \A u, v \in User : OnMap(v) /\ JoinComes(v) => Known(u, v)

\* In the state after a step too.
LEMMA JoinersThen == (Types /\ StayInv)' => Joiners'
  <1>1. Types /\ StayInv => Joiners
    BY JoinerKnown DEF Joiners
  <1> QED
    BY <1>1, PTL

\* Every step keeps what the pages will know of who talks.
LEMMA TalkStep ==
    ASSUME OrderInvariant, OrderInvariant', Lists, Background, Background', Unheard, Alone,
           TalkersOnMap, JoinsInOrder, Talkers, [Next]_vars, Peaceful'
    PROVE  Talkers'
  <1>0. /\ Types /\ Types' /\ NetInv /\ Peaceful /\ Calm /\ Calm' /\ Called
        /\ HeardInv /\ ChatInv /\ RoomInv /\ StayInv /\ InfoInv /\ StayInv'
    <2>1. Types /\ Types' /\ NetInv
      BY DEF OrderInvariant
    <2>2. Peaceful
      BY <2>1, PeaceBefore
    <2>3. Calm /\ Calm' /\ Called
      BY <2>2 DEF Peaceful, Calm, Called
    <2> QED
      BY <2>1, <2>2, <2>3 DEF Background
  <1> SUFFICES ASSUME NEW u \in User, NEW v \in User, Together(u, v)', losses'[v] = 0
               PROVE  WillKnow(u, v)' /\ (inConversation'[v] => WillBeCounted(u, v)')
    BY DEF Talkers
  <1>1. /\ u # v /\ link'[u] # NoSocket /\ link'[v] # NoSocket /\ OnMap(u)' /\ OnMap(v)'
        /\ activeMap'[u] = activeMap'[v] /\ losses[v] = 0
    BY <1>0, LossesStay DEF Together
  \* What is as it was for pages u and v.
  <1>2. ASSUME link'[u] = link[u], link'[v] = link[v], OnMap(u), OnMap(v),
               activeMap'[u] = activeMap[u], activeMap'[v] = activeMap[v],
               mappersOnMap'[u] = mappersOnMap[u], inConversation'[v] => inConversation[v],
               toClient'[link[u]] = toClient[link[u]], toClient'[link[v]] = toClient[link[v]],
               In(Out(u)) \subseteq In(Out(u))', Out(v)' = Out(v)
        PROVE  WillKnow(u, v)' /\ (inConversation'[v] => WillBeCounted(u, v)')
    <2>1. WillKnow(u, v) /\ (inConversation[v] => WillBeCounted(u, v))
      BY <1>1, <1>2 DEF Talkers, Together
    <2>2. /\ HearsOf(v, u) => HearsOf(v, u)'
          /\ JoinComes(u) => JoinComes(u)'
      <3>1. HearsOf(v, u) => HearsOf(v, u)'
        BY <1>2 DEF HearsOf
      <3>2. JoinComes(u) => JoinComes(u)'
        BY <1>2 DEF JoinComes, In
      <3> QED
        BY <3>1, <3>2
    <2>3. (WillHold(u, v)' <=> WillHold(u, v)) /\ (WillCount(u, v)' <=> WillCount(u, v))
      BY <1>2 DEF WillHold, WillCount, Holds, HoldsTalking, Shows, Removes, TellsTalk, TellsHush
    <2>4. (Known(u, v) => Known(u, v)') /\ (Counted(u, v) => Counted(u, v)')
      BY <1>2, <2>3, KnownThen DEF Known, Counted
    <2> QED
      BY <1>2, <2>1, <2>2, <2>4 DEF WillKnow, WillBeCounted
  <1>3. \A k \in User : Out(k)' = Out(k) => In(Out(k)) \subseteq In(Out(k))'
    BY DEF In
  <1>4. ASSUME NEW c, NEW e, Joins(e), e \in In(c), NEW k \in User, Out(k)' = c
        PROVE  JoinComes(k)'
    BY <1>4 DEF JoinComes, In
  <1>5. \A m \in Map : Joins(JoinMapMessage(m))
    BY DEF Joins, JoinMapMessage, Say
  \* A page that is to join its map again.
  <1>6. /\ JoinComes(u)' => WillKnow(u, v)' /\ WillBeCounted(u, v)'
        /\ JoinComes(v)' => WillKnow(u, v)'
    <2>1. JoinComes(v)' => Known(u, v)'
      BY <1>0, <1>1, JoinersThen DEF Joiners
    <2> QED
      BY <2>1 DEF WillKnow, WillBeCounted
  <1>7. ASSUME NEW w \in User, Connect(w)
        PROVE  WillKnow(u, v)' /\ (inConversation'[v] => WillBeCounted(u, v)')
    <2>1. PICK s \in Socket :
             /\ toClient' = toClient /\ Out(w)' = Rejoin(w) \o sendBuffer[w] /\ link[w] = NoSocket
             /\ \A k \in User : k # w => link'[k] = link[k] /\ Out(k)' = Out(k)
             /\ activeMap' = activeMap /\ mapId' = mapId /\ loading' = loading
      BY <1>0, <1>7, ConnectIs
    <2>2. \A k \in User : OnMap(k)' <=> OnMap(k)
      BY <2>1, OnMapStays
    <2>3. mappersOnMap' = mappersOnMap /\ inConversation' = inConversation
      BY <1>7 DEF Connect, callVars, peopleVars
    <2>4. w \in {u, v} => JoinComes(w)'
      <3> SUFFICES ASSUME w \in {u, v} PROVE JoinComes(w)'
        OBVIOUS
      <3>1. activeMap[w] \in Map /\ activeMap[w] # NoMap
        BY <1>0, <1>1, <2>2 DEF OnMap, Types, PageTypes
      <3> DEFINE x == JoinMapMessage(activeMap[w])
                 q == <<x>>
                 b == sendBuffer[w]
      <3>2. Rejoin(w) = q /\ q \in Seq(Message) /\ b \in Seq(Message)
        BY <1>0, <3>1, RejoinIs, OrderParts
      <3>3. x \in In(q) /\ Joins(x)
        BY <1>5, <3>1, InShort
      <3>4. Out(w)' = q \o b
        BY <2>1, <3>2
      <3> HIDE DEF x, q, b
      <3>5. x \in In(q \o b)
        BY <3>2, <3>3, ConcatOnce
      <3> DEFINE c == q \o b
      <3>6. PICK c1, x1 : c1 = c /\ x1 = x
        OBVIOUS
      <3> HIDE DEF c
      <3>7. Joins(x1) /\ x1 \in In(c1) /\ Out(w)' = c1
        BY <3>3, <3>4, <3>5, <3>6 DEF c
      <3> QED
        BY <1>4, <3>7
    <2>5. CASE w = u
      BY <1>6, <2>4, <2>5
    <2>6. CASE w = v
      <3>1. ~inConversation'[v]
        BY <1>1, <2>1, <2>3, <2>6 DEF Unheard
      <3> QED
        BY <1>6, <2>4, <2>6, <3>1
    <2>7. CASE w \notin {u, v}
      BY <1>1, <1>2, <1>3, <2>1, <2>2, <2>3, <2>7
    <2> QED
      BY <2>5, <2>6, <2>7
  <1>8. ASSUME NEW w \in User, Lose(w)
        PROVE  WillKnow(u, v)' /\ (inConversation'[v] => WillBeCounted(u, v)')
    <2>1. /\ link'[w] = NoSocket
          /\ \A s \in Socket : s # link[w] => toClient'[s] = toClient[s]
          /\ \A k \in User : k # w => /\ link'[k] = link[k] /\ link[k] # link[w]
                                      /\ Out(k)' = Out(k)
          /\ activeMap' = activeMap /\ mapId' = mapId /\ loading' = loading
      BY <1>0, <1>8, LoseIs
    <2>2. \A k \in User : OnMap(k)' <=> OnMap(k)
      BY <2>1, OnMapStays
    <2>3. mappersOnMap' = mappersOnMap /\ inConversation' = inConversation
      BY <1>8 DEF Lose, callVars, peopleVars
    <2>4. w \notin {u, v}
      BY <1>1, <2>1
    <2>5. link[u] \in Socket /\ link[v] \in Socket
      BY <1>0, <1>1, <2>1, <2>4, LinksAreOwn
    <2>6. toClient'[link[u]] = toClient[link[u]] /\ toClient'[link[v]] = toClient[link[v]]
      BY <2>1, <2>4, <2>5
    <2> QED
      BY <1>1, <1>2, <1>3, <2>1, <2>2, <2>3, <2>4, <2>6
  <1>9. ASSUME NEW w \in User, NEW m \in Map \cup {NoMap}, Navigate(w, m)
        PROVE  WillKnow(u, v)' /\ (inConversation'[v] => WillBeCounted(u, v)')
    <2>1. /\ ~OnMap(w)'
          /\ \A k \in User : k # w => /\ OnMap(k)' <=> OnMap(k)
                                      /\ activeMap'[k] = activeMap[k]
          /\ Send(w, Farewell(w)) /\ link' = link /\ toClient' = toClient
      BY <1>0, <1>9, NavigateIs
    <2>2. w \notin {u, v}
      BY <1>1, <2>1
    <2>3. mappersOnMap' = mappersOnMap /\ inConversation'[v] = inConversation[v]
      BY <1>0, <1>9, <2>2, NavigateAlone
    <2>4. Out(u)' = Out(u) /\ Out(v)' = Out(v)
      <3>1. Farewell(w) \in Seq(Message)
        BY <1>0, FarewellIs
      <3> QED
        BY <1>0, <2>1, <2>2, <3>1, SendIs
    <2> QED
      BY <1>1, <1>2, <1>3, <2>1, <2>2, <2>3, <2>4
  <1>10. ASSUME NEW w \in User, NEW m \in Map, Loaded(w, m)
         PROVE  WillKnow(u, v)' /\ (inConversation'[v] => WillBeCounted(u, v)')
    <2>1. /\ \A k \in User : k # w => /\ OnMap(k)' <=> OnMap(k)
                                      /\ activeMap'[k] = activeMap[k]
          /\ Send(w, <<JoinMapMessage(m)>>) /\ link' = link /\ toClient' = toClient
          /\ ~OnMap(w) /\ mappersOnMap' = mappersOnMap /\ inConversation' = inConversation
      BY <1>0, <1>10, LoadedIs, LoadedAlone
    <2>2. /\ \A k \in User : k # w => Out(k)' = Out(k)
          /\ JoinComes(w)'
      <3> DEFINE x == JoinMapMessage(m)
                 c == <<x>>
      <3>1. x \in Message /\ Joins(x) /\ x \in In(c)
        BY <1>5, SayTypes, InShort
      <3>2. c \in Seq(Message) /\ Send(w, c)
        BY <2>1, <3>1
      <3> HIDE DEF x, c
      <3>3. (\A k \in User : k # w => Out(k)' = Out(k)) /\ In(c) \subseteq In(Out(w))'
        BY <1>0, <2>1, <3>2, SendAdds, SendIs
      <3> QED
        BY <3>1, <3>3 DEF JoinComes, In
    <2>3. CASE w = u
      BY <1>6, <2>2, <2>3
    <2>4. CASE w = v
      <3>1. ~inConversation'[v]
        BY <2>1, <2>4 DEF TalkersOnMap
      <3> QED
        BY <1>6, <2>2, <2>4, <3>1
    <2>5. CASE w \notin {u, v}
      BY <1>1, <1>2, <1>3, <2>1, <2>2, <2>5
    <2> QED
      BY <2>3, <2>4, <2>5
  <1>11. ASSUME link' = link, activeMap' = activeMap, mapId' = mapId, loading' = loading
         PROVE  Together(u, v) /\ WillKnow(u, v) /\ (inConversation[v] => WillBeCounted(u, v))
    <2>1. OnMap(u) /\ OnMap(v)
      BY <1>1, <1>11, OnMapStays
    <2>2. Together(u, v)
      BY <1>1, <1>11, <2>1 DEF Together
    <2> QED
      BY <1>1, <2>2 DEF Talkers
  <1>12. ASSUME NEW w \in User, StayingEvent(w)
         PROVE  WillKnow(u, v)' /\ (inConversation'[v] => WillBeCounted(u, v)')
    <2>1. Together(u, v) /\ WillKnow(u, v) /\ (inConversation[v] => WillBeCounted(u, v))
      BY <1>0, <1>11, <1>12, StayingStays DEF Stays, pageVars
    <2>2. CASE w = v
      BY <1>0, <1>12, <2>1, <2>2, StayingTalkOwn
    <2>3. CASE w # v
      BY <1>0, <1>12, <2>1, <2>3, StayingTalkOthers
    <2> QED
      BY <2>2, <2>3
  <1>13. ASSUME NEW s \in Socket, Handle(s)
         PROVE  WillKnow(u, v)' /\ (inConversation'[v] => WillBeCounted(u, v)')
    <2>1. Together(u, v) /\ WillKnow(u, v) /\ (inConversation[v] => WillBeCounted(u, v))
      BY <1>0, <1>11, <1>13, HandleOut
    <2>2. inConversation' = inConversation
      BY <1>13 DEF Handle, callVars
    <2> QED
      BY <1>0, <1>1, <1>13, <2>1, <2>2, HandleTalk
  <1>14. ASSUME NEW s \in Socket, Disconnect(s)
         PROVE  WillKnow(u, v)' /\ (inConversation'[v] => WillBeCounted(u, v)')
    <2>1. Together(u, v) /\ WillKnow(u, v) /\ (inConversation[v] => WillBeCounted(u, v))
      BY <1>0, <1>11, <1>14, DisconnectOut
    <2>2. inConversation' = inConversation
      BY <1>14 DEF Disconnect, callVars
    <2> QED
      BY <1>0, <1>1, <1>14, <2>1, <2>2, DisconnectTalk
  <1>15. CASE UNCHANGED vars
    <2>1. /\ link' = link /\ mappersOnMap' = mappersOnMap /\ toClient' = toClient
          /\ activeMap' = activeMap /\ mapId' = mapId /\ loading' = loading
          /\ sendBuffer' = sendBuffer /\ toServer' = toServer /\ inConversation' = inConversation
      BY <1>15 DEF vars, netVars, peopleVars, pageVars, callVars
    <2>2. OnMap(u) /\ OnMap(v) /\ \A k \in User : Out(k)' = Out(k)
      BY <1>1, <2>1, OnMapStays DEF Out
    <2> QED
      BY <1>1, <1>2, <1>3, <2>1, <2>2
  <1> QED
    BY <1>7, <1>8, <1>9, <1>10, <1>12, <1>13, <1>14, <1>15, NextIs

\* At first nobody talks, and nobody is connected.
LEMMA TalkInit == Init => Unheard /\ Alone /\ TalkersOnMap /\ JoinsInOrder /\ Talkers
  <1> SUFFICES ASSUME Init PROVE Unheard /\ Alone /\ TalkersOnMap /\ JoinsInOrder /\ Talkers
    OBVIOUS
  <1>1. /\ \A u \in User : ~inConversation[u] /\ ~live[u] /\ ~waiting[u] /\ toast[u] = {}
        /\ \A u \in User : link[u] = NoSocket
    BY DEF Init
  <1>2. connected = {}
    BY DEF Init, Server!Init
  <1> QED
    BY <1>1, <1>2 DEF Unheard, Alone, TalkersOnMap, JoinsInOrder, Talkers, Together

\* When nothing is on its way, what a page will count is what it counts.
LEMMA QuietCounts ==
    ASSUME OrderInvariant, Talkers, Quiet, Peaceful,
           NEW m \in Map, NEW u \in Showing(m), NEW v \in Showing(m),
           u # v, inConversation[v], losses[v] = 0
    PROVE  v \in DOMAIN mappersOnMap[u] /\ mappersOnMap[u][v]
  <1>0. /\ Types /\ Calm /\ u \in User /\ v \in User /\ m # NoMap
        /\ activeMap[u] = m /\ activeMap[v] = m
    BY KeyAssumption DEF OrderInvariant, Peaceful, Calm, Showing
  <1>1. \A k \in User : /\ link[k] # NoSocket /\ link[k] \in Socket
                        /\ activeMap[k] = mapId[k]
    BY <1>0, QuietMaps, LinksAreOwn DEF Quiet
  <1>2. \A k \in User : Out(k) = <<>> /\ toClient[link[k]] = <<>>
    BY <1>1 DEF Quiet, Out
  <1>3. Together(u, v)
    BY <1>0, <1>1 DEF Quiet, OnMap, Together
  <1>4. WillBeCounted(u, v)
    BY <1>0, <1>3 DEF Talkers
  <1>5. ~JoinComes(u) /\ ~HearsOf(v, u)
    BY <1>0, <1>2 DEF JoinComes, HearsOf
  <1>6. Counted(u, v)
    BY <1>4, <1>5 DEF WillBeCounted
  <1>7. WillCount(u, v)
    BY <1>0, <1>2, <1>6, NothingLasts DEF Counted
  <1>8. HoldsTalking(u, v)
    BY <1>0, <1>2, <1>7, WillNow
  <1> QED
    BY <1>8 DEF HoldsTalking, Holds

\* When nothing is on its way, and nothing happened out of order, everybody on a map counts
\* among those in the call there whoever talks: what says that a page talks comes after what
\* says that it is there, and nothing that says that it does not comes after it (JOIN_MAP,
\* SEND_MAPPER_INFO, JOIN_CALL and LEAVE_CALL of one page keep their order).  Whom a page
\* that lost its connection told that it talks, its next one tells that it does not.
THEOREM PagesCountTheTalkers == Spec => []PagesCountTalkers
  <1> DEFINE Whole == /\ OrderInvariant /\ Lists /\ Background /\ Unheard /\ Alone
                      /\ Peaceful => TalkersOnMap /\ JoinsInOrder /\ Talkers
  <1>1. Init => Whole
    BY OrderInit, ListsInit, BackgroundInit, TalkInit
  <1>2. Whole /\ [Next]_vars => Whole'
    <2> SUFFICES ASSUME Whole, [Next]_vars PROVE Whole'
      OBVIOUS
    <2>1. OrderInvariant'
      BY OrderStep
    <2>2. Lists'
      BY <2>1, ListsStep
    <2>3. Background'
      BY <2>1, BackgroundStep
    <2>4. Types /\ NetInv /\ HeardInv
      BY DEF OrderInvariant, Background
    <2>5. Unheard' /\ Alone'
      BY <2>4, UnheardStep, AloneStep
    <2>6. ASSUME Peaceful' PROVE TalkersOnMap' /\ JoinsInOrder' /\ Talkers'
      <3>1. TalkersOnMap /\ JoinsInOrder /\ Talkers
        BY <2>4, <2>6, PeaceBefore
      <3>2. TalkersOnMap'
        BY <2>4, <2>6, <3>1, TalkersStep
      <3>3. JoinsInOrder'
        BY <2>6, <3>1, <3>2, JoinsInOrderStep
      <3> QED
        BY <2>1, <2>3, <2>6, <3>1, <3>2, <3>3, TalkStep
    <2> QED
      BY <2>1, <2>2, <2>3, <2>5, <2>6
  <1>3. Whole => PagesCountTalkers
    BY QuietCounts DEF PagesCountTalkers, Peaceful
  <1> QED
    BY <1>1, <1>2, <1>3, PTL DEF Spec
=============================================================================
