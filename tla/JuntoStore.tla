------------------------------ MODULE JuntoStore ------------------------------
(***************************************************************************)
(* The reducer of the realtime server's redux store (realtime/reducer.js). *)
(*                                                                         *)
(* The store is a record                                                   *)
(*   connectedPeople  the users some map lists (their names and avatars    *)
(*                    are left out: nothing depends on them);              *)
(*   liveMaps         a function from the ids of the maps that are open to *)
(*                    a function from the users on that map to a flag, 1   *)
(*                    when the user is in the map's call.                  *)
(*                                                                         *)
(* Both are JavaScript objects used as dictionaries, so the keys may also  *)
(* be the strings "null" and "undefined": a socket that has left its map,  *)
(* or never joined one, still dispatches LEAVE_CALL with them.  NoMap and  *)
(* NoUser stand for those two keys, which the reducer treats alike.        *)
(***************************************************************************)
EXTENDS Naturals

CONSTANTS
    User,     \* ids of users
    Map,      \* ids of maps
    NoUser,   \* socket.userid of a socket that never joined a map
    NoMap     \* socket.mapid of a socket that is on no map

ASSUME NoUserAssumption == NoUser \notin User
ASSUME NoMapAssumption == NoMap \notin Map

UserKey == User \cup {NoUser}
MapKey == Map \cup {NoMap}

NOT_IN_CONVERSATION == 0
IN_CONVERSATION == 1
Flag == {NOT_IN_CONVERSATION, IN_CONVERSATION}

\* Dictionaries with keys in K and values in S.
Dictionary(K, S) == UNION {[D -> S] : D \in SUBSET K}

LiveMap == Dictionary(UserKey, Flag)

Store == [connectedPeople : SUBSET User, liveMaps : Dictionary(MapKey, LiveMap)]

EmptyStore == [connectedPeople |-> {}, liveMaps |-> [m \in {} |-> {}]]

-----------------------------------------------------------------------------
\* lodash omit(dict, key) and Object.assign({}, dict, { [key]: value }).

Omit(dict, key) == [k \in DOMAIN dict \ {key} |-> dict[k]]

Assign(dict, key, value) ==
    [k \in DOMAIN dict \cup {key} |-> IF k = key THEN value ELSE dict[k]]

\* liveMaps[m], or the empty object where the code falls back to one.
LiveMapOf(store, m) ==
    IF m \in DOMAIN store.liveMaps THEN store.liveMaps[m] ELSE [u \in {} |-> 0]

PeopleOn(store, m) == DOMAIN LiveMapOf(store, m)

TalkingOn(store, m) ==
    {u \in PeopleOn(store, m) : LiveMapOf(store, m)[u] = IN_CONVERSATION}

-----------------------------------------------------------------------------
\* Mutant of mapWillEmpty: the last to leave leaves an empty entry behind.
mapWillEmpty_Never(store, m) == FALSE

\* The map lists exactly one key, whoever that is.
mapWillEmpty(store, m) == \E u \in PeopleOn(store, m) : PeopleOn(store, m) = {u}

\* Mutant of callWillFinish: two keys or more.
callWillFinish_TwoOrMore(store, m) ==
    \E u, v \in PeopleOn(store, m) : u # v

\* The map lists exactly two keys, in the call or not.
callWillFinish(store, m) ==
    \E u, v \in PeopleOn(store, m) : u # v /\ PeopleOn(store, m) = {u, v}

userStillPresent(u, liveMaps) ==
    u # NoUser /\ \E m \in DOMAIN liveMaps : u \in DOMAIN liveMaps[m]

\* Mutant of addMapperToMap: counts the arrivals of a user instead.
addMapperToMap_Counts(people, u) ==
    Assign(people, u, IF u \in DOMAIN people THEN people[u] + 1 ELSE 0)

addMapperToMap(people, u) == Assign(people, u, NOT_IN_CONVERSATION)

\* mapValues(map, () => NOT_IN_CONVERSATION)
EverybodyHangsUp(people) == [u \in DOMAIN people |-> NOT_IN_CONVERSATION]

\* Mutant of Forget: the other maps that list the user are not looked at.
Forget_Everywhere(store, u, liveMaps) ==
    [connectedPeople |-> store.connectedPeople \ {u},
     liveMaps |-> Omit(liveMaps, NoMap)]

\* What LEAVE_MAP and DISCONNECT do with the new live maps: drop the entry
\* named null or undefined, then forget the user unless some map lists them.
Forget(store, u, liveMaps) ==
    LET real == Omit(liveMaps, NoMap)
    IN  [connectedPeople |-> IF userStillPresent(u, real)
                             THEN store.connectedPeople
                             ELSE store.connectedPeople \ {u},
         liveMaps |-> real]

-----------------------------------------------------------------------------
\* One operator per action type of the reducer.

ReduceJoinMap(store, m, u) ==
    [connectedPeople |-> store.connectedPeople \cup {u},
     liveMaps |-> Assign(store.liveMaps, m, addMapperToMap(LiveMapOf(store, m), u))]

ReduceLeaveMap(store, m, u) ==
    Forget(store, u,
           IF mapWillEmpty(store, m)
           THEN Omit(store.liveMaps, m)
           ELSE Assign(store.liveMaps, m, Omit(LiveMapOf(store, m), u)))

ReduceJoinCall(store, m, u) ==
    [store EXCEPT !.liveMaps =
        Assign(@, m, Assign(LiveMapOf(store, m), u, IN_CONVERSATION))]

ReduceLeaveCall(store, m, u) ==
    [store EXCEPT !.liveMaps =
        Assign(@, m, IF callWillFinish(store, m)
                     THEN EverybodyHangsUp(LiveMapOf(store, m))
                     ELSE Assign(LiveMapOf(store, m), u, NOT_IN_CONVERSATION))]

\* Mutant of ReduceDisconnect: the call of two is ended in the map that still
\* lists the user who went.
ReduceDisconnect_HangsUpOnAll(store, m, u) ==
    Forget(store, u,
           IF mapWillEmpty(store, m)
           THEN Omit(store.liveMaps, m)
           ELSE Assign(store.liveMaps, m,
                       IF callWillFinish(store, m)
                       THEN EverybodyHangsUp(LiveMapOf(store, m))
                       ELSE Omit(LiveMapOf(store, m), u)))

ReduceDisconnect(store, m, u) ==
    LET others == Omit(LiveMapOf(store, m), u)
    IN  Forget(store, u,
               IF mapWillEmpty(store, m)
               THEN Omit(store.liveMaps, m)
               ELSE Assign(store.liveMaps, m,
                           IF callWillFinish(store, m)
                           THEN EverybodyHangsUp(others)
                           ELSE others))
=============================================================================
