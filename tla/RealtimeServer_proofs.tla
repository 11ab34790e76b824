------------------------- MODULE RealtimeServer_proofs -------------------------
(***************************************************************************)
(* Theorems about the realtime server, for any number of users, maps and   *)
(* connections.                                                            *)
(*                                                                         *)
(* First what the reducer of module JuntoStore returns: for every action   *)
(* type, that the result is a store, and who is listed and who is talking  *)
(* on each map afterwards.  What follows cites these facts and never       *)
(* expands the reducer.                                                    *)
(*                                                                         *)
(* TypeOK and RoomsFollowSockets are inductive.  On top of them, and when  *)
(* every user has one connection (OneTab), whoever is in a map's room is   *)
(* listed for that map; from this, LEAVE_MAP and DISCONNECT can only empty *)
(* a map's list when the one user on it is the one who leaves, which is    *)
(* what the other properties need.                                         *)
(*                                                                         *)
(* Last, the store implements Presence when every user has one connection; *)
(* and two theorems hold for any number of tabs: the store invents nobody, *)
(* and nobody keeps a feed that is gone.                                   *)
(***************************************************************************)
EXTENDS RealtimeServer, TLAPS

-----------------------------------------------------------------------------
\* The reducer.

\* A dictionary is a function from some of the keys.
LEMMA DictionaryIs ==
    ASSUME NEW K, NEW S, NEW d
    PROVE  d \in Dictionary(K, S) <=> (DOMAIN d \subseteq K /\ d \in [DOMAIN d -> S])
  BY DEF Dictionary

\* omit() returns a dictionary without the key.
LEMMA OmitIs ==
    ASSUME NEW K, NEW S, NEW d \in Dictionary(K, S), NEW k
    PROVE  /\ Omit(d, k) \in Dictionary(K, S)
           /\ DOMAIN Omit(d, k) = DOMAIN d \ {k}
           /\ \A x \in DOMAIN Omit(d, k) : Omit(d, k)[x] = d[x]
  <1>1. DOMAIN d \subseteq K /\ \A x \in DOMAIN d : d[x] \in S
    BY DictionaryIs
  <1> QED
    BY <1>1, DictionaryIs DEF Omit

\* Object.assign() of one key returns a dictionary with that key.
LEMMA AssignIs ==
    ASSUME NEW K, NEW S, NEW d \in Dictionary(K, S), NEW k \in K, NEW v \in S
    PROVE  /\ Assign(d, k, v) \in Dictionary(K, S)
           /\ DOMAIN Assign(d, k, v) = DOMAIN d \cup {k}
           /\ Assign(d, k, v)[k] = v
           /\ \A x \in DOMAIN d : x # k => Assign(d, k, v)[x] = d[x]
  <1>1. DOMAIN d \subseteq K /\ \A x \in DOMAIN d : d[x] \in S
    BY DictionaryIs
  <1> QED
    BY <1>1, DictionaryIs DEF Assign

\* Values of the field liveMaps, and the list it gives for a map, if any.
Lives == Dictionary(MapKey, LiveMap)

ListIn(live, m) == IF m \in DOMAIN live THEN live[m] ELSE [u \in {} |-> 0]

LEMMA ListInType ==
    ASSUME NEW live \in Lives, NEW m
    PROVE  /\ DOMAIN live \subseteq MapKey
           /\ ListIn(live, m) \in LiveMap
           /\ DOMAIN ListIn(live, m) \subseteq UserKey
           /\ m \notin DOMAIN live => DOMAIN ListIn(live, m) = {}
  <1>1. live \in Dictionary(MapKey, LiveMap)
    BY DEF Lives
  <1>2. DOMAIN live \subseteq MapKey /\ \A k \in DOMAIN live : live[k] \in LiveMap
    BY <1>1, DictionaryIs
  <1>3. CASE m \in DOMAIN live
    BY <1>2, <1>3, DictionaryIs DEF ListIn, LiveMap
  <1>4. CASE m \notin DOMAIN live
    <2> DEFINE empty == [u \in {} |-> 0]
    <2>1. DOMAIN empty = {} /\ empty \in [DOMAIN empty -> Flag]
      OBVIOUS
    <2>2. empty \in LiveMap
      BY <2>1, DictionaryIs DEF LiveMap
    <2> QED
      BY <1>2, <2>1, <2>2, <1>4 DEF ListIn
  <1> QED
    BY <1>3, <1>4

\* liveMaps[m] || {} is the list of a map.
LEMMA LiveMapOfType ==
    ASSUME NEW store \in Store, NEW m
    PROVE  /\ store.liveMaps \in Lives
           /\ LiveMapOf(store, m) = ListIn(store.liveMaps, m)
           /\ PeopleOn(store, m) = DOMAIN LiveMapOf(store, m)
           /\ LiveMapOf(store, m) \in LiveMap
           /\ PeopleOn(store, m) \subseteq UserKey
           /\ m \notin DOMAIN store.liveMaps => PeopleOn(store, m) = {}
  <1>1. store.liveMaps \in Lives
    BY DEF Store, Lives
  <1>2. LiveMapOf(store, m) = ListIn(store.liveMaps, m)
    BY DEF LiveMapOf, ListIn
  <1> QED
    BY <1>1, <1>2, ListInType DEF PeopleOn

\* Object.assign({}, liveMaps, { [m]: people }) changes the list of m only.
LEMMA AssignList ==
    ASSUME NEW live \in Lives, NEW m \in MapKey, NEW people \in LiveMap
    PROVE  /\ Assign(live, m, people) \in Lives
           /\ ListIn(Assign(live, m, people), m) = people
           /\ \A k : k # m => ListIn(Assign(live, m, people), k) = ListIn(live, k)
           /\ DOMAIN Assign(live, m, people) = DOMAIN live \cup {m}
  <1>1. live \in Dictionary(MapKey, LiveMap)
    BY DEF Lives
  <1>2. Assign(live, m, people) \in Dictionary(MapKey, LiveMap)
    BY <1>1, AssignIs
  <1> QED
    BY <1>2 DEF Lives, Assign, ListIn

\* omit(liveMaps, m) changes the list of m only.
LEMMA OmitList ==
    ASSUME NEW live \in Lives, NEW m
    PROVE  /\ Omit(live, m) \in Lives
           /\ DOMAIN ListIn(Omit(live, m), m) = {}
           /\ \A k : k # m => ListIn(Omit(live, m), k) = ListIn(live, k)
           /\ DOMAIN Omit(live, m) = DOMAIN live \ {m}
  <1>1. live \in Dictionary(MapKey, LiveMap)
    BY DEF Lives
  <1>2. Omit(live, m) \in Dictionary(MapKey, LiveMap)
    BY <1>1, OmitIs
  <1> QED
    BY <1>2 DEF Lives, Omit, ListIn

-----------------------------------------------------------------------------
\* addMapperToMap and the hang-up of everybody keep the people they are given.
LEMMA PeopleAfter ==
    ASSUME NEW people \in LiveMap, NEW u \in UserKey, NEW flag \in Flag
    PROVE  /\ Omit(people, u) \in LiveMap
           /\ DOMAIN Omit(people, u) = DOMAIN people \ {u}
           /\ Assign(people, u, flag) \in LiveMap
           /\ DOMAIN Assign(people, u, flag) = DOMAIN people \cup {u}
           /\ EverybodyHangsUp(people) \in LiveMap
           /\ DOMAIN EverybodyHangsUp(people) = DOMAIN people
           /\ addMapperToMap(people, u) = Assign(people, u, NOT_IN_CONVERSATION)
  <1>0. people \in Dictionary(UserKey, Flag)
    BY DEF LiveMap
  <1>1. Omit(people, u) \in LiveMap /\ DOMAIN Omit(people, u) = DOMAIN people \ {u}
    <2>1. Omit(people, u) \in Dictionary(UserKey, Flag)
      BY <1>0, OmitIs
    <2> QED
      BY <2>1 DEF LiveMap, Omit
  <1>2. /\ Assign(people, u, flag) \in LiveMap
        /\ DOMAIN Assign(people, u, flag) = DOMAIN people \cup {u}
    <2>1. Assign(people, u, flag) \in Dictionary(UserKey, Flag)
      BY <1>0, AssignIs
    <2> QED
      BY <2>1 DEF LiveMap, Assign
  <1>3. EverybodyHangsUp(people) \in LiveMap
        /\ DOMAIN EverybodyHangsUp(people) = DOMAIN people
    <2>1. DOMAIN people \subseteq UserKey
      BY DictionaryIs DEF LiveMap
    <2> QED
      BY <2>1, DictionaryIs DEF LiveMap, EverybodyHangsUp, Flag, NOT_IN_CONVERSATION
  <1> QED
    BY <1>1, <1>2, <1>3 DEF addMapperToMap

\* Forget() drops only the entry that is no map, and keeps in the directory
\* whoever some map lists.
LEMMA ForgetIs ==
    ASSUME NEW store \in Store, NEW live \in Lives, NEW u \in UserKey
    PROVE  /\ Forget(store, u, live) \in Store
           /\ \A k \in Map : LiveMapOf(Forget(store, u, live), k) = ListIn(live, k)
           /\ DOMAIN Forget(store, u, live).liveMaps = DOMAIN live \cap Map
           /\ Forget(store, u, live).connectedPeople =
                 IF u # NoUser /\ (\E k \in Map : u \in DOMAIN ListIn(live, k))
                 THEN store.connectedPeople
                 ELSE store.connectedPeople \ {u}
  <1> DEFINE real == Omit(live, NoMap)
             directory == IF userStillPresent(u, real) THEN store.connectedPeople
                          ELSE store.connectedPeople \ {u}
             result == Forget(store, u, live)
  <1>1. result.connectedPeople = directory /\ result.liveMaps = real
    BY DEF Forget
  <1>2. directory \in SUBSET User
    BY DEF Store
  <1>3. /\ real \in Lives
        /\ \A k : k # NoMap => ListIn(real, k) = ListIn(live, k)
        /\ DOMAIN real = DOMAIN live \ {NoMap}
    BY OmitList
  <1>4. result \in Store
    <2>1. result = [connectedPeople |-> directory, liveMaps |-> real]
      BY DEF Forget
    <2> HIDE DEF directory, real, result
    <2> QED
      BY <2>1, <1>2, <1>3 DEF Store, Lives
  <1>5. \A k \in Map : k # NoMap
    BY NoMapAssumption
  <1>6. \A k \in Map : LiveMapOf(result, k) = ListIn(live, k)
    <2> SUFFICES ASSUME NEW k \in Map PROVE LiveMapOf(result, k) = ListIn(live, k)
      OBVIOUS
    <2>1. LiveMapOf(result, k) = ListIn(real, k)
      BY <1>1, <1>4, LiveMapOfType
    <2> QED
      BY <2>1, <1>3, <1>5
  <1>7. DOMAIN real = DOMAIN live \cap Map
    BY <1>3, <1>5, ListInType DEF MapKey
  <1>8. userStillPresent(u, real) <=>
           (u # NoUser /\ \E k \in Map : u \in DOMAIN ListIn(live, k))
    <2>1. \A k \in Map : k \in DOMAIN real \/ DOMAIN ListIn(live, k) = {}
      BY <1>7, ListInType
    <2>2. \A k \in DOMAIN real : real[k] = ListIn(live, k)
      BY <1>7, <1>5 DEF Omit, ListIn
    <2> HIDE DEF real
    <2> QED
      BY <1>7, <2>1, <2>2 DEF userStillPresent
  <1> QED
    BY <1>1, <1>4, <1>6, <1>7, <1>8

\* JOIN_MAP lists the user on that map, not in its call, and in the directory.
LEMMA JoinMapIs ==
    ASSUME NEW store \in Store, NEW m \in Map, NEW u \in User
    PROVE  LET result == ReduceJoinMap(store, m, u)
           IN  /\ result \in Store
               /\ LiveMapOf(result, m) = Assign(LiveMapOf(store, m), u, NOT_IN_CONVERSATION)
               /\ PeopleOn(result, m) = PeopleOn(store, m) \cup {u}
               /\ \A k : k # m => LiveMapOf(result, k) = LiveMapOf(store, k)
               /\ DOMAIN result.liveMaps = DOMAIN store.liveMaps \cup {m}
               /\ result.connectedPeople = store.connectedPeople \cup {u}
  <1> DEFINE people == addMapperToMap(LiveMapOf(store, m), u)
             live == Assign(store.liveMaps, m, people)
             directory == store.connectedPeople \cup {u}
             result == ReduceJoinMap(store, m, u)
  <1>1. people = Assign(LiveMapOf(store, m), u, NOT_IN_CONVERSATION)
    BY DEF addMapperToMap
  <1>2. people \in LiveMap /\ DOMAIN people = PeopleOn(store, m) \cup {u}
    <2>1. LiveMapOf(store, m) \in LiveMap /\ u \in UserKey /\ NOT_IN_CONVERSATION \in Flag
      BY LiveMapOfType DEF UserKey, Flag
    <2> HIDE DEF people
    <2> QED
      BY <2>1, <1>1, PeopleAfter DEF PeopleOn
  <1>3. result = [connectedPeople |-> directory, liveMaps |-> live]
    BY DEF ReduceJoinMap
  <1>4. result.connectedPeople = directory /\ result.liveMaps = live
    BY <1>3
  <1>5. directory \in SUBSET User
    BY DEF Store
  <1> HIDE DEF people
  <1>6. /\ live \in Lives
        /\ ListIn(live, m) = people
        /\ \A k : k # m => ListIn(live, k) = ListIn(store.liveMaps, k)
        /\ DOMAIN live = DOMAIN store.liveMaps \cup {m}
    BY <1>2, LiveMapOfType, AssignList DEF MapKey
  <1> HIDE DEF live, directory, result
  <1>7. result \in Store
    BY <1>3, <1>5, <1>6 DEF Store, Lives
  <1>8. \A k : LiveMapOf(result, k) = ListIn(live, k)
    BY <1>4, <1>7, LiveMapOfType
  <1>9. \A k : LiveMapOf(store, k) = ListIn(store.liveMaps, k)
    BY LiveMapOfType
  <1>10. PeopleOn(result, m) = PeopleOn(store, m) \cup {u}
    BY <1>2, <1>6, <1>8 DEF PeopleOn
  <1> QED
    BY <1>1, <1>4, <1>6, <1>7, <1>8, <1>9, <1>10 DEF result, directory

\* LEAVE_MAP and DISCONNECT store what is left of the map's list, or take the map
\* out of the store when it lists one key only; the user stays in the directory
\* only while some map lists them.  The other maps keep their lists.
Removal(store, m, u, people) ==
    Forget(store, u, IF mapWillEmpty(store, m) THEN Omit(store.liveMaps, m)
                     ELSE Assign(store.liveMaps, m, people))

LEMMA RemovalIs ==
    ASSUME NEW store \in Store, NEW m \in MapKey, NEW u \in UserKey,
           NEW people \in LiveMap
    PROVE  LET result == Removal(store, m, u, people)
           IN  /\ result \in Store
               /\ DOMAIN result.liveMaps \subseteq Map
               /\ \A k \in Map : k # m =>
                     /\ LiveMapOf(result, k) = LiveMapOf(store, k)
                     /\ k \in DOMAIN result.liveMaps <=> k \in DOMAIN store.liveMaps
               /\ m \in Map =>
                     IF mapWillEmpty(store, m)
                     THEN PeopleOn(result, m) = {} /\ m \notin DOMAIN result.liveMaps
                     ELSE LiveMapOf(result, m) = people /\ m \in DOMAIN result.liveMaps
               /\ result.connectedPeople =
                     IF u # NoUser /\ (\E k \in Map : u \in PeopleOn(result, k))
                     THEN store.connectedPeople
                     ELSE store.connectedPeople \ {u}
  <1> DEFINE live == IF mapWillEmpty(store, m) THEN Omit(store.liveMaps, m)
                     ELSE Assign(store.liveMaps, m, people)
             result == Removal(store, m, u, people)
  <1>1. /\ store.liveMaps \in Lives
        /\ \A k : LiveMapOf(store, k) = ListIn(store.liveMaps, k)
    BY LiveMapOfType
  <1>2. /\ live \in Lives
        /\ \A k : k # m => ListIn(live, k) = LiveMapOf(store, k)
        /\ IF mapWillEmpty(store, m)
           THEN DOMAIN ListIn(live, m) = {} /\ DOMAIN live = DOMAIN store.liveMaps \ {m}
           ELSE ListIn(live, m) = people /\ DOMAIN live = DOMAIN store.liveMaps \cup {m}
    <2>1. CASE mapWillEmpty(store, m)
      <3>1. live = Omit(store.liveMaps, m)
        BY <2>1
      <3>2. /\ Omit(store.liveMaps, m) \in Lives
            /\ DOMAIN ListIn(Omit(store.liveMaps, m), m) = {}
            /\ \A k : k # m => ListIn(Omit(store.liveMaps, m), k) = ListIn(store.liveMaps, k)
            /\ DOMAIN Omit(store.liveMaps, m) = DOMAIN store.liveMaps \ {m}
        BY <1>1, OmitList
      <3> HIDE DEF live
      <3> QED
        BY <2>1, <3>1, <3>2, <1>1
    <2>2. CASE ~ mapWillEmpty(store, m)
      <3>1. live = Assign(store.liveMaps, m, people)
        BY <2>2
      <3>2. /\ Assign(store.liveMaps, m, people) \in Lives
            /\ ListIn(Assign(store.liveMaps, m, people), m) = people
            /\ \A k : k # m => ListIn(Assign(store.liveMaps, m, people), k)
                               = ListIn(store.liveMaps, k)
            /\ DOMAIN Assign(store.liveMaps, m, people) = DOMAIN store.liveMaps \cup {m}
        BY <1>1, AssignList
      <3> HIDE DEF live
      <3> QED
        BY <2>2, <3>1, <3>2, <1>1
    <2> QED
      BY <2>1, <2>2
  <1>0. result = Forget(store, u, live)
    BY DEF Removal
  <1> HIDE DEF live, result
  <1>3. /\ result \in Store
        /\ \A k \in Map : LiveMapOf(result, k) = ListIn(live, k)
        /\ DOMAIN result.liveMaps = DOMAIN live \cap Map
        /\ result.connectedPeople =
              IF u # NoUser /\ (\E k \in Map : u \in DOMAIN ListIn(live, k))
              THEN store.connectedPeople
              ELSE store.connectedPeople \ {u}
    <2>1. /\ Forget(store, u, live) \in Store
          /\ \A k \in Map : LiveMapOf(Forget(store, u, live), k) = ListIn(live, k)
          /\ DOMAIN Forget(store, u, live).liveMaps = DOMAIN live \cap Map
          /\ Forget(store, u, live).connectedPeople =
                IF u # NoUser /\ (\E k \in Map : u \in DOMAIN ListIn(live, k))
                THEN store.connectedPeople
                ELSE store.connectedPeople \ {u}
      BY <1>2, ForgetIs
    <2> QED
      BY <1>0, <2>1
  <1>4. \A k \in Map : PeopleOn(result, k) = DOMAIN ListIn(live, k)
    BY <1>3 DEF PeopleOn
  <1>5. \A k \in Map : k # m =>
           /\ LiveMapOf(result, k) = LiveMapOf(store, k)
           /\ k \in DOMAIN result.liveMaps <=> k \in DOMAIN store.liveMaps
    BY <1>2, <1>3
  <1>6. m \in Map =>
           IF mapWillEmpty(store, m)
           THEN PeopleOn(result, m) = {} /\ m \notin DOMAIN result.liveMaps
           ELSE LiveMapOf(result, m) = people /\ m \in DOMAIN result.liveMaps
    BY <1>2, <1>3, <1>4
  <1>7. result.connectedPeople =
           IF u # NoUser /\ (\E k \in Map : u \in PeopleOn(result, k))
           THEN store.connectedPeople
           ELSE store.connectedPeople \ {u}
    BY <1>3, <1>4
  <1> QED
    BY <1>3, <1>5, <1>6, <1>7 DEF result

\* The people LEAVE_MAP leaves on the list, and DISCONNECT too.
LEMMA OthersAre ==
    ASSUME NEW store \in Store, NEW m, NEW u \in UserKey
    PROVE  LET others == Omit(LiveMapOf(store, m), u)
           IN  /\ others \in LiveMap
               /\ DOMAIN others = PeopleOn(store, m) \ {u}
               /\ EverybodyHangsUp(others) \in LiveMap
               /\ DOMAIN EverybodyHangsUp(others) = DOMAIN others
  <1> DEFINE others == Omit(LiveMapOf(store, m), u)
  <1>1. LiveMapOf(store, m) \in LiveMap /\ NOT_IN_CONVERSATION \in Flag
    BY LiveMapOfType DEF Flag
  <1>2. others \in LiveMap /\ DOMAIN others = PeopleOn(store, m) \ {u}
    BY <1>1, PeopleAfter DEF PeopleOn
  <1> HIDE DEF others
  <1>3. EverybodyHangsUp(others) \in LiveMap
        /\ DOMAIN EverybodyHangsUp(others) = DOMAIN others
    BY <1>1, <1>2, PeopleAfter
  <1> QED
    BY <1>2, <1>3 DEF others

LEMMA LeaveMapIs ==
    ASSUME NEW store \in Store, NEW m \in MapKey, NEW u \in UserKey
    PROVE  LET result == ReduceLeaveMap(store, m, u)
           IN  /\ result \in Store
               /\ DOMAIN result.liveMaps \subseteq Map
               /\ \A k \in Map : k # m =>
                     /\ LiveMapOf(result, k) = LiveMapOf(store, k)
                     /\ k \in DOMAIN result.liveMaps <=> k \in DOMAIN store.liveMaps
               /\ m \in Map =>
                     IF mapWillEmpty(store, m)
                     THEN PeopleOn(result, m) = {} /\ m \notin DOMAIN result.liveMaps
                     ELSE /\ LiveMapOf(result, m) = Omit(LiveMapOf(store, m), u)
                          /\ PeopleOn(result, m) = PeopleOn(store, m) \ {u}
                          /\ m \in DOMAIN result.liveMaps
               /\ result.connectedPeople =
                     IF u # NoUser /\ (\E k \in Map : u \in PeopleOn(result, k))
                     THEN store.connectedPeople
                     ELSE store.connectedPeople \ {u}
  <1> DEFINE others == Omit(LiveMapOf(store, m), u)
             result == ReduceLeaveMap(store, m, u)
  <1>1. others \in LiveMap /\ DOMAIN others = PeopleOn(store, m) \ {u}
    BY OthersAre
  <1>2. result = Removal(store, m, u, others)
    BY DEF ReduceLeaveMap, Removal
  <1> HIDE DEF others, result
  <1>3. /\ result \in Store
        /\ DOMAIN result.liveMaps \subseteq Map
        /\ \A k \in Map : k # m =>
              /\ LiveMapOf(result, k) = LiveMapOf(store, k)
              /\ k \in DOMAIN result.liveMaps <=> k \in DOMAIN store.liveMaps
        /\ m \in Map =>
              IF mapWillEmpty(store, m)
              THEN PeopleOn(result, m) = {} /\ m \notin DOMAIN result.liveMaps
              ELSE LiveMapOf(result, m) = others /\ m \in DOMAIN result.liveMaps
        /\ result.connectedPeople =
              IF u # NoUser /\ (\E k \in Map : u \in PeopleOn(result, k))
              THEN store.connectedPeople
              ELSE store.connectedPeople \ {u}
    BY <1>1, <1>2, RemovalIs
  <1> QED
    BY <1>1, <1>3 DEF others, result, PeopleOn

LEMMA DisconnectIs ==
    ASSUME NEW store \in Store, NEW m \in MapKey, NEW u \in UserKey
    PROVE  LET result == ReduceDisconnect(store, m, u)
               others == Omit(LiveMapOf(store, m), u)
           IN  /\ result \in Store
               /\ DOMAIN result.liveMaps \subseteq Map
               /\ \A k \in Map : k # m =>
                     /\ LiveMapOf(result, k) = LiveMapOf(store, k)
                     /\ k \in DOMAIN result.liveMaps <=> k \in DOMAIN store.liveMaps
               /\ m \in Map =>
                     IF mapWillEmpty(store, m)
                     THEN PeopleOn(result, m) = {} /\ m \notin DOMAIN result.liveMaps
                     ELSE /\ LiveMapOf(result, m) = IF callWillFinish(store, m)
                                                    THEN EverybodyHangsUp(others)
                                                    ELSE others
                          /\ PeopleOn(result, m) = PeopleOn(store, m) \ {u}
                          /\ m \in DOMAIN result.liveMaps
               /\ result.connectedPeople =
                     IF u # NoUser /\ (\E k \in Map : u \in PeopleOn(result, k))
                     THEN store.connectedPeople
                     ELSE store.connectedPeople \ {u}
  <1> DEFINE others == Omit(LiveMapOf(store, m), u)
             people == IF callWillFinish(store, m) THEN EverybodyHangsUp(others) ELSE others
             result == ReduceDisconnect(store, m, u)
  <1>1. people \in LiveMap /\ DOMAIN people = PeopleOn(store, m) \ {u}
    <2>1. /\ others \in LiveMap
          /\ DOMAIN others = PeopleOn(store, m) \ {u}
          /\ EverybodyHangsUp(others) \in LiveMap
          /\ DOMAIN EverybodyHangsUp(others) = DOMAIN others
      BY OthersAre
    <2> HIDE DEF others
    <2> QED
      BY <2>1
  <1>2. result = Removal(store, m, u, people)
    BY DEF ReduceDisconnect, Removal
  <1> HIDE DEF people, result
  <1>3. /\ result \in Store
        /\ DOMAIN result.liveMaps \subseteq Map
        /\ \A k \in Map : k # m =>
              /\ LiveMapOf(result, k) = LiveMapOf(store, k)
              /\ k \in DOMAIN result.liveMaps <=> k \in DOMAIN store.liveMaps
        /\ m \in Map =>
              IF mapWillEmpty(store, m)
              THEN PeopleOn(result, m) = {} /\ m \notin DOMAIN result.liveMaps
              ELSE LiveMapOf(result, m) = people /\ m \in DOMAIN result.liveMaps
        /\ result.connectedPeople =
              IF u # NoUser /\ (\E k \in Map : u \in PeopleOn(result, k))
              THEN store.connectedPeople
              ELSE store.connectedPeople \ {u}
    BY <1>1, <1>2, RemovalIs
  <1> QED
    BY <1>1, <1>3 DEF people, result, PeopleOn

\* JOIN_CALL puts the user in the call of that map, listed or not.
LEMMA JoinCallIs ==
    ASSUME NEW store \in Store, NEW m \in Map, NEW u \in User
    PROVE  LET result == ReduceJoinCall(store, m, u)
           IN  /\ result \in Store
               /\ LiveMapOf(result, m) = Assign(LiveMapOf(store, m), u, IN_CONVERSATION)
               /\ PeopleOn(result, m) = PeopleOn(store, m) \cup {u}
               /\ \A k : k # m => LiveMapOf(result, k) = LiveMapOf(store, k)
               /\ DOMAIN result.liveMaps = DOMAIN store.liveMaps \cup {m}
               /\ result.connectedPeople = store.connectedPeople
  <1> DEFINE people == Assign(LiveMapOf(store, m), u, IN_CONVERSATION)
             live == Assign(store.liveMaps, m, people)
             result == ReduceJoinCall(store, m, u)
  <1>1. people \in LiveMap /\ DOMAIN people = PeopleOn(store, m) \cup {u}
    <2>1. LiveMapOf(store, m) \in LiveMap /\ u \in UserKey /\ IN_CONVERSATION \in Flag
      BY LiveMapOfType DEF UserKey, Flag
    <2> QED
      BY <2>1, PeopleAfter DEF PeopleOn
  <1>2. /\ result = [connectedPeople |-> store.connectedPeople, liveMaps |-> live]
        /\ store.connectedPeople \in SUBSET User
    BY DEF ReduceJoinCall, Store
  <1>3. result.connectedPeople = store.connectedPeople /\ result.liveMaps = live
    BY <1>2
  <1> HIDE DEF people
  <1>4. /\ live \in Lives
        /\ ListIn(live, m) = people
        /\ \A k : k # m => ListIn(live, k) = ListIn(store.liveMaps, k)
        /\ DOMAIN live = DOMAIN store.liveMaps \cup {m}
    BY <1>1, LiveMapOfType, AssignList DEF MapKey
  <1> HIDE DEF live, result
  <1>5. result \in Store
    BY <1>2, <1>4 DEF Store, Lives
  <1>6. /\ \A k : LiveMapOf(result, k) = ListIn(live, k)
        /\ \A k : LiveMapOf(store, k) = ListIn(store.liveMaps, k)
    BY <1>3, <1>5, LiveMapOfType
  <1> QED
    BY <1>1, <1>3, <1>4, <1>5, <1>6 DEF result, people, PeopleOn

\* LEAVE_CALL takes the user out of the call, or ends the call when the map lists
\* two people; it lists the user when the map did not.
LEMMA LeaveCallIs ==
    ASSUME NEW store \in Store, NEW m \in MapKey, NEW u \in UserKey
    PROVE  LET result == ReduceLeaveCall(store, m, u)
           IN  /\ result \in Store
               /\ LiveMapOf(result, m) =
                     IF callWillFinish(store, m)
                     THEN EverybodyHangsUp(LiveMapOf(store, m))
                     ELSE Assign(LiveMapOf(store, m), u, NOT_IN_CONVERSATION)
               /\ PeopleOn(result, m) = IF callWillFinish(store, m) THEN PeopleOn(store, m)
                                        ELSE PeopleOn(store, m) \cup {u}
               /\ \A k : k # m => LiveMapOf(result, k) = LiveMapOf(store, k)
               /\ DOMAIN result.liveMaps = DOMAIN store.liveMaps \cup {m}
               /\ result.connectedPeople = store.connectedPeople
  <1> DEFINE people == IF callWillFinish(store, m)
                       THEN EverybodyHangsUp(LiveMapOf(store, m))
                       ELSE Assign(LiveMapOf(store, m), u, NOT_IN_CONVERSATION)
             live == Assign(store.liveMaps, m, people)
             result == ReduceLeaveCall(store, m, u)
  <1>1. /\ people \in LiveMap
        /\ DOMAIN people = IF callWillFinish(store, m) THEN PeopleOn(store, m)
                           ELSE PeopleOn(store, m) \cup {u}
    <2>1. LiveMapOf(store, m) \in LiveMap /\ NOT_IN_CONVERSATION \in Flag
      BY LiveMapOfType DEF Flag
    <2> QED
      BY <2>1, PeopleAfter DEF PeopleOn
  <1>2. /\ result = [connectedPeople |-> store.connectedPeople, liveMaps |-> live]
        /\ store.connectedPeople \in SUBSET User
    BY DEF ReduceLeaveCall, Store
  <1>3. result.connectedPeople = store.connectedPeople /\ result.liveMaps = live
    BY <1>2
  <1> HIDE DEF people
  <1>4. /\ live \in Lives
        /\ ListIn(live, m) = people
        /\ \A k : k # m => ListIn(live, k) = ListIn(store.liveMaps, k)
        /\ DOMAIN live = DOMAIN store.liveMaps \cup {m}
    BY <1>1, LiveMapOfType, AssignList
  <1> HIDE DEF live, result
  <1>5. result \in Store
    BY <1>2, <1>4 DEF Store, Lives
  <1>6. /\ \A k : LiveMapOf(result, k) = ListIn(live, k)
        /\ \A k : LiveMapOf(store, k) = ListIn(store.liveMaps, k)
    BY <1>3, <1>5, LiveMapOfType
  <1> QED
    BY <1>1, <1>3, <1>4, <1>5, <1>6 DEF result, people, PeopleOn

-----------------------------------------------------------------------------
\* Types.

LEMMA EmitType ==
    ASSUME NEW to \in SUBSET Socket, NEW type \in MessageType,
           NEW about \in Named(type)
    PROVE  Emit(to, type, about) \in Emission
  <1>1. about \in UserKey \cup Socket
    BY DEF Named, UserKey
  <1> QED
    BY <1>1 DEF Emit, Emission

LEMMA JuntoUpdatedType ==
    ASSUME NEW sockets \in SUBSET Socket
    PROVE  JuntoUpdated(sockets) \in Emission
  <1>1. "JUNTO_UPDATED" \in MessageType /\ NoUser \in Named("JUNTO_UPDATED")
    BY DEF MessageType, Named
  <1> QED
    BY <1>1, EmitType DEF JuntoUpdated

\* The sockets an event can write to are connections of this server.
LEMMA RoomTypes ==
    ASSUME TypeOK
    PROVE  /\ \A m : MapRoom(m) \in SUBSET Socket
           /\ \A m : VideoRoom(m) \in SUBSET Socket
           /\ \A m \in Map : mapRoom[m] \in SUBSET Socket
           /\ \A u \in User, m \in Map : userMapRoom[u][m] \in SUBSET Socket
  BY DEF TypeOK, MapRoom, VideoRoom

\* What the rooms and the call of a map become when a socket leaves them.
LEMMA LeaveRoomTypes ==
    ASSUME TypeOK, NEW s \in Socket, NEW m, NEW u
    PROVE  /\ LeaveMapRoom(s, m) => mapRoom' \in [Map -> SUBSET Socket]
           /\ LeaveUserMapRoom(s, u, m) =>
                 userMapRoom' \in [User -> [Map -> SUBSET Socket]]
  BY DEF TypeOK, LeaveMapRoom, LeaveUserMapRoom

LEMMA InitType == Init => TypeOK
  <1> SUFFICES ASSUME Init PROVE TypeOK
    OBVIOUS
  <1>1. EmptyStore \in Store
    <2> DEFINE none == [m \in {} |-> {}]
    <2>1. none \in [DOMAIN none -> LiveMap] /\ DOMAIN none \subseteq MapKey
      OBVIOUS
    <2>2. none \in Dictionary(MapKey, LiveMap)
      BY <2>1, DictionaryIs
    <2> QED
      BY <2>2 DEF EmptyStore, Store
  <1>2. <<>> \in Seq(Emission)
    OBVIOUS
  <1> QED
    BY <1>1, <1>2 DEF Init, TypeOK, MapKey, UserKey

\* What a client may send, whatever map and user it names.
AnyRelay(s, m) ==
    \/ SendCoords(s, m)
    \/ DragTopic(s, m)
    \/ \E peer \in User :
          \/ SendMapperInfo(s, m, peer)
          \/ InviteACall(s, m, peer)
          \/ InviteToJoin(s, m, peer)
          \/ AcceptCall(s, m, peer)
          \/ DenyCall(s, m, peer)
          \/ DenyInvite(s, m, peer)

AnyEvent(s) ==
    \/ Connect(s)
    \/ LeaveMap(s)
    \/ LeaveVideoRoom(s)
    \/ Disconnect(s)
    \/ \E m \in Map : MapEvent(s, m) \/ AnyRelay(s, m)

LEMMA EventIsAny ==
    ASSUME TypeOK, NEW s \in Socket, SocketEvent(s)
    PROVE  AnyEvent(s)
  <1>1. Opens[Owner[s]] \subseteq Map
    BY OpensAssumption, OwnerAssumption
  <1>2. mapid[s] # NoMap => mapid[s] \in Map
    BY DEF TypeOK, MapKey
  <1>3. ASSUME NEW m, RelayEvent(s, m) PROVE AnyRelay(s, m)
    BY <1>3 DEF RelayEvent, AnyRelay
  <1> QED
    BY <1>1, <1>2, <1>3 DEF SocketEvent, AnyEvent

\* Every event of a socket keeps the types.
LEMMA EventType ==
    ASSUME TypeOK, NEW s \in Socket, AnyEvent(s)
    PROVE  TypeOK'
  <1> DEFINE u == Owner[s]
  <1>1. u \in User /\ u \in UserKey /\ mapid[s] \in MapKey /\ userid[s] \in UserKey
    BY OwnerAssumption DEF TypeOK, UserKey
  <1>3. \A m \in Map : m \in MapKey
    BY DEF MapKey
  <1>4. junto \in Store /\ connected \in SUBSET Socket
    BY DEF TypeOK
  <1>5. CASE Connect(s)
    <2>1. JuntoUpdated(connected') \in Emission /\ connected' \in SUBSET Socket
      BY <1>4, <1>5, JuntoUpdatedType DEF Connect
    <2> QED
      BY <1>5, <2>1 DEF Connect, TypeOK
  <1>6. CASE LeaveMap(s)
    <2>1. junto' \in Store
      BY <1>1, <1>4, <1>6, LeaveMapIs DEF LeaveMap
    <2>2. emitted' \in Seq(Emission)
      <3>1. /\ JuntoUpdated(connected) \in Emission
            /\ MapRoom(mapid[s]) \ {s} \in SUBSET Socket
        BY <1>4, JuntoUpdatedType, RoomTypes
      <3>2. Emit(MapRoom(mapid[s]) \ {s}, "LOST_MAPPER", userid[s]) \in Emission
        BY <3>1, <1>1, EmitType DEF MessageType, Named
      <3> QED
        BY <3>1, <3>2, <1>6 DEF LeaveMap, LostMapper
    <2>3. /\ mapRoom' \in [Map -> SUBSET Socket]
          /\ userMapRoom' \in [User -> [Map -> SUBSET Socket]]
      BY <1>6, LeaveRoomTypes DEF LeaveMap
    <2> QED
      BY <1>6, <2>1, <2>2, <2>3 DEF LeaveMap, TypeOK, MapKey
  <1>7. CASE LeaveVideoRoom(s)
    <2>1. RemoveFeed(s) \in Seq(Emission)
      <3>1. Emit(VideoRoom(videoRoom[s]), "remove", s) \in Emission
        BY RoomTypes, EmitType DEF MessageType, Named
      <3> QED
        BY <3>1 DEF RemoveFeed
    <2> QED
      BY <1>7, <2>1 DEF LeaveVideoRoom, TypeOK, MapKey
  <1>8. CASE Disconnect(s)
    <2>1. junto' \in Store /\ connected' \in SUBSET Socket
      BY <1>1, <1>4, <1>8, DisconnectIs DEF Disconnect
    <2>2. emitted' \in Seq(Emission)
      <3> DEFINE updated == <<JuntoUpdated(connected')>>
                 removed == IF videoRoom[s] = NoMap THEN <<>>
                            ELSE <<Emit(VideoRoom(videoRoom[s]) \ {s}, "remove", s)>>
                 lost == <<Emit(MapRoom(mapid[s]) \ {s}, "LOST_MAPPER", userid[s])>>
      <3>1. updated \in Seq(Emission)
        BY <2>1, JuntoUpdatedType
      <3>2. removed \in Seq(Emission)
        <4>1. VideoRoom(videoRoom[s]) \ {s} \in SUBSET Socket
          BY RoomTypes
        <4>2. Emit(VideoRoom(videoRoom[s]) \ {s}, "remove", s) \in Emission
          BY <4>1, EmitType DEF MessageType, Named
        <4> QED
          BY <4>2
      <3>3. lost \in Seq(Emission)
        <4>1. MapRoom(mapid[s]) \ {s} \in SUBSET Socket
          BY RoomTypes
        <4>2. Emit(MapRoom(mapid[s]) \ {s}, "LOST_MAPPER", userid[s]) \in Emission
          BY <4>1, <1>1, EmitType DEF MessageType, Named
        <4> QED
          BY <4>2
      <3>4. emitted' = updated \o removed \o lost
        BY <1>8 DEF Disconnect, LostMapper
      <3> HIDE DEF updated, removed, lost
      <3> QED
        BY <3>1, <3>2, <3>3, <3>4
    <2> QED
      BY <1>8, <2>1, <2>2 DEF Disconnect, TypeOK, MapKey, UserKey
  <1>9. ASSUME NEW m \in Map, MapEvent(s, m) PROVE TypeOK'
    <2>0. m \in Map /\ mapRoom[m] \ {s} \in SUBSET Socket
      BY <1>9, RoomTypes
    <2>0a. JuntoUpdated(connected) \in Emission
      BY <1>4, JuntoUpdatedType
    <2>1. CASE JoinMap(s, m)
      <3>1. junto' \in Store
        BY <1>1, <1>4, <2>0, <2>1, JoinMapIs DEF JoinMap
      <3>2. Emit(mapRoom[m] \ {s}, "NEW_MAPPER", u) \in Emission
        BY <2>0, <1>1, EmitType DEF MessageType, Named
      <3> QED
        BY <1>1, <2>0, <2>0a, <2>1, <3>1, <3>2 DEF JoinMap, TypeOK, MapKey, UserKey
    <2>2. CASE JoinCall(s, m)
      <3>1. junto' \in Store
        BY <1>1, <1>4, <2>0, <2>2, JoinCallIs DEF JoinCall
      <3>2. Emit(mapRoom[m] \ {s}, "MAPPER_JOINED_CALL", u) \in Emission
        BY <2>0, <1>1, EmitType DEF MessageType, Named
      <3> QED
        BY <2>0a, <2>2, <3>1, <3>2 DEF JoinCall, TypeOK
    <2>3. CASE LeaveCall(s, m)
      <3>1. junto' \in Store
        BY <1>1, <1>4, <2>3, LeaveCallIs DEF LeaveCall
      <3>2. Emit(mapRoom[m] \ {s}, "MAPPER_LEFT_CALL", u) \in Emission
        BY <2>0, <1>1, EmitType DEF MessageType, Named
      <3> QED
        BY <2>0a, <2>3, <3>1, <3>2 DEF LeaveCall, TypeOK
    <2>4. CASE JoinVideoRoom(s, m)
      <3>1. RemoveFeed(s) \in Seq(Emission)
        <4>1. Emit(VideoRoom(videoRoom[s]), "remove", s) \in Emission
          BY RoomTypes, EmitType DEF MessageType, Named
        <4> QED
          BY <4>1 DEF RemoveFeed
      <3> QED
        BY <2>0, <2>4, <3>1 DEF JoinVideoRoom, TypeOK, MapKey
    <2>5. CASE CheckForCall(s, m)
      <3>1. Emit({s}, "CALL_IN_PROGRESS", NoUser) \in Emission
        BY EmitType DEF MessageType, Named
      <3>2. emitted' \in Seq(Emission)
        BY <2>5, <3>1 DEF CheckForCall, Relay
      <3> QED
        BY <2>5, <3>2 DEF CheckForCall, Relay, TypeOK, serverVars
    <2> QED
      BY <1>9, <2>1, <2>2, <2>3, <2>4, <2>5 DEF MapEvent
  <1>10. ASSUME NEW m \in Map, AnyRelay(s, m) PROVE TypeOK'
    <2>1. mapRoom[m] \ {s} \in SUBSET Socket
          /\ \A peer \in User : userMapRoom[peer][m] \ {s} \in SUBSET Socket
      BY RoomTypes
    <2>2. \A type \in MessageType : \A about \in Named(type) :
             Emit(mapRoom[m] \ {s}, type, about) \in Emission
      BY <2>1, EmitType
    <2>3. \A peer \in User, type \in MessageType : \A about \in Named(type) :
             Emit(userMapRoom[peer][m] \ {s}, type, about) \in Emission
      BY <2>1, EmitType
    <2>5. CASE SendCoords(s, m)
      <3>1. Emit(mapRoom[m] \ {s}, "PEER_COORDS_UPDATED", u) \in Emission
        BY <1>1, <2>2 DEF MessageType, Named
      <3> QED
        BY <2>5, <3>1 DEF SendCoords, Relay, TypeOK, serverVars
    <2>6. CASE DragTopic(s, m)
      <3>1. Emit(mapRoom[m] \ {s}, "TOPIC_DRAGGED", NoUser) \in Emission
        BY <2>2 DEF MessageType, Named
      <3> QED
        BY <2>6, <3>1 DEF DragTopic, Relay, TypeOK, serverVars
    <2>7. ASSUME NEW peer \in User, AcceptCall(s, m, peer) PROVE TypeOK'
      <3>1. /\ Emit(userMapRoom[peer][m] \ {s}, "CALL_ACCEPTED", u) \in Emission
            /\ Emit(mapRoom[m] \ {s}, "CALL_STARTED", NoUser) \in Emission
        BY <1>1, <2>2, <2>3 DEF MessageType, Named
      <3> QED
        BY <2>7, <3>1 DEF AcceptCall, Relay, TypeOK, serverVars
    <2>8. ASSUME NEW peer \in User,
                 \/ SendMapperInfo(s, m, peer)
                 \/ InviteACall(s, m, peer)
                 \/ InviteToJoin(s, m, peer)
                 \/ DenyCall(s, m, peer)
                 \/ DenyInvite(s, m, peer)
          PROVE  TypeOK'
      <3>1. PICK type \in {"MAPPER_LIST_UPDATED", "INVITED_TO_CALL",
                           "INVITED_TO_JOIN", "CALL_DENIED", "INVITE_DENIED"} :
               /\ emitted' = <<Emit(userMapRoom[peer][m] \ {s}, type, u)>>
               /\ UNCHANGED <<serverVars, strays>>
        BY <2>8 DEF SendMapperInfo, InviteACall, InviteToJoin, DenyCall, DenyInvite, Relay
      <3>2. Emit(userMapRoom[peer][m] \ {s}, type, u) \in Emission
        BY <1>1, <2>3 DEF MessageType, Named
      <3> QED
        BY <3>1, <3>2 DEF TypeOK, serverVars
    <2> QED
      BY <1>10, <2>5, <2>6, <2>7, <2>8 DEF AnyRelay
  <1> QED
    BY <1>5, <1>6, <1>7, <1>8, <1>9, <1>10 DEF AnyEvent

LEMMA TypeStep == TypeOK /\ [Next]_vars => TypeOK'
  <1> SUFFICES ASSUME TypeOK, [Next]_vars PROVE TypeOK'
    OBVIOUS
  <1>1. CASE Restart
    <2>1. Init'
      BY <1>1 DEF Restart, Init
    <2> QED
      BY <2>1, InitType, PTL
  <1>2. ASSUME NEW s \in Socket, SocketEvent(s) PROVE TypeOK'
    BY <1>2, EventIsAny, EventType
  <1>3. CASE UNCHANGED vars
    BY <1>3 DEF vars, serverVars, TypeOK
  <1> QED
    BY <1>1, <1>2, <1>3 DEF Next

\* The variables have their types, whatever the clients send.
THEOREM TypeCorrect == Spec => []TypeOK
  BY InitType, TypeStep, PTL DEF Spec

-----------------------------------------------------------------------------
\* Rooms.

\* The events that touch neither the store nor the rooms of a map.
OtherEvent(s) ==
    /\ s \in connected
    /\ UNCHANGED <<connected, mapid, userid, mapRoom, userMapRoom, junto, strays>>
    /\ videoRoom' \in [Socket -> MapKey]
    /\ \A t \in Socket : t # s => videoRoom'[t] = videoRoom[t]

\* Next, with the events that only pass messages on under one name.
LEMMA NextCases ==
    ASSUME TypeOK, Next
    PROVE  \/ Restart
           \/ \E s \in Socket :
                 \/ Connect(s)
                 \/ LeaveMap(s)
                 \/ Disconnect(s)
                 \/ \E m \in Map : JoinMap(s, m) \/ JoinCall(s, m) \/ LeaveCall(s, m)
                 \/ OtherEvent(s)
  <1> SUFFICES ASSUME NEW s \in Socket, SocketEvent(s)
               PROVE  \/ Connect(s)
                      \/ LeaveMap(s)
                      \/ Disconnect(s)
                      \/ \E m \in Map : JoinMap(s, m) \/ JoinCall(s, m) \/ LeaveCall(s, m)
                      \/ OtherEvent(s)
    BY DEF Next
  <1>1. Opens[Owner[s]] \subseteq Map
    BY OpensAssumption, OwnerAssumption
  <1>2. CASE LeaveVideoRoom(s)
    BY <1>2 DEF LeaveVideoRoom, OtherEvent, TypeOK, MapKey
  <1>3. ASSUME NEW m \in Map, JoinVideoRoom(s, m) PROVE OtherEvent(s)
    BY <1>3 DEF JoinVideoRoom, OtherEvent, TypeOK, MapKey
  <1>4. ASSUME NEW m \in Map, CheckForCall(s, m) PROVE OtherEvent(s)
    BY <1>4 DEF CheckForCall, Relay, OtherEvent, TypeOK, serverVars
  <1>5. ASSUME NEW m, RelayEvent(s, m) PROVE OtherEvent(s)
    BY <1>5 DEF RelayEvent, SendCoords, DragTopic, SendMapperInfo, InviteACall,
                InviteToJoin, AcceptCall, DenyCall, DenyInvite, Relay, OtherEvent,
                TypeOK, serverVars
  <1> QED
    BY <1>1, <1>2, <1>3, <1>4, <1>5 DEF SocketEvent, MapEvent

\* Who is in the rooms after JOIN_MAP and LEAVE_MAP, one socket at a time.
LEMMA JoinMapRooms ==
    ASSUME TypeOK, NEW s \in Socket, NEW m \in Map, JoinMap(s, m)
    PROVE  /\ \A k \in Map : \A t :
                 t \in mapRoom'[k] <=> t \in mapRoom[k] \/ (k = m /\ t = s)
           /\ \A u \in User, k \in Map : \A t :
                 t \in userMapRoom'[u][k] <=>
                    t \in userMapRoom[u][k] \/ (u = Owner[s] /\ k = m /\ t = s)
  <1>1. /\ mapRoom' = [mapRoom EXCEPT ![m] = @ \cup {s}]
        /\ userMapRoom' = [userMapRoom EXCEPT ![Owner[s]][m] = @ \cup {s}]
        /\ mapRoom \in [Map -> SUBSET Socket]
        /\ userMapRoom \in [User -> [Map -> SUBSET Socket]]
        /\ Owner[s] \in User
    BY OwnerAssumption DEF JoinMap, TypeOK
  <1>2. \A k \in Map : \A t :
           t \in mapRoom'[k] <=> t \in mapRoom[k] \/ (k = m /\ t = s)
    BY <1>1
  <1>3. ASSUME NEW u \in User, NEW k \in Map
        PROVE  \A t : t \in userMapRoom'[u][k] <=>
                        t \in userMapRoom[u][k] \/ (u = Owner[s] /\ k = m /\ t = s)
    <2>1. CASE u = Owner[s] /\ k = m
      BY <1>1, <2>1
    <2>2. CASE ~ (u = Owner[s] /\ k = m)
      <3>1. userMapRoom'[u][k] = userMapRoom[u][k]
        BY <1>1, <2>2
      <3> QED
        BY <2>2, <3>1
    <2> QED
      BY <2>1, <2>2
  <1> QED
    BY <1>2, <1>3

LEMMA LeaveMapRooms ==
    ASSUME TypeOK, NEW s \in Socket, LeaveMap(s)
    PROVE  /\ \A k \in Map : \A t :
                 t \in mapRoom'[k] <=> t \in mapRoom[k] /\ ~ (k = mapid[s] /\ t = s)
           /\ \A u \in User, k \in Map : \A t :
                 t \in userMapRoom'[u][k] <=>
                    t \in userMapRoom[u][k] /\ ~ (u = userid[s] /\ k = mapid[s] /\ t = s)
  <1>1. /\ LeaveMapRoom(s, mapid[s])
        /\ LeaveUserMapRoom(s, userid[s], mapid[s])
    BY DEF LeaveMap
  <1>2. \A k \in Map : \A t :
           t \in mapRoom'[k] <=> t \in mapRoom[k] /\ ~ (k = mapid[s] /\ t = s)
    BY <1>1 DEF LeaveMapRoom
  <1>3. \A u \in User, k \in Map : \A t :
           t \in userMapRoom'[u][k] <=>
              t \in userMapRoom[u][k] /\ ~ (u = userid[s] /\ k = mapid[s] /\ t = s)
    BY <1>1 DEF LeaveUserMapRoom
  <1> QED
    BY <1>2, <1>3

LEMMA RoomsInit == Init => RoomsFollowSockets
  BY DEF Init, RoomsFollowSockets

LEMMA RoomsStep ==
    ASSUME TypeOK, RoomsFollowSockets, [Next]_vars
    PROVE  RoomsFollowSockets'
  <1>1. CASE Restart
    BY <1>1 DEF Restart, RoomsFollowSockets
  <1>2. ASSUME NEW s \in Socket, Connect(s) PROVE RoomsFollowSockets'
    BY <1>2 DEF Connect, RoomsFollowSockets, TypeOK
  <1>3. ASSUME NEW s \in Socket, LeaveMap(s) PROVE RoomsFollowSockets'
    <2>1. mapid' = [mapid EXCEPT ![s] = NoMap] /\ mapid[s] \in MapKey
      BY <1>3 DEF LeaveMap, TypeOK
    <2>2. mapid[s] # NoMap => userid[s] = Owner[s] /\ Owner[s] \in User
      BY <1>3, OwnerAssumption DEF LeaveMap, RoomsFollowSockets
    <2>3. \A k \in Map : \A t :
             t \in mapRoom'[k] <=> t \in mapRoom[k] /\ ~ (k = mapid[s] /\ t = s)
      BY <1>3, LeaveMapRooms
    <2>4. \A u \in User, k \in Map : \A t :
             t \in userMapRoom'[u][k] <=>
                t \in userMapRoom[u][k] /\ ~ (u = userid[s] /\ k = mapid[s] /\ t = s)
      BY <1>3, LeaveMapRooms
    <2>5. UNCHANGED <<connected, userid, videoRoom>> /\ s \in connected
      BY <1>3 DEF LeaveMap
    <2>6. \A t \in connected' : mapid'[t] # NoMap =>
             /\ userid'[t] = Owner[t]
             /\ t \in mapRoom'[mapid'[t]]
             /\ t \in userMapRoom'[userid'[t]][mapid'[t]]
      <3> SUFFICES ASSUME NEW t \in connected, mapid'[t] # NoMap
                   PROVE  /\ userid'[t] = Owner[t]
                          /\ t \in mapRoom'[mapid'[t]]
                          /\ t \in userMapRoom'[userid'[t]][mapid'[t]]
        BY <2>5
      <3>1. t # s /\ mapid'[t] = mapid[t] /\ t \in Socket /\ mapid[t] \in Map
        BY <2>1 DEF TypeOK, MapKey
      <3>2. userid[t] = Owner[t] /\ Owner[t] \in User
        BY <3>1, OwnerAssumption DEF RoomsFollowSockets
      <3> QED
        BY <3>1, <3>2, <2>3, <2>4, <2>5 DEF RoomsFollowSockets
    <2>7. \A m \in Map : mapRoom'[m] \subseteq connected'
      BY <2>3, <2>5 DEF RoomsFollowSockets
    <2>8. \A m \in Map, u \in User :
             userMapRoom'[u][m] \subseteq {t \in mapRoom'[m] : Owner[t] = u}
      <3> SUFFICES ASSUME NEW m \in Map, NEW u \in User, NEW t \in userMapRoom'[u][m]
                   PROVE  t \in mapRoom'[m] /\ Owner[t] = u
        OBVIOUS
      <3>1. t \in mapRoom[m] /\ Owner[t] = u
        BY <2>4 DEF RoomsFollowSockets
      <3>2. m = mapid[s] => t # s
        BY <2>2, <2>4, <3>1, NoMapAssumption
      <3> QED
        BY <2>3, <3>1, <3>2
    <2>9. \A t \in Socket \ connected' : mapid'[t] = NoMap /\ videoRoom'[t] = NoMap
      BY <2>1, <2>5 DEF RoomsFollowSockets, TypeOK
    <2> QED
      BY <2>6, <2>7, <2>8, <2>9 DEF RoomsFollowSockets
  <1>4. ASSUME NEW s \in Socket, Disconnect(s) PROVE RoomsFollowSockets'
    <2>1. /\ connected' = connected \ {s}
          /\ \A m \in Map : mapRoom'[m] = mapRoom[m] \ {s}
          /\ \A u \in User, m \in Map : userMapRoom'[u][m] = userMapRoom[u][m] \ {s}
          /\ mapid' = [mapid EXCEPT ![s] = NoMap]
          /\ userid' = [userid EXCEPT ![s] = NoUser]
          /\ videoRoom' = [videoRoom EXCEPT ![s] = NoMap]
      BY <1>4 DEF Disconnect
    <2>2. \A t \in connected' : mapid'[t] # NoMap =>
             /\ userid'[t] = Owner[t]
             /\ t \in mapRoom'[mapid'[t]]
             /\ t \in userMapRoom'[userid'[t]][mapid'[t]]
      <3> SUFFICES ASSUME NEW t \in connected', mapid'[t] # NoMap
                   PROVE  /\ userid'[t] = Owner[t]
                          /\ t \in mapRoom'[mapid'[t]]
                          /\ t \in userMapRoom'[userid'[t]][mapid'[t]]
        OBVIOUS
      <3>1. /\ t # s /\ t \in connected /\ t \in Socket
            /\ mapid'[t] = mapid[t] /\ userid'[t] = userid[t] /\ mapid[t] \in Map
        BY <2>1 DEF TypeOK, MapKey
      <3>2. userid[t] = Owner[t] /\ Owner[t] \in User
        BY <3>1, OwnerAssumption DEF RoomsFollowSockets
      <3> QED
        BY <3>1, <3>2, <2>1 DEF RoomsFollowSockets
    <2>3. \A t \in Socket \ connected' : mapid'[t] = NoMap /\ videoRoom'[t] = NoMap
      BY <2>1 DEF RoomsFollowSockets, TypeOK
    <2>4. /\ \A m \in Map : mapRoom'[m] \subseteq connected'
          /\ \A m \in Map, u \in User :
                userMapRoom'[u][m] \subseteq {t \in mapRoom'[m] : Owner[t] = u}
      BY <2>1 DEF RoomsFollowSockets
    <2> QED
      BY <2>2, <2>3, <2>4 DEF RoomsFollowSockets
  <1>5. ASSUME NEW s \in Socket, NEW m \in Map, JoinMap(s, m) PROVE RoomsFollowSockets'
    <2>0. Owner[s] \in User
      BY OwnerAssumption
    <2>1. /\ connected' = connected /\ s \in connected /\ videoRoom' = videoRoom
          /\ mapid' = [mapid EXCEPT ![s] = m]
          /\ userid' = [userid EXCEPT ![s] = Owner[s]]
      BY <1>5 DEF JoinMap
    <2>2. \A k \in Map : \A t :
             t \in mapRoom'[k] <=> t \in mapRoom[k] \/ (k = m /\ t = s)
      BY <1>5, JoinMapRooms
    <2>3. \A u \in User, k \in Map : \A t :
             t \in userMapRoom'[u][k] <=>
                t \in userMapRoom[u][k] \/ (u = Owner[s] /\ k = m /\ t = s)
      BY <1>5, JoinMapRooms
    <2>4. \A t \in connected' : mapid'[t] # NoMap =>
             /\ userid'[t] = Owner[t]
             /\ t \in mapRoom'[mapid'[t]]
             /\ t \in userMapRoom'[userid'[t]][mapid'[t]]
      <3> SUFFICES ASSUME NEW t \in connected, mapid'[t] # NoMap
                   PROVE  /\ userid'[t] = Owner[t]
                          /\ t \in mapRoom'[mapid'[t]]
                          /\ t \in userMapRoom'[userid'[t]][mapid'[t]]
        BY <2>1
      <3>1. CASE t = s
        BY <3>1, <2>0, <2>1, <2>2, <2>3 DEF TypeOK
      <3>2. CASE t # s
        <4>1. /\ mapid'[t] = mapid[t] /\ userid'[t] = userid[t]
              /\ t \in Socket /\ mapid[t] \in Map
          BY <3>2, <2>1 DEF TypeOK, MapKey
        <4>2. userid[t] = Owner[t] /\ Owner[t] \in User
          BY <4>1, OwnerAssumption DEF RoomsFollowSockets
        <4> QED
          BY <4>1, <4>2, <2>2, <2>3 DEF RoomsFollowSockets
      <3> QED
        BY <3>1, <3>2
    <2>5. \A t \in Socket \ connected' : mapid'[t] = NoMap /\ videoRoom'[t] = NoMap
      BY <2>1 DEF RoomsFollowSockets, TypeOK
    <2>6. \A k \in Map : mapRoom'[k] \subseteq connected'
      BY <2>1, <2>2 DEF RoomsFollowSockets
    <2>7. \A k \in Map, u \in User :
             userMapRoom'[u][k] \subseteq {t \in mapRoom'[k] : Owner[t] = u}
      BY <2>2, <2>3 DEF RoomsFollowSockets
    <2> QED
      BY <2>4, <2>5, <2>6, <2>7 DEF RoomsFollowSockets
  <1>6. ASSUME NEW s \in Socket, NEW m \in Map, JoinCall(s, m) \/ LeaveCall(s, m)
        PROVE  RoomsFollowSockets'
    BY <1>6 DEF JoinCall, LeaveCall, RoomsFollowSockets
  <1>7. ASSUME NEW s \in Socket, OtherEvent(s) PROVE RoomsFollowSockets'
    BY <1>7 DEF OtherEvent, RoomsFollowSockets
  <1>8. CASE UNCHANGED vars
    BY <1>8 DEF vars, serverVars, RoomsFollowSockets
  <1> QED
    BY <1>1, <1>2, <1>3, <1>4, <1>5, <1>6, <1>7, <1>8, NextCases

\* A page on a map hears that map's room, and rooms hold live connections only.
THEOREM RoomsAreFollowed == Spec => []RoomsFollowSockets
  <1>1. Init => TypeOK /\ RoomsFollowSockets
    BY InitType, RoomsInit
  <1>2. TypeOK /\ RoomsFollowSockets /\ [Next]_vars => TypeOK' /\ RoomsFollowSockets'
    BY TypeStep, RoomsStep
  <1> QED
    BY <1>1, <1>2, PTL DEF Spec

-----------------------------------------------------------------------------
\* Lists.  From here on every user has at most one connection.

\* A socket on a map is listed there under the user it was joined for.
LEMMA LeaverIsListed ==
    ASSUME TypeOK, RoomsFollowSockets, AudienceIsListed,
           NEW s \in connected, mapid[s] # NoMap
    PROVE  /\ mapid[s] \in Map
           /\ userid[s] = Owner[s]
           /\ userid[s] \in User
           /\ userid[s] \in PeopleOn(junto, mapid[s])
           /\ mapid[s] \in DOMAIN junto.liveMaps
  <1>1. s \in Socket /\ mapid[s] \in Map
    BY DEF TypeOK, MapKey
  <1>2. userid[s] = Owner[s] /\ s \in mapRoom[mapid[s]] /\ Owner[s] \in User
    BY <1>1, OwnerAssumption DEF RoomsFollowSockets
  <1>3. Owner[s] \in PeopleOn(junto, mapid[s])
    BY <1>1, <1>2 DEF AudienceIsListed
  <1> QED
    BY <1>1, <1>2, <1>3, LiveMapOfType DEF TypeOK

\* The map a socket is on lists its user.
SocketsAreListed ==
    \A s \in connected : mapid[s] # NoMap => userid[s] \in PeopleOn(junto, mapid[s])

LEMMA AudienceListsSockets ==
    ASSUME TypeOK, RoomsFollowSockets, AudienceIsListed
    PROVE  SocketsAreListed
  BY LeaverIsListed DEF SocketsAreListed

\* LEAVE_MAP and DISCONNECT take the user of the socket off the list of the map
\* the socket is on, and nobody else off any list.
LEMMA LeaverOnly ==
    ASSUME TypeOK, SocketsAreListed, NEW s \in Socket, LeaveMap(s) \/ Disconnect(s)
    PROVE  /\ \A m \in Map : \A u :
                 u \in PeopleOn(junto', m) <=>
                    u \in PeopleOn(junto, m) /\ ~ (m = mapid[s] /\ u = userid[s])
           /\ \A m \in Map :
                 m \in DOMAIN junto'.liveMaps <=>
                    /\ m \in DOMAIN junto.liveMaps
                    /\ m = mapid[s] => PeopleOn(junto, m) # {userid[s]}
           /\ junto'.connectedPeople =
                 IF userid[s] # NoUser /\ (\E m \in Map : userid[s] \in PeopleOn(junto', m))
                 THEN junto.connectedPeople
                 ELSE junto.connectedPeople \ {userid[s]}
  <1> DEFINE h == mapid[s]
             u == userid[s]
  <1>1. /\ s \in connected /\ junto \in Store /\ h \in MapKey /\ u \in UserKey
    BY DEF TypeOK, LeaveMap, Disconnect
  <1>2. /\ \A k \in Map : k # h =>
              /\ LiveMapOf(junto', k) = LiveMapOf(junto, k)
              /\ k \in DOMAIN junto'.liveMaps <=> k \in DOMAIN junto.liveMaps
        /\ h \in Map =>
              IF mapWillEmpty(junto, h)
              THEN PeopleOn(junto', h) = {} /\ h \notin DOMAIN junto'.liveMaps
              ELSE /\ PeopleOn(junto', h) = PeopleOn(junto, h) \ {u}
                   /\ h \in DOMAIN junto'.liveMaps
        /\ junto'.connectedPeople =
              IF u # NoUser /\ (\E k \in Map : u \in PeopleOn(junto', k))
              THEN junto.connectedPeople
              ELSE junto.connectedPeople \ {u}
    <2>1. CASE LeaveMap(s)
      <3>1. junto' = ReduceLeaveMap(junto, h, u)
        BY <2>1 DEF LeaveMap
      <3> HIDE DEF h, u
      <3> QED
        BY <1>1, <3>1, LeaveMapIs
    <2>2. CASE Disconnect(s)
      <3>1. junto' = ReduceDisconnect(junto, h, u)
        BY <2>2 DEF Disconnect
      <3> HIDE DEF h, u
      <3> QED
        BY <1>1, <3>1, DisconnectIs
    <2> QED
      BY <2>1, <2>2
  <1>3. h \in Map => u \in PeopleOn(junto, h) /\ h \in DOMAIN junto.liveMaps
    BY <1>1, LiveMapOfType, NoMapAssumption DEF SocketsAreListed
  <1>4. h \in Map => (mapWillEmpty(junto, h) <=> PeopleOn(junto, h) = {u})
    BY <1>3 DEF mapWillEmpty
  <1>5. \A k \in Map : k # h => PeopleOn(junto', k) = PeopleOn(junto, k)
    BY <1>2 DEF PeopleOn
  <1> HIDE DEF h, u
  <1>6. \A m \in Map : \A v :
           v \in PeopleOn(junto', m) <=> v \in PeopleOn(junto, m) /\ ~ (m = h /\ v = u)
    BY <1>2, <1>4, <1>5
  <1>7. \A m \in Map :
           m \in DOMAIN junto'.liveMaps <=>
              /\ m \in DOMAIN junto.liveMaps
              /\ m = h => PeopleOn(junto, m) # {u}
    BY <1>2, <1>3, <1>4
  <1> QED
    BY <1>2, <1>6, <1>7 DEF h, u

\* JOIN_MAP and JOIN_CALL list the user of the socket.
LEMMA JoinerOnly ==
    ASSUME TypeOK, NEW s \in Socket, NEW m \in Map, JoinMap(s, m) \/ JoinCall(s, m)
    PROVE  /\ \A k \in Map : \A u :
                 u \in PeopleOn(junto', k) <=>
                    u \in PeopleOn(junto, k) \/ (k = m /\ u = Owner[s])
           /\ DOMAIN junto'.liveMaps = DOMAIN junto.liveMaps \cup {m}
           /\ JoinMap(s, m) =>
                 junto'.connectedPeople = junto.connectedPeople \cup {Owner[s]}
           /\ JoinCall(s, m) => junto'.connectedPeople = junto.connectedPeople
  <1>1. junto \in Store /\ Owner[s] \in User
    BY OwnerAssumption DEF TypeOK
  <1>2. /\ PeopleOn(junto', m) = PeopleOn(junto, m) \cup {Owner[s]}
        /\ \A k : k # m => LiveMapOf(junto', k) = LiveMapOf(junto, k)
        /\ DOMAIN junto'.liveMaps = DOMAIN junto.liveMaps \cup {m}
    <2>1. CASE JoinMap(s, m)
      BY <1>1, <2>1, JoinMapIs DEF JoinMap
    <2>2. CASE JoinCall(s, m)
      BY <1>1, <2>2, JoinCallIs DEF JoinCall
    <2> QED
      BY <2>1, <2>2
  <1>3. JoinMap(s, m) => junto'.connectedPeople = junto.connectedPeople \cup {Owner[s]}
    BY <1>1, JoinMapIs DEF JoinMap
  <1>4. JoinCall(s, m) => junto'.connectedPeople = junto.connectedPeople
    BY <1>1, JoinCallIs DEF JoinCall
  <1>5. \A k \in Map : k # m => PeopleOn(junto', k) = PeopleOn(junto, k)
    BY <1>2 DEF PeopleOn
  <1> QED
    BY <1>2, <1>3, <1>4, <1>5

\* LEAVE_CALL lists nobody new: the user of a socket on a map is listed already.
LEMMA HangingUpListsNobody ==
    ASSUME TypeOK, SocketsAreListed, NEW s \in Socket, NEW m \in Map, LeaveCall(s, m)
    PROVE  /\ \A k \in Map : PeopleOn(junto', k) = PeopleOn(junto, k)
           /\ \A k \in Map : k \in DOMAIN junto'.liveMaps <=> k \in DOMAIN junto.liveMaps
           /\ junto'.connectedPeople = junto.connectedPeople
  <1> DEFINE h == mapid[s]
             u == userid[s]
  <1>1. s \in connected /\ junto \in Store /\ h \in MapKey /\ u \in UserKey
    BY DEF TypeOK, LeaveCall
  <1>2. /\ PeopleOn(junto', h) = IF callWillFinish(junto, h) THEN PeopleOn(junto, h)
                                 ELSE PeopleOn(junto, h) \cup {u}
        /\ \A k : k # h => LiveMapOf(junto', k) = LiveMapOf(junto, k)
        /\ DOMAIN junto'.liveMaps = DOMAIN junto.liveMaps \cup {h}
        /\ junto'.connectedPeople = junto.connectedPeople
    <2>1. junto' = ReduceLeaveCall(junto, h, u)
      BY DEF LeaveCall
    <2> HIDE DEF h, u
    <2> QED
      BY <1>1, <2>1, LeaveCallIs
  <1>3. h \in Map => u \in PeopleOn(junto, h) /\ h \in DOMAIN junto.liveMaps
    BY <1>1, LiveMapOfType, NoMapAssumption DEF SocketsAreListed
  <1>4. \A k \in Map : k # h => PeopleOn(junto', k) = PeopleOn(junto, k)
    BY <1>2 DEF PeopleOn
  <1>5. h \in Map => PeopleOn(junto', h) = PeopleOn(junto, h)
    BY <1>2, <1>3
  <1> QED
    BY <1>2, <1>3, <1>4, <1>5

LEMMA NothingListedInit ==
    Init => \A m : PeopleOn(junto, m) = {} /\ m \notin DOMAIN junto.liveMaps
  BY DEF Init, EmptyStore, PeopleOn, LiveMapOf

LEMMA AudienceStep ==
    ASSUME OneTab, TypeOK, RoomsFollowSockets, AudienceIsListed, [Next]_vars
    PROVE  AudienceIsListed'
  <1> SUFFICES ASSUME NEW m \in Map, NEW t \in mapRoom'[m]
               PROVE  Owner[t] \in PeopleOn(junto', m)
    BY DEF AudienceIsListed
  <1>1. CASE Restart
    BY <1>1 DEF Restart
  <1>2. ASSUME NEW s \in Socket, Connect(s) \/ OtherEvent(s)
        PROVE  Owner[t] \in PeopleOn(junto', m)
    BY <1>2 DEF Connect, OtherEvent, AudienceIsListed
  <1>3. ASSUME NEW s \in Socket, LeaveMap(s) \/ Disconnect(s)
        PROVE  Owner[t] \in PeopleOn(junto', m)
    <2>1. t \in mapRoom[m] /\ ~ (m = mapid[s] /\ t = s)
      BY <1>3, LeaveMapRooms DEF Disconnect
    <2>2. t \in Socket /\ s \in connected
      BY <1>3, <2>1 DEF TypeOK, LeaveMap, Disconnect
    <2>3. m = mapid[s] => userid[s] = Owner[s]
      BY <2>2, LeaverIsListed, NoMapAssumption
    <2>4. ~ (m = mapid[s] /\ Owner[t] = userid[s])
      BY <2>1, <2>2, <2>3 DEF OneTab
    <2> QED
      BY <1>3, <2>1, <2>4, AudienceListsSockets, LeaverOnly DEF AudienceIsListed
  <1>4. ASSUME NEW s \in Socket, NEW k \in Map, JoinMap(s, k)
        PROVE  Owner[t] \in PeopleOn(junto', m)
    BY <1>4, JoinMapRooms, JoinerOnly DEF AudienceIsListed
  <1>5. ASSUME NEW s \in Socket, NEW k \in Map, JoinCall(s, k)
        PROVE  Owner[t] \in PeopleOn(junto', m)
    <2>1. t \in mapRoom[m]
      BY <1>5 DEF JoinCall
    <2> QED
      BY <1>5, <2>1, JoinerOnly DEF AudienceIsListed
  <1>6. ASSUME NEW s \in Socket, NEW k \in Map, LeaveCall(s, k)
        PROVE  Owner[t] \in PeopleOn(junto', m)
    <2>1. t \in mapRoom[m]
      BY <1>6 DEF LeaveCall
    <2> QED
      BY <1>6, <2>1, AudienceListsSockets, HangingUpListsNobody DEF AudienceIsListed
  <1>7. CASE UNCHANGED vars
    BY <1>7 DEF vars, serverVars, AudienceIsListed
  <1> QED
    BY <1>1, <1>2, <1>3, <1>4, <1>5, <1>6, <1>7, NextCases

\* The inductive invariant the remaining results rest on.
Core == TypeOK /\ RoomsFollowSockets /\ AudienceIsListed

LEMMA CoreInvariant ==
    ASSUME OneTab
    PROVE  Spec => []Core
  <1>1. Init => Core
    BY InitType, RoomsInit DEF Core, Init, AudienceIsListed
  <1>2. Core /\ [Next]_vars => Core'
    BY TypeStep, RoomsStep, AudienceStep DEF Core
  <1> QED
    BY <1>1, <1>2, PTL DEF Spec

\* With one connection per user, whoever hears a map's broadcasts is on the list
\* the other pages show for that map.
THEOREM AudienceStaysListed ==
    ASSUME OneTab
    PROVE  Spec => []AudienceIsListed
  <1>1. Core => AudienceIsListed
    BY DEF Core
  <1> QED
    BY <1>1, CoreInvariant, PTL

-----------------------------------------------------------------------------
\* The directory.

LEMMA DirectoryStep ==
    ASSUME OneTab, Core, DirectoryMatchesLists, [Next]_vars
    PROVE  DirectoryMatchesLists'
  <1> USE DEF Core
  <1> DEFINE Listed == {u \in User : \E m \in Map : u \in PeopleOn(junto, m)}
  <1> SUFFICES ASSUME "call" \notin strays'
               PROVE  junto'.connectedPeople = Listed'
    BY DEF DirectoryMatchesLists
  <1>1. CASE Restart
    <2>1. junto' = EmptyStore
      BY <1>1 DEF Restart
    <2> QED
      BY <2>1 DEF EmptyStore, PeopleOn, LiveMapOf
  <1>2. ASSUME NEW s \in Socket, Connect(s) \/ OtherEvent(s)
        PROVE  junto'.connectedPeople = Listed'
    BY <1>2 DEF Connect, OtherEvent, DirectoryMatchesLists
  <1>3. ASSUME NEW s \in Socket, LeaveMap(s) \/ Disconnect(s)
        PROVE  junto'.connectedPeople = Listed'
    <2>1. junto.connectedPeople = Listed
      BY <1>3 DEF LeaveMap, Disconnect, DirectoryMatchesLists
    <2>2. /\ \A m \in Map : \A u :
                u \in PeopleOn(junto', m) <=>
                   u \in PeopleOn(junto, m) /\ ~ (m = mapid[s] /\ u = userid[s])
          /\ junto'.connectedPeople =
                IF userid[s] # NoUser /\ (\E m \in Map : userid[s] \in PeopleOn(junto', m))
                THEN junto.connectedPeople
                ELSE junto.connectedPeople \ {userid[s]}
      BY <1>3, AudienceListsSockets, LeaverOnly
    <2>3. \A u \in User : u # NoUser
      BY NoUserAssumption
    <2>4. \A u \in User : u # userid[s] => (u \in Listed <=> u \in Listed')
      BY <2>2
    <2>5. \A u : u \in junto'.connectedPeople <=> u \in Listed'
      <3>1. CASE \E m \in Map : userid[s] \in PeopleOn(junto', m)
        BY <2>1, <2>2, <2>3, <2>4, <3>1
      <3>2. CASE ~ \E m \in Map : userid[s] \in PeopleOn(junto', m)
        BY <2>1, <2>2, <2>4, <3>2
      <3> QED
        BY <3>1, <3>2
    <2> QED
      BY <2>5, TypeStep DEF TypeOK, Store
  <1>4. ASSUME NEW s \in Socket, NEW m \in Map, JoinMap(s, m)
        PROVE  junto'.connectedPeople = Listed'
    <2>1. junto.connectedPeople = Listed /\ Owner[s] \in User
      BY <1>4, OwnerAssumption DEF JoinMap, DirectoryMatchesLists
    <2> QED
      BY <1>4, <2>1, JoinerOnly
  <1>5. ASSUME NEW s \in Socket, NEW m \in Map, JoinCall(s, m)
        PROVE  junto'.connectedPeople = Listed'
    <2>1. junto.connectedPeople = Listed /\ mapid[s] = m /\ s \in connected
      BY <1>5 DEF JoinCall, DirectoryMatchesLists
    <2>2. Owner[s] \in PeopleOn(junto, m)
      BY <2>1, LeaverIsListed, NoMapAssumption
    <2>3. \A k \in Map : \A u : u \in PeopleOn(junto', k) <=> u \in PeopleOn(junto, k)
      BY <1>5, <2>2, JoinerOnly
    <2> QED
      BY <1>5, <2>1, <2>3, JoinerOnly
  <1>6. ASSUME NEW s \in Socket, NEW m \in Map, LeaveCall(s, m)
        PROVE  junto'.connectedPeople = Listed'
    <2>1. junto.connectedPeople = Listed
      BY <1>6 DEF LeaveCall, DirectoryMatchesLists
    <2> QED
      BY <1>6, <2>1, AudienceListsSockets, HangingUpListsNobody
  <1>7. CASE UNCHANGED vars
    BY <1>7 DEF vars, serverVars, DirectoryMatchesLists
  <1> QED
    BY <1>1, <1>2, <1>3, <1>4, <1>5, <1>6, <1>7, NextCases

\* With one connection per user, and calls joined from the map the page is on,
\* the directory holds exactly the users some map lists.
THEOREM DirectoryIsExact ==
    ASSUME OneTab
    PROVE  Spec => []DirectoryMatchesLists
  <1>1. Init => DirectoryMatchesLists
    BY NothingListedInit DEF Init, EmptyStore, DirectoryMatchesLists
  <1>2. Core /\ DirectoryMatchesLists /\ [Next]_vars => DirectoryMatchesLists'
    BY DirectoryStep
  <1> QED
    BY <1>1, <1>2, CoreInvariant, PTL DEF Spec

-----------------------------------------------------------------------------
\* Lists against sockets.

Here(m) == {Owner[s] : s \in {t \in connected : mapid[t] = m}}

LEMMA ExactStep ==
    ASSUME OneTab, Core, StoreIsExact, [Next]_vars
    PROVE  StoreIsExact'
  <1> USE DEF Core
  <1> SUFFICES ASSUME strays' = {}, NEW m \in Map
               PROVE  /\ PeopleOn(junto', m) = Here(m)'
                      /\ m \in DOMAIN junto'.liveMaps <=> Here(m)' # {}
    BY DEF StoreIsExact, Here
  <1> DEFINE Goal == /\ PeopleOn(junto', m) = Here(m)'
                     /\ m \in DOMAIN junto'.liveMaps <=> Here(m)' # {}
  <1>0. strays = {} => /\ PeopleOn(junto, m) = Here(m)
                       /\ m \in DOMAIN junto.liveMaps <=> Here(m) # {}
    BY DEF StoreIsExact, Here
  <1>1. CASE Restart
    <2>1. junto' = EmptyStore /\ connected' = {}
      BY <1>1 DEF Restart
    <2> QED
      BY <2>1 DEF EmptyStore, PeopleOn, LiveMapOf, Here
  <1>2. ASSUME NEW s \in Socket, Connect(s) PROVE Goal
    <2>1. mapid[s] = NoMap /\ m # NoMap
      BY <1>2, NoMapAssumption DEF Connect, RoomsFollowSockets
    <2>2. Here(m)' = Here(m)
      BY <1>2, <2>1 DEF Connect, Here
    <2> QED
      BY <1>0, <1>2, <2>2 DEF Connect
  <1>3. ASSUME NEW s \in Socket, LeaveMap(s) \/ Disconnect(s) PROVE Goal
    <2>1. /\ strays = {} /\ s \in connected
          /\ mapid' = [mapid EXCEPT ![s] = NoMap]
          /\ connected' = connected \/ connected' = connected \ {s}
      BY <1>3 DEF LeaveMap, Disconnect
    <2>2. \A t : (t \in connected' /\ mapid'[t] = m) <=>
                 (t \in connected /\ mapid[t] = m /\ t # s)
      BY <2>1, NoMapAssumption DEF TypeOK
    <2>3. m = mapid[s] => userid[s] = Owner[s]
      BY <2>1, LeaverIsListed, NoMapAssumption
    <2>4. \A t \in connected : Owner[t] = Owner[s] => t = s
      BY DEF OneTab, TypeOK
    <2>5. \A u : u \in Here(m)' <=> u \in Here(m) /\ ~ (m = mapid[s] /\ u = Owner[s])
      BY <2>1, <2>2, <2>4 DEF Here
    <2>6. \A u : u \in PeopleOn(junto', m) <=>
                 u \in PeopleOn(junto, m) /\ ~ (m = mapid[s] /\ u = userid[s])
      BY <1>3, AudienceListsSockets, LeaverOnly
    <2>7. PeopleOn(junto', m) = Here(m)'
      <3>1. \A u : u \in PeopleOn(junto', m) <=> u \in Here(m)'
        BY <1>0, <2>1, <2>3, <2>5, <2>6
      <3> QED
        BY <3>1 DEF PeopleOn, Here
    <2>8. m \in DOMAIN junto'.liveMaps <=>
             /\ m \in DOMAIN junto.liveMaps
             /\ m = mapid[s] => PeopleOn(junto, m) # {userid[s]}
      BY <1>3, AudienceListsSockets, LeaverOnly
    <2>9. m = mapid[s] => Owner[s] \in Here(m)
      BY <2>1 DEF Here
    <2> QED
      BY <1>0, <2>1, <2>3, <2>5, <2>7, <2>8, <2>9
  <1>4. ASSUME NEW s \in Socket, NEW k \in Map, JoinMap(s, k) PROVE Goal
    <2>1. /\ strays = {} /\ s \in connected /\ connected' = connected
          /\ mapid[s] \in {NoMap, k} /\ mapid' = [mapid EXCEPT ![s] = k]
      BY <1>4 DEF JoinMap
    <2>2. \A t \in connected : mapid'[t] = m <=> mapid[t] = m \/ (t = s /\ m = k)
      BY <2>1, NoMapAssumption DEF TypeOK
    <2>3. \A u : u \in Here(m)' <=> u \in Here(m) \/ (m = k /\ u = Owner[s])
      BY <2>1, <2>2 DEF Here
    <2>4. \A u : u \in PeopleOn(junto', m) <=>
                 u \in PeopleOn(junto, m) \/ (m = k /\ u = Owner[s])
      BY <1>4, JoinerOnly
    <2>5. PeopleOn(junto', m) = Here(m)'
      <3>1. \A u : u \in PeopleOn(junto', m) <=> u \in Here(m)'
        BY <1>0, <2>1, <2>3, <2>4
      <3> QED
        BY <3>1 DEF PeopleOn, Here
    <2>6. DOMAIN junto'.liveMaps = DOMAIN junto.liveMaps \cup {k}
      BY <1>4, JoinerOnly
    <2> QED
      BY <1>0, <2>1, <2>3, <2>5, <2>6
  <1>5. ASSUME NEW s \in Socket, NEW k \in Map, JoinCall(s, k) PROVE Goal
    <2>1. /\ strays = {} /\ s \in connected /\ mapid[s] = k
          /\ UNCHANGED <<connected, mapid>>
      BY <1>5 DEF JoinCall
    <2>2. Owner[s] \in PeopleOn(junto, k) /\ k \in DOMAIN junto.liveMaps
      BY <2>1, LeaverIsListed, NoMapAssumption
    <2>3. Here(m)' = Here(m)
      BY <2>1 DEF Here
    <2>4. \A u : u \in PeopleOn(junto', m) <=> u \in PeopleOn(junto, m)
      BY <1>5, <2>2, JoinerOnly
    <2>5. PeopleOn(junto', m) = Here(m)'
      <3>1. \A u : u \in PeopleOn(junto', m) <=> u \in Here(m)'
        BY <1>0, <2>1, <2>3, <2>4
      <3> QED
        BY <3>1 DEF PeopleOn, Here
    <2>6. m \in DOMAIN junto'.liveMaps <=> m \in DOMAIN junto.liveMaps
      BY <1>5, <2>2, JoinerOnly
    <2> QED
      BY <1>0, <2>1, <2>3, <2>5, <2>6
  <1>6. ASSUME NEW s \in Socket, NEW k \in Map, LeaveCall(s, k) PROVE Goal
    <2>1. strays = {} /\ Here(m)' = Here(m)
      BY <1>6 DEF LeaveCall, Here
    <2> QED
      BY <1>0, <1>6, <2>1, AudienceListsSockets, HangingUpListsNobody
  <1>7. ASSUME NEW s \in Socket, OtherEvent(s) PROVE Goal
    BY <1>0, <1>7 DEF OtherEvent, Here
  <1>8. CASE UNCHANGED vars
    BY <1>0, <1>8 DEF vars, serverVars, Here
  <1> QED
    BY <1>1, <1>2, <1>3, <1>4, <1>5, <1>6, <1>7, <1>8, NextCases

\* With one connection per user, and pages that leave a map before they join the
\* next, a map lists exactly the users of the sockets on it and is live exactly
\* when there is one.
THEOREM StoreStaysExact ==
    ASSUME OneTab
    PROVE  Spec => []StoreIsExact
  <1>1. Init => StoreIsExact
    <2> SUFFICES ASSUME Init PROVE StoreIsExact
      OBVIOUS
    <2>1. connected = {}
      BY DEF Init
    <2> QED
      BY <2>1, NothingListedInit DEF StoreIsExact
  <1>2. Core /\ StoreIsExact /\ [Next]_vars => StoreIsExact'
    BY ExactStep
  <1> QED
    BY <1>1, <1>2, CoreInvariant, PTL DEF Spec

-----------------------------------------------------------------------------
\* Nobody goes off a list unannounced.

\* The last message of a disconnection, whether or not a feed was removed.
LEMMA LastOfDisconnect ==
    ASSUME NEW x, NEW y, NEW z, NEW removed,
           removed = <<>> \/ removed = <<y>>
    PROVE  \E i \in DOMAIN (<<x>> \o removed \o <<z>>) :
              (<<x>> \o removed \o <<z>>)[i] = z
  <1> DEFINE S == {x, y, z}
             ahead == <<x>> \o removed
             all == ahead \o <<z>>
  <1>0. x \in S /\ y \in S /\ z \in S
    OBVIOUS
  <1>1. <<x>> \in Seq(S) /\ removed \in Seq(S) /\ <<z>> \in Seq(S)
    <2> HIDE DEF S
    <2>1. <<x>> \in Seq(S) /\ <<y>> \in Seq(S) /\ <<z>> \in Seq(S) /\ <<>> \in Seq(S)
      BY <1>0
    <2> QED
      BY <2>1
  <1>2. ahead \in Seq(S)
    BY <1>1
  <1> HIDE DEF ahead, S
  <1>3. all \in Seq(S) /\ Len(all) = Len(ahead) + 1 /\ Len(ahead) \in Nat
    BY <1>1, <1>2
  <1>4. all[Len(ahead) + 1] = z
    BY <1>1, <1>2, <1>3
  <1>5. Len(ahead) + 1 \in DOMAIN all
    BY <1>3
  <1> QED
    BY <1>4, <1>5 DEF ahead

\* LEAVE_MAP and DISCONNECT tell everybody left in the room who was lost.
LEMMA LeaverIsAnnounced ==
    ASSUME Core, NEW s \in Socket, LeaveMap(s) \/ Disconnect(s), mapid[s] \in Map
    PROVE  \E i \in DOMAIN emitted' :
              /\ emitted'[i].type = "LOST_MAPPER"
              /\ emitted'[i].about = userid[s]
              /\ mapRoom'[mapid[s]] \subseteq emitted'[i].to
  <1> DEFINE lost == Emit(MapRoom(mapid[s]) \ {s}, "LOST_MAPPER", userid[s])
  <1>1. /\ lost.type = "LOST_MAPPER"
        /\ lost.about = userid[s]
        /\ lost.to = mapRoom[mapid[s]] \ {s}
    BY DEF Emit, MapRoom
  <1>2. \A t : t \in mapRoom'[mapid[s]] => t \in mapRoom[mapid[s]] \ {s}
    BY LeaveMapRooms DEF Core, Disconnect
  <1>3. \E i \in DOMAIN emitted' : emitted'[i] = lost
    <2>1. CASE LeaveMap(s)
      <3>1. emitted' = <<JuntoUpdated(connected), lost>>
        BY <2>1 DEF LeaveMap, LostMapper
      <3> HIDE DEF lost
      <3> QED
        BY <3>1
    <2>2. CASE Disconnect(s)
      <3> DEFINE removed == IF videoRoom[s] = NoMap THEN <<>>
                            ELSE <<Emit(VideoRoom(videoRoom[s]) \ {s}, "remove", s)>>
      <3>1. emitted' = <<JuntoUpdated(connected')>> \o removed \o <<lost>>
        BY <2>2 DEF Disconnect, LostMapper
      <3>2. \/ removed = <<>>
            \/ removed = <<Emit(VideoRoom(videoRoom[s]) \ {s}, "remove", s)>>
        OBVIOUS
      <3> HIDE DEF removed, lost
      <3> QED
        BY <3>1, <3>2, LastOfDisconnect
    <2> QED
      BY <2>1, <2>2
  <1> HIDE DEF lost
  <1> QED
    BY <1>1, <1>2, <1>3

\* With one connection per user, a user goes off a map's list only in a step that
\* tells everyone still in the map's room.
THEOREM NobodyGoesUnannounced ==
    ASSUME OneTab
    PROVE  Spec => NobodyVanishesSilently
  <1> DEFINE Announced ==
               \A m \in Map : \A u \in PeopleOn(junto, m) \ PeopleOn(junto', m) :
                  \/ connected' = {}
                  \/ \E i \in DOMAIN emitted' :
                        /\ emitted'[i].type = "LOST_MAPPER"
                        /\ emitted'[i].about = u
                        /\ mapRoom'[m] \subseteq emitted'[i].to
  <1>1. Core /\ [Next]_vars => [Announced]_vars
    <2> SUFFICES ASSUME Core, Next,
                        NEW m \in Map, NEW u \in PeopleOn(junto, m) \ PeopleOn(junto', m)
                 PROVE  \/ connected' = {}
                        \/ \E i \in DOMAIN emitted' :
                              /\ emitted'[i].type = "LOST_MAPPER"
                              /\ emitted'[i].about = u
                              /\ mapRoom'[m] \subseteq emitted'[i].to
      OBVIOUS
    <2> USE DEF Core
    <2>1. CASE Restart
      BY <2>1 DEF Restart
    <2>2. ASSUME NEW s \in Socket, Connect(s) \/ OtherEvent(s) PROVE FALSE
      BY <2>2 DEF Connect, OtherEvent
    <2>3. ASSUME NEW s \in Socket, NEW k \in Map, JoinMap(s, k) \/ JoinCall(s, k)
          PROVE  FALSE
      BY <2>3, JoinerOnly
    <2>4. ASSUME NEW s \in Socket, NEW k \in Map, LeaveCall(s, k) PROVE FALSE
      BY <2>4, AudienceListsSockets, HangingUpListsNobody
    <2>5. ASSUME NEW s \in Socket, LeaveMap(s) \/ Disconnect(s)
          PROVE  \E i \in DOMAIN emitted' :
                    /\ emitted'[i].type = "LOST_MAPPER"
                    /\ emitted'[i].about = u
                    /\ mapRoom'[m] \subseteq emitted'[i].to
      <3>1. m = mapid[s] /\ u = userid[s]
        BY <2>5, AudienceListsSockets, LeaverOnly
      <3> QED
        BY <2>5, <3>1, LeaverIsAnnounced
    <2> QED
      BY <2>1, <2>2, <2>3, <2>4, <2>5, NextCases
  <1>2. Spec => [][Announced]_vars
    BY <1>1, CoreInvariant, PTL DEF Spec
  <1> QED
    BY <1>2 DEF NobodyVanishesSilently

-----------------------------------------------------------------------------
\* Who talks, in terms of the flags of a map's list.

Talkers(people) == {u \in DOMAIN people : people[u] = IN_CONVERSATION}

LEMMA TalkersOf == \A store, m : TalkingOn(store, m) = Talkers(LiveMapOf(store, m))
  BY DEF TalkingOn, Talkers, PeopleOn

\* What assigning a flag, leaving out a key, and hanging up do to them.
LEMMA TalkersAfter ==
    ASSUME NEW people, NEW u
    PROVE  /\ Talkers(Assign(people, u, IN_CONVERSATION)) = Talkers(people) \cup {u}
           /\ Talkers(Assign(people, u, NOT_IN_CONVERSATION)) = Talkers(people) \ {u}
           /\ Talkers(Omit(people, u)) = Talkers(people) \ {u}
           /\ Talkers(EverybodyHangsUp(people)) = {}
  <1>1. IN_CONVERSATION # NOT_IN_CONVERSATION
    BY DEF IN_CONVERSATION, NOT_IN_CONVERSATION
  <1>2. Talkers(Assign(people, u, IN_CONVERSATION)) = Talkers(people) \cup {u}
    BY DEF Talkers, Assign
  <1>3. Talkers(Assign(people, u, NOT_IN_CONVERSATION)) = Talkers(people) \ {u}
    BY <1>1 DEF Talkers, Assign
  <1>4. Talkers(Omit(people, u)) = Talkers(people) \ {u}
    BY DEF Talkers, Omit
  <1>5. Talkers(EverybodyHangsUp(people)) = {}
    BY <1>1 DEF Talkers, EverybodyHangsUp
  <1> QED
    BY <1>2, <1>3, <1>4, <1>5

\* LEAVE_MAP and DISCONNECT, on the map left and on the others.
LEMMA DepartureIs ==
    ASSUME NEW store \in Store, NEW m \in MapKey, NEW u \in UserKey, NEW after,
           \/ after = ReduceLeaveMap(store, m, u)
           \/ after = ReduceDisconnect(store, m, u)
    PROVE  /\ \A k \in Map : k # m => LiveMapOf(after, k) = LiveMapOf(store, k)
           /\ m \in Map =>
                 IF mapWillEmpty(store, m) THEN PeopleOn(after, m) = {}
                 ELSE /\ PeopleOn(after, m) = PeopleOn(store, m) \ {u}
                      /\ \/ TalkingOn(after, m) = TalkingOn(store, m) \ {u}
                         \/ callWillFinish(store, m) /\ TalkingOn(after, m) = {}
  <1> DEFINE others == Omit(LiveMapOf(store, m), u)
             quiet == EverybodyHangsUp(others)
  <1>1. /\ others \in LiveMap /\ DOMAIN others = PeopleOn(store, m) \ {u}
        /\ quiet \in LiveMap /\ DOMAIN quiet = PeopleOn(store, m) \ {u}
    BY OthersAre
  <1>2. Talkers(others) = TalkingOn(store, m) \ {u} /\ Talkers(quiet) = {}
    BY TalkersOf, TalkersAfter
  <1>3. \/ after = Removal(store, m, u, others)
        \/ callWillFinish(store, m) /\ after = Removal(store, m, u, quiet)
    <2>1. CASE after = ReduceLeaveMap(store, m, u)
      BY <2>1 DEF ReduceLeaveMap, Removal
    <2>2. CASE after = ReduceDisconnect(store, m, u)
      BY <2>2 DEF ReduceDisconnect, Removal
    <2> QED
      BY <2>1, <2>2
  <1> HIDE DEF others, quiet
  <1>4. PICK people \in {others, quiet} :
           /\ people = others \/ callWillFinish(store, m)
           /\ after = Removal(store, m, u, people)
    BY <1>3
  <1>5. people \in LiveMap /\ DOMAIN people = PeopleOn(store, m) \ {u}
    BY <1>1, <1>4
  <1>6. /\ \A k \in Map : k # m => LiveMapOf(after, k) = LiveMapOf(store, k)
        /\ m \in Map => IF mapWillEmpty(store, m) THEN PeopleOn(after, m) = {}
                        ELSE LiveMapOf(after, m) = people
    <2>1. LET r == Removal(store, m, u, people)
          IN  /\ \A k \in Map : k # m =>
                    /\ LiveMapOf(r, k) = LiveMapOf(store, k)
                    /\ k \in DOMAIN r.liveMaps <=> k \in DOMAIN store.liveMaps
              /\ m \in Map =>
                    IF mapWillEmpty(store, m)
                    THEN PeopleOn(r, m) = {} /\ m \notin DOMAIN r.liveMaps
                    ELSE LiveMapOf(r, m) = people /\ m \in DOMAIN r.liveMaps
      BY <1>5, RemovalIs
    <2> QED
      BY <1>4, <2>1
  <1>7. LiveMapOf(after, m) = people => /\ PeopleOn(after, m) = PeopleOn(store, m) \ {u}
                                         /\ TalkingOn(after, m) = Talkers(people)
    BY <1>5, TalkersOf DEF PeopleOn
  <1> QED
    BY <1>2, <1>4, <1>6, <1>7

-----------------------------------------------------------------------------
\* The keys of a map's list are users: no event lists the key null.
ListsUsers == \A m \in Map : PeopleOn(junto, m) \subseteq User

LEMMA ListsUsersStep ==
    ASSUME Core, ListsUsers, [Next]_vars
    PROVE  ListsUsers'
  <1> USE DEF Core
  <1> SUFFICES ASSUME NEW m \in Map, NEW u \in PeopleOn(junto', m) PROVE u \in User
    BY DEF ListsUsers
  <1>1. CASE Restart
    BY <1>1 DEF Restart, EmptyStore, PeopleOn, LiveMapOf
  <1>2. ASSUME NEW s \in Socket, Connect(s) \/ OtherEvent(s) PROVE u \in User
    BY <1>2 DEF Connect, OtherEvent, ListsUsers
  <1>3. ASSUME NEW s \in Socket, LeaveMap(s) \/ Disconnect(s) PROVE u \in User
    BY <1>3, AudienceListsSockets, LeaverOnly DEF ListsUsers
  <1>4. ASSUME NEW s \in Socket, NEW k \in Map, JoinMap(s, k) \/ JoinCall(s, k)
        PROVE  u \in User
    BY <1>4, JoinerOnly, OwnerAssumption DEF ListsUsers
  <1>5. ASSUME NEW s \in Socket, NEW k \in Map, LeaveCall(s, k) PROVE u \in User
    BY <1>5, AudienceListsSockets, HangingUpListsNobody DEF ListsUsers
  <1>6. CASE UNCHANGED vars
    BY <1>6 DEF vars, serverVars, ListsUsers
  <1> QED
    BY <1>1, <1>2, <1>3, <1>4, <1>5, <1>6, NextCases

-----------------------------------------------------------------------------
\* A step that touches the lists of one map is a step of Presence if it does to
\* that map what the action of Presence does.

On == [m \in Map |-> PeopleOn(junto, m)]
Talking == [m \in Map |-> TalkingOn(junto, m)]

LEMMA OneMap ==
    ASSUME NEW m \in Map, NEW P, NEW T,
           PeopleOn(junto', m) = P, TalkingOn(junto', m) = T,
           \A k \in Map : k # m => LiveMapOf(junto', k) = LiveMapOf(junto, k)
    PROVE  On' = [On EXCEPT ![m] = P] /\ Talking' = [Talking EXCEPT ![m] = T]
  <1>1. \A k \in Map : k # m => /\ PeopleOn(junto', k) = PeopleOn(junto, k)
                                /\ TalkingOn(junto', k) = TalkingOn(junto, k)
    BY DEF PeopleOn, TalkingOn
  <1> QED
    BY <1>1 DEF On, Talking

LEMMA NoMapTouched ==
    ASSUME \A k \in Map : LiveMapOf(junto', k) = LiveMapOf(junto, k)
    PROVE  On' = On /\ Talking' = Talking
  BY DEF On, Talking, PeopleOn, TalkingOn

\* What the actions of Presence say, in these terms.
LEMMA PresenceActions ==
    /\ \A u, m : Listing!Enter(u, m) <=>
          /\ On' = [On EXCEPT ![m] = @ \cup {u}]
          /\ Talking' = [Talking EXCEPT ![m] = @ \ {u}]
    /\ \A u, m : Listing!Exit(u, m) <=>
          /\ On' = [On EXCEPT ![m] = @ \ {u}]
          /\ \/ Talking' = [Talking EXCEPT ![m] = @ \ {u}]
             \/ (\E v \in User : On[m] = {u, v}) /\ Talking' = [Talking EXCEPT ![m] = {}]
    /\ \A u, m : Listing!StartTalking(u, m) <=>
          /\ On' = [On EXCEPT ![m] = @ \cup {u}]
          /\ Talking' = [Talking EXCEPT ![m] = @ \cup {u}]
    /\ \A u, m : Listing!StopTalking(u, m) <=>
          /\ u \in On[m]
          /\ \/ Talking' = [Talking EXCEPT ![m] = @ \ {u}]
             \/ (\E v \in User : On[m] = {u, v}) /\ Talking' = [Talking EXCEPT ![m] = {}]
          /\ On' = On
  BY DEF On, Talking, Listing!Enter, Listing!Exit, Listing!StartTalking, Listing!StopTalking

\* A call that finishes is of two users, one of them the one who goes.
LEMMA CallOfTwo ==
    ASSUME ListsUsers, NEW m \in Map, NEW u \in PeopleOn(junto, m), callWillFinish(junto, m)
    PROVE  \E v \in User : PeopleOn(junto, m) = {u, v}
  <1>1. PICK v, w \in PeopleOn(junto, m) : v # w /\ PeopleOn(junto, m) = {v, w}
    BY DEF callWillFinish
  <1>2. v \in User /\ w \in User
    BY <1>1 DEF ListsUsers
  <1> QED
    BY <1>1, <1>2

\* JOIN_MAP and JOIN_CALL.
LEMMA ArrivalStep ==
    ASSUME Core, NEW s \in Socket, NEW m \in Map
    PROVE  /\ JoinMap(s, m) => Listing!Enter(Owner[s], m)
           /\ JoinCall(s, m) => Listing!StartTalking(Owner[s], m)
  <1> DEFINE u == Owner[s]
  <1>0. u \in User /\ junto \in Store
    BY OwnerAssumption DEF Core, TypeOK
  <1>1. ASSUME JoinMap(s, m) PROVE Listing!Enter(u, m)
    <2>1. junto' = ReduceJoinMap(junto, m, u)
      BY <1>1 DEF JoinMap
    <2>2. /\ LiveMapOf(junto', m) = Assign(LiveMapOf(junto, m), u, NOT_IN_CONVERSATION)
          /\ PeopleOn(junto', m) = PeopleOn(junto, m) \cup {u}
          /\ \A k : k # m => LiveMapOf(junto', k) = LiveMapOf(junto, k)
      BY <1>0, <2>1, JoinMapIs
    <2>3. TalkingOn(junto', m) = TalkingOn(junto, m) \ {u}
      BY <2>2, TalkersOf, TalkersAfter
    <2>4. /\ On' = [On EXCEPT ![m] = PeopleOn(junto, m) \cup {u}]
          /\ Talking' = [Talking EXCEPT ![m] = TalkingOn(junto, m) \ {u}]
      BY <2>2, <2>3, OneMap
    <2> QED
      BY <2>4, PresenceActions DEF On, Talking
  <1>2. ASSUME JoinCall(s, m) PROVE Listing!StartTalking(u, m)
    <2>1. junto' = ReduceJoinCall(junto, m, u)
      BY <1>2 DEF JoinCall
    <2>2. /\ LiveMapOf(junto', m) = Assign(LiveMapOf(junto, m), u, IN_CONVERSATION)
          /\ PeopleOn(junto', m) = PeopleOn(junto, m) \cup {u}
          /\ \A k : k # m => LiveMapOf(junto', k) = LiveMapOf(junto, k)
      BY <1>0, <2>1, JoinCallIs
    <2>3. TalkingOn(junto', m) = TalkingOn(junto, m) \cup {u}
      BY <2>2, TalkersOf, TalkersAfter
    <2>4. /\ On' = [On EXCEPT ![m] = PeopleOn(junto, m) \cup {u}]
          /\ Talking' = [Talking EXCEPT ![m] = TalkingOn(junto, m) \cup {u}]
      BY <2>2, <2>3, OneMap
    <2> QED
      BY <2>4, PresenceActions DEF On, Talking
  <1> QED
    BY <1>1, <1>2

\* LEAVE_MAP, DISCONNECT and LEAVE_CALL of a socket that is on no map touch no list.
LEMMA NowhereStep ==
    ASSUME Core, NEW s \in Socket, mapid[s] = NoMap,
           LeaveMap(s) \/ Disconnect(s) \/ \E m \in Map : LeaveCall(s, m)
    PROVE  On' = On /\ Talking' = Talking
  <1>1. /\ junto \in Store /\ NoMap \in MapKey /\ userid[s] \in UserKey
        /\ \A k \in Map : k # NoMap
    BY NoMapAssumption DEF Core, TypeOK, MapKey
  <1>2. \/ junto' = ReduceLeaveMap(junto, NoMap, userid[s])
        \/ junto' = ReduceDisconnect(junto, NoMap, userid[s])
        \/ junto' = ReduceLeaveCall(junto, NoMap, userid[s])
    BY DEF LeaveMap, Disconnect, LeaveCall
  <1>3. \A k \in Map : LiveMapOf(junto', k) = LiveMapOf(junto, k)
    <2>1. CASE junto' = ReduceLeaveCall(junto, NoMap, userid[s])
      BY <1>1, <2>1, LeaveCallIs
    <2>2. CASE junto' # ReduceLeaveCall(junto, NoMap, userid[s])
      BY <1>1, <1>2, <2>2, DepartureIs
    <2> QED
      BY <2>1, <2>2
  <1> QED
    BY <1>3, NoMapTouched

\* LEAVE_MAP and DISCONNECT of a socket on a map.
LEMMA DepartureStep ==
    ASSUME Core, ListsUsers, NEW s \in Socket, mapid[s] # NoMap,
           LeaveMap(s) \/ Disconnect(s)
    PROVE  mapid[s] \in Map /\ userid[s] \in User /\ Listing!Exit(userid[s], mapid[s])
  <1> DEFINE m == mapid[s]
             u == userid[s]
  <1>1. s \in connected /\ junto \in Store
    BY DEF LeaveMap, Disconnect, Core, TypeOK
  <1>2. m \in Map /\ u \in User /\ u \in PeopleOn(junto, m)
    BY <1>1, LeaverIsListed DEF Core
  <1>3. \/ junto' = ReduceLeaveMap(junto, m, u)
        \/ junto' = ReduceDisconnect(junto, m, u)
    BY DEF LeaveMap, Disconnect
  <1>4. m \in MapKey /\ u \in UserKey
    BY <1>2 DEF MapKey, UserKey
  <1> HIDE DEF m, u
  <1>5. /\ \A k \in Map : k # m => LiveMapOf(junto', k) = LiveMapOf(junto, k)
        /\ IF mapWillEmpty(junto, m) THEN PeopleOn(junto', m) = {}
           ELSE /\ PeopleOn(junto', m) = PeopleOn(junto, m) \ {u}
                /\ \/ TalkingOn(junto', m) = TalkingOn(junto, m) \ {u}
                   \/ callWillFinish(junto, m) /\ TalkingOn(junto', m) = {}
    BY <1>1, <1>2, <1>3, <1>4, DepartureIs
  <1>6. PeopleOn(junto', m) = PeopleOn(junto, m) \ {u}
    BY <1>2, <1>5 DEF mapWillEmpty
  <1>7. \/ TalkingOn(junto', m) = TalkingOn(junto, m) \ {u}
        \/ callWillFinish(junto, m) /\ TalkingOn(junto', m) = {}
    <2>1. CASE mapWillEmpty(junto, m)
      <3>1. PeopleOn(junto, m) = {u} /\ PeopleOn(junto', m) = {}
        BY <1>2, <1>5, <2>1 DEF mapWillEmpty
      <3> QED
        BY <3>1 DEF TalkingOn
    <2>2. CASE ~ mapWillEmpty(junto, m)
      BY <1>5, <2>2
    <2> QED
      BY <2>1, <2>2
  <1>8. callWillFinish(junto, m) => \E v \in User : PeopleOn(junto, m) = {u, v}
    BY <1>2, CallOfTwo
  <1>9. Listing!Exit(u, m)
    <2>1. /\ On' = [On EXCEPT ![m] = PeopleOn(junto, m) \ {u}]
          /\ Talking' = [Talking EXCEPT ![m] = TalkingOn(junto', m)]
      BY <1>2, <1>5, <1>6, OneMap
    <2>2. On[m] = PeopleOn(junto, m) /\ Talking[m] = TalkingOn(junto, m)
      BY <1>2 DEF On, Talking
    <2> QED
      BY <1>7, <1>8, <2>1, <2>2, PresenceActions
  <1> QED
    BY <1>2, <1>9 DEF m, u

\* LEAVE_CALL of a socket on a map.
LEMMA HangUpStep ==
    ASSUME Core, ListsUsers, NEW s \in Socket, mapid[s] # NoMap,
           \E m \in Map : LeaveCall(s, m)
    PROVE  mapid[s] \in Map /\ userid[s] \in User
           /\ Listing!StopTalking(userid[s], mapid[s])
  <1> DEFINE m == mapid[s]
             u == userid[s]
  <1>1. s \in connected /\ junto \in Store /\ junto' = ReduceLeaveCall(junto, m, u)
    BY DEF LeaveCall, Core, TypeOK
  <1>2. m \in Map /\ u \in User /\ u \in PeopleOn(junto, m)
    BY <1>1, LeaverIsListed DEF Core
  <1>3. m \in MapKey /\ u \in UserKey
    BY <1>2 DEF MapKey, UserKey
  <1> HIDE DEF m, u
  <1>4. /\ LiveMapOf(junto', m) = IF callWillFinish(junto, m)
                                  THEN EverybodyHangsUp(LiveMapOf(junto, m))
                                  ELSE Assign(LiveMapOf(junto, m), u, NOT_IN_CONVERSATION)
        /\ PeopleOn(junto', m) = PeopleOn(junto, m)
        /\ \A k : k # m => LiveMapOf(junto', k) = LiveMapOf(junto, k)
    <2>1. /\ PeopleOn(junto', m) = IF callWillFinish(junto, m) THEN PeopleOn(junto, m)
                                   ELSE PeopleOn(junto, m) \cup {u}
          /\ \A k : k # m => LiveMapOf(junto', k) = LiveMapOf(junto, k)
      BY <1>1, <1>3, LeaveCallIs
    <2>2. LiveMapOf(junto', m) = IF callWillFinish(junto, m)
                                 THEN EverybodyHangsUp(LiveMapOf(junto, m))
                                 ELSE Assign(LiveMapOf(junto, m), u, NOT_IN_CONVERSATION)
      BY <1>1, <1>3, LeaveCallIs
    <2> QED
      BY <1>2, <2>1, <2>2
  <1>5. \/ TalkingOn(junto', m) = TalkingOn(junto, m) \ {u}
        \/ callWillFinish(junto, m) /\ TalkingOn(junto', m) = {}
    BY <1>4, TalkersOf, TalkersAfter
  <1>6. callWillFinish(junto, m) => \E v \in User : PeopleOn(junto, m) = {u, v}
    BY <1>2, CallOfTwo
  <1>7. Listing!StopTalking(u, m)
    <2>1. /\ On' = [On EXCEPT ![m] = PeopleOn(junto, m)]
          /\ Talking' = [Talking EXCEPT ![m] = TalkingOn(junto', m)]
      BY <1>2, <1>4, OneMap
    <2>2. On[m] = PeopleOn(junto, m) /\ Talking[m] = TalkingOn(junto, m)
      BY <1>2 DEF On, Talking
    <2>3. [On EXCEPT ![m] = PeopleOn(junto, m)] = On
      BY <2>2 DEF On
    <2> QED
      <3>1. On' = On /\ u \in On[m]
        BY <1>2, <2>1, <2>2, <2>3
      <3>2. \/ Talking' = [Talking EXCEPT ![m] = @ \ {u}]
            \/ (\E v \in User : On[m] = {u, v}) /\ Talking' = [Talking EXCEPT ![m] = {}]
        BY <1>5, <1>6, <2>1, <2>2
      <3> QED
        BY <3>1, <3>2, PresenceActions
  <1> QED
    BY <1>2, <1>7 DEF m, u

LEMMA PresenceStep ==
    ASSUME Core, ListsUsers, [Next]_vars
    PROVE  [Listing!Next]_<<On, Talking>>
  <1>1. CASE Restart
    <2>1. junto' = EmptyStore
      BY <1>1 DEF Restart
    <2>2. \A m : PeopleOn(EmptyStore, m) = {} /\ TalkingOn(EmptyStore, m) = {}
      BY DEF EmptyStore, PeopleOn, LiveMapOf, TalkingOn
    <2>3. Listing!Reset
      BY <2>1, <2>2 DEF Listing!Reset
    <2> QED
      BY <2>3 DEF Listing!Next
  <1>2. ASSUME NEW s \in Socket, Connect(s) \/ OtherEvent(s)
        PROVE  On' = On /\ Talking' = Talking
    BY <1>2 DEF Connect, OtherEvent, On, Talking
  <1>3. ASSUME NEW s \in Socket,
               LeaveMap(s) \/ Disconnect(s) \/ \E m \in Map : LeaveCall(s, m)
        PROVE  [Listing!Next]_<<On, Talking>>
    <2>1. CASE mapid[s] = NoMap
      BY <1>3, <2>1, NowhereStep
    <2>2. CASE mapid[s] # NoMap
      BY <1>3, <2>2, DepartureStep, HangUpStep DEF Listing!Next
    <2> QED
      BY <2>1, <2>2
  <1>4. ASSUME NEW s \in Socket, NEW m \in Map, JoinMap(s, m) \/ JoinCall(s, m)
        PROVE  Listing!Next
    <2>1. Owner[s] \in User
      BY OwnerAssumption
    <2> QED
      BY <1>4, <2>1, ArrivalStep DEF Listing!Next
  <1>5. CASE UNCHANGED vars
    BY <1>5 DEF vars, serverVars, On, Talking
  <1> QED
    BY <1>1, <1>2, <1>3, <1>4, <1>5, NextCases DEF Core

\* With one connection per user, the store implements Presence: what the lists say
\* changes by one user arriving, leaving, taking up or hanging up at a time, and a
\* call ends for somebody else only when two people are on the map.
THEOREM StoreImplementsPresence ==
    ASSUME OneTab
    PROVE  Spec => StoreKeepsPresence
  <1>1. Init => Listing!Init /\ ListsUsers
    <2> SUFFICES ASSUME Init PROVE Listing!Init /\ ListsUsers
      OBVIOUS
    <2>1. \A m : PeopleOn(junto, m) = {}
      BY NothingListedInit
    <2>2. \A m : TalkingOn(junto, m) = {}
      BY <2>1 DEF TalkingOn
    <2> QED
      BY <2>1, <2>2 DEF Listing!Init, ListsUsers
  <1>2. Core /\ ListsUsers /\ [Next]_vars => ListsUsers'
    BY ListsUsersStep
  <1>3. Spec => [](Core /\ ListsUsers)
    BY <1>1, <1>2, CoreInvariant, PTL DEF Spec
  <1>4. Core /\ ListsUsers /\ [Next]_vars => [Listing!Next]_<<On, Talking>>
    BY PresenceStep
  <1>5. Spec => [][Listing!Next]_<<On, Talking>>
    BY <1>3, <1>4, PTL DEF Spec
  <1> QED
    BY <1>1, <1>5, PTL DEF StoreKeepsPresence, Listing!Spec, Spec, On, Talking

-----------------------------------------------------------------------------
\* Nobody is invented, however many tabs a user has.

\* A user on a list, or in the directory, has a socket there.
IsOn(u, m) == \E s \in connected : mapid[s] = m /\ userid[s] = u
IsSomewhere(u) == \E s \in connected : mapid[s] # NoMap /\ userid[s] = u

LEMMA PhantomsDeparture ==
    ASSUME TypeOK, RoomsFollowSockets, NoPhantoms, strays = {},
           NEW s \in Socket, LeaveMap(s) \/ Disconnect(s)
    PROVE  /\ \A m \in Map : \A u \in PeopleOn(junto', m) : IsOn(u, m)'
           /\ \A u \in junto'.connectedPeople : IsSomewhere(u)'
  <1> DEFINE h == mapid[s]
             v == userid[s]
  <1>1. /\ s \in connected /\ junto \in Store /\ h \in MapKey /\ v \in UserKey
        /\ mapid' = [mapid EXCEPT ![s] = NoMap]
        /\ connected' = connected \/ connected' = connected \ {s}
        /\ \A t \in connected : t # s => t \in connected' /\ userid'[t] = userid[t]
                                                         /\ mapid'[t] = mapid[t]
    BY DEF LeaveMap, Disconnect, TypeOK
  <1>2. \/ junto' = ReduceLeaveMap(junto, h, v)
        \/ junto' = ReduceDisconnect(junto, h, v)
    BY DEF LeaveMap, Disconnect
  <1>3. junto'.connectedPeople = IF v # NoUser /\ (\E k \in Map : v \in PeopleOn(junto', k))
                                 THEN junto.connectedPeople
                                 ELSE junto.connectedPeople \ {v}
    <2> HIDE DEF h, v
    <2>1. CASE junto' = ReduceLeaveMap(junto, h, v)
      BY <1>1, <2>1, LeaveMapIs
    <2>2. CASE junto' = ReduceDisconnect(junto, h, v)
      BY <1>1, <2>2, DisconnectIs
    <2> QED
      BY <1>2, <2>1, <2>2
  <1>4. /\ \A k \in Map : k # h => PeopleOn(junto', k) = PeopleOn(junto, k)
        /\ h \in Map => PeopleOn(junto', h) \subseteq PeopleOn(junto, h) \ {v}
    <2> HIDE DEF h, v
    <2>1. /\ \A k \in Map : k # h => LiveMapOf(junto', k) = LiveMapOf(junto, k)
          /\ h \in Map => IF mapWillEmpty(junto, h) THEN PeopleOn(junto', h) = {}
                          ELSE PeopleOn(junto', h) = PeopleOn(junto, h) \ {v}
      BY <1>1, <1>2, DepartureIs
    <2> QED
      BY <2>1 DEF PeopleOn
  <1>5. ASSUME NEW m \in Map, NEW u \in PeopleOn(junto', m) PROVE IsOn(u, m)'
    <2>1. u \in PeopleOn(junto, m) /\ ~ (m = h /\ u = v)
      BY <1>4
    <2>2. PICK t \in connected : mapid[t] = m /\ userid[t] = u
      BY <2>1 DEF NoPhantoms
    <2>3. t # s
      BY <2>1, <2>2
    <2> QED
      BY <1>1, <2>2, <2>3 DEF IsOn
  <1>6. ASSUME NEW u \in junto'.connectedPeople PROVE IsSomewhere(u)'
    <2>1. CASE u = v
      <3>1. PICK k \in Map : u \in PeopleOn(junto', k)
        BY <1>3, <2>1
      <3> QED
        BY <1>5, <3>1, NoMapAssumption DEF IsOn, IsSomewhere
    <2>2. CASE u # v
      <3>1. u \in junto.connectedPeople
        BY <1>3
      <3>2. PICK t \in connected : mapid[t] # NoMap /\ userid[t] = u
        BY <3>1 DEF NoPhantoms
      <3> QED
        BY <1>1, <2>2, <3>2 DEF IsSomewhere
    <2> QED
      BY <2>1, <2>2
  <1> QED
    BY <1>5, <1>6

LEMMA PhantomsStep ==
    ASSUME TypeOK, RoomsFollowSockets, NoPhantoms, [Next]_vars
    PROVE  NoPhantoms'
  <1> DEFINE Goal == /\ \A m \in Map : \A u \in PeopleOn(junto', m) : IsOn(u, m)'
                     /\ \A u \in junto'.connectedPeople : IsSomewhere(u)'
  <1> SUFFICES ASSUME strays' = {} PROVE Goal
    BY DEF NoPhantoms, IsOn, IsSomewhere
  <1>1. CASE Restart
    BY <1>1 DEF Restart, EmptyStore, PeopleOn, LiveMapOf
  <1>2. ASSUME NEW s \in Socket, Connect(s) \/ OtherEvent(s) PROVE Goal
    BY <1>2 DEF Connect, OtherEvent, NoPhantoms, IsOn, IsSomewhere
  <1>3. ASSUME NEW s \in Socket, LeaveMap(s) \/ Disconnect(s) PROVE Goal
    BY <1>3, PhantomsDeparture DEF LeaveMap, Disconnect
  <1>4. ASSUME NEW s \in Socket, NEW m \in Map, JoinMap(s, m) PROVE Goal
    <2>1. /\ strays = {} /\ s \in connected /\ connected' = connected
          /\ mapid[s] \in {NoMap, m} /\ mapid' = [mapid EXCEPT ![s] = m]
          /\ userid' = [userid EXCEPT ![s] = Owner[s]]
      BY <1>4 DEF JoinMap
    <2>2. mapid[s] = m => userid[s] = Owner[s]
      BY <2>1, NoMapAssumption DEF RoomsFollowSockets
    <2>3. /\ mapid'[s] = m /\ userid'[s] = Owner[s]
          /\ \A t \in connected : t # s => mapid'[t] = mapid[t] /\ userid'[t] = userid[t]
      BY <2>1 DEF TypeOK
    <2>4. \A u, k : k \in Map /\ IsOn(u, k) => IsOn(u, k)'
      BY <2>1, <2>2, <2>3, NoMapAssumption DEF IsOn
    <2>5. \A u : IsSomewhere(u) => IsSomewhere(u)'
      BY <2>1, <2>2, <2>3, NoMapAssumption DEF IsSomewhere
    <2>6. IsOn(Owner[s], m)' /\ IsSomewhere(Owner[s])'
      BY <2>1, <2>3, NoMapAssumption DEF IsOn, IsSomewhere
    <2>7. /\ \A k \in Map : \A u \in PeopleOn(junto, k) : IsOn(u, k)
          /\ \A u \in junto.connectedPeople : IsSomewhere(u)
      BY <2>1 DEF NoPhantoms, IsOn, IsSomewhere
    <2> HIDE DEF IsOn, IsSomewhere
    <2> QED
      BY <1>4, <2>4, <2>5, <2>6, <2>7, JoinerOnly
  <1>5. ASSUME NEW s \in Socket, NEW m \in Map, JoinCall(s, m) PROVE Goal
    <2>1. /\ strays = {} /\ s \in connected /\ mapid[s] = m
          /\ UNCHANGED <<connected, mapid, userid>>
      BY <1>5 DEF JoinCall
    <2>2. userid[s] = Owner[s]
      BY <2>1, NoMapAssumption DEF RoomsFollowSockets
    <2> QED
      BY <1>5, <2>1, <2>2, JoinerOnly DEF NoPhantoms, IsOn, IsSomewhere
  <1>6. ASSUME NEW s \in Socket, NEW m \in Map, LeaveCall(s, m) PROVE Goal
    <2> DEFINE h == mapid[s]
               v == userid[s]
    <2>1. /\ strays = {} /\ s \in connected /\ junto \in Store
          /\ UNCHANGED <<connected, mapid, userid>>
          /\ junto' = ReduceLeaveCall(junto, h, v)
          /\ h \in MapKey /\ v \in UserKey
      BY <1>6 DEF LeaveCall, TypeOK
    <2>2. /\ junto'.connectedPeople = junto.connectedPeople
          /\ \A k \in Map : k # h => PeopleOn(junto', k) = PeopleOn(junto, k)
          /\ PeopleOn(junto', h) \subseteq PeopleOn(junto, h) \cup {v}
      <3> HIDE DEF h, v
      <3>1. /\ PeopleOn(junto', h) = IF callWillFinish(junto, h) THEN PeopleOn(junto, h)
                                     ELSE PeopleOn(junto, h) \cup {v}
            /\ \A k : k # h => LiveMapOf(junto', k) = LiveMapOf(junto, k)
            /\ junto'.connectedPeople = junto.connectedPeople
        BY <2>1, LeaveCallIs
      <3> QED
        BY <3>1 DEF PeopleOn
    <2> QED
      BY <2>1, <2>2 DEF NoPhantoms, IsOn, IsSomewhere
  <1>7. CASE UNCHANGED vars
    BY <1>7 DEF vars, serverVars, NoPhantoms, IsOn, IsSomewhere
  <1> QED
    BY <1>1, <1>2, <1>3, <1>4, <1>5, <1>6, <1>7, NextCases

\* Whatever the number of tabs, whoever a map lists has a socket on that map, and
\* whoever is in the directory has one on some map, when pages leave a map before
\* they join the next.
THEOREM NobodyIsInvented == Spec => []NoPhantoms
  <1>1. Init => TypeOK /\ RoomsFollowSockets /\ NoPhantoms
    <2>1. Init => NoPhantoms
      BY NothingListedInit DEF Init, EmptyStore, NoPhantoms
    <2> QED
      BY <2>1, InitType, RoomsInit
  <1>2. TypeOK /\ RoomsFollowSockets /\ NoPhantoms /\ [Next]_vars
          => TypeOK' /\ RoomsFollowSockets' /\ NoPhantoms'
    BY TypeStep, RoomsStep, PhantomsStep
  <1> QED
    BY <1>1, <1>2, PTL DEF Spec

-----------------------------------------------------------------------------
\* Feeds.

\* The second of three messages.
LEMMA SecondOfThree ==
    ASSUME NEW x, NEW y, NEW z
    PROVE  \E i \in DOMAIN (<<x>> \o <<y>> \o <<z>>) : (<<x>> \o <<y>> \o <<z>>)[i] = y
  <1> DEFINE S == {x, y, z}
             ahead == <<x>> \o <<y>>
             all == ahead \o <<z>>
  <1>1. <<x>> \in Seq(S) /\ <<y>> \in Seq(S) /\ <<z>> \in Seq(S)
    OBVIOUS
  <1>2. ahead \in Seq(S) /\ Len(ahead) = 2 /\ ahead[2] = y
    <2>1. Len(<<x>>) = 1 /\ Len(<<y>>) = 1 /\ <<y>>[1] = y
      OBVIOUS
    <2> HIDE DEF S
    <2> QED
      BY <1>1, <2>1
  <1> HIDE DEF ahead, S
  <1>3. all \in Seq(S) /\ Len(all) = Len(ahead) + Len(<<z>>) /\ Len(<<z>>) = 1
    <2>1. Len(<<z>>) = 1
      OBVIOUS
    <2>2. ahead \in Seq(S) /\ <<z>> \in Seq(S)
      BY <1>1, <1>2
    <2>3. all \in Seq(S)
      BY <2>2, SMTT(30)
    <2>4. Len(all) = Len(ahead) + Len(<<z>>)
      BY <2>2, SMTT(30)
    <2> QED
      BY <2>1, <2>3, <2>4
  <1>4. all[2] = y /\ 2 \in DOMAIN all
    <2>1. Len(all) = 3
      BY <1>2, <1>3
    <2> QED
      BY <1>1, <1>2, <1>3, <2>1
  <1> QED
    BY <1>4 DEF ahead

\* A broadcast to the room a socket leaves reaches whoever stays there.
LEMMA FeedIsRemoved ==
    ASSUME TypeOK, NEW s \in connected, videoRoom[s] # NoMap, videoRoom'[s] # videoRoom[s],
           JoinVideoRoom(s, videoRoom'[s]) \/ LeaveVideoRoom(s) \/ Disconnect(s)
    PROVE  \E i \in DOMAIN emitted' :
              /\ emitted'[i].type = "remove"
              /\ emitted'[i].about = s
              /\ {t \in connected' : videoRoom'[t] = videoRoom[s]} \subseteq emitted'[i].to
  <1> DEFINE stay == {t \in connected' : videoRoom'[t] = videoRoom[s]}
             toAll == Emit(VideoRoom(videoRoom[s]), "remove", s)
             toOthers == Emit(VideoRoom(videoRoom[s]) \ {s}, "remove", s)
  <1>1. stay \subseteq VideoRoom(videoRoom[s]) \ {s}
    <2>1. /\ connected' \subseteq connected
          /\ \A t \in connected : t # s => videoRoom'[t] = videoRoom[t]
      BY DEF JoinVideoRoom, LeaveVideoRoom, Disconnect, TypeOK
    <2> QED
      BY <2>1 DEF VideoRoom
  <1>2. /\ toAll.type = "remove" /\ toAll.about = s /\ stay \subseteq toAll.to
        /\ toOthers.type = "remove" /\ toOthers.about = s /\ stay \subseteq toOthers.to
    BY <1>1 DEF Emit
  <1>3. (\E i \in DOMAIN emitted' : emitted'[i] = toAll)
        \/ (\E i \in DOMAIN emitted' : emitted'[i] = toOthers)
    <2>1. CASE Disconnect(s)
      <3> DEFINE updated == JuntoUpdated(connected')
                 lost == LostMapper(s, userid[s], mapid[s])
      <3>1. emitted' = <<updated>> \o <<toOthers>> \o <<lost>>
        BY <2>1 DEF Disconnect
      <3> HIDE DEF updated, toAll, toOthers, lost
      <3>2. \E i \in DOMAIN (<<updated>> \o <<toOthers>> \o <<lost>>) :
               (<<updated>> \o <<toOthers>> \o <<lost>>)[i] = toOthers
        BY SecondOfThree
      <3> QED
        BY <3>1, <3>2
    <2>2. CASE ~ Disconnect(s)
      <3>1. emitted' = <<toAll>>
        BY <2>2 DEF JoinVideoRoom, LeaveVideoRoom, RemoveFeed
      <3> HIDE DEF toAll
      <3> QED
        BY <3>1
    <2> QED
      BY <2>1, <2>2
  <1> HIDE DEF stay, toAll, toOthers
  <1>4. \E i \in DOMAIN emitted' :
           /\ emitted'[i].type = "remove"
           /\ emitted'[i].about = s
           /\ stay \subseteq emitted'[i].to
    BY <1>2, <1>3
  <1> QED
    BY <1>4 DEF stay

\* A feed leaves a room only in a step that tells everyone still there, whatever
\* the number of tabs.
THEOREM FeedsAreRemoved == Spec => VideoPeersAreTold
  <1> DEFINE Told ==
               \A s \in connected :
                  videoRoom[s] # NoMap /\ videoRoom'[s] # videoRoom[s] =>
                      \/ connected' = {}
                      \/ \E i \in DOMAIN emitted' :
                            /\ emitted'[i].type = "remove"
                            /\ emitted'[i].about = s
                            /\ {t \in connected' : videoRoom'[t] = videoRoom[s]}
                                  \subseteq emitted'[i].to
  <1>1. TypeOK /\ [Next]_vars => [Told]_vars
    <2> SUFFICES ASSUME TypeOK, Next, connected' # {}, NEW s \in connected,
                        videoRoom[s] # NoMap, videoRoom'[s] # videoRoom[s]
                 PROVE  \E i \in DOMAIN emitted' :
                           /\ emitted'[i].type = "remove"
                           /\ emitted'[i].about = s
                           /\ {t \in connected' : videoRoom'[t] = videoRoom[s]}
                                 \subseteq emitted'[i].to
      OBVIOUS
    <2>1. ~ Restart
      BY DEF Restart
    <2>2. PICK t \in Socket : SocketEvent(t)
      BY <2>1 DEF Next
    <2>3. JoinVideoRoom(s, videoRoom'[s]) \/ LeaveVideoRoom(s) \/ Disconnect(s)
      <3>1. CASE \E m : JoinVideoRoom(t, m)
        BY <3>1 DEF JoinVideoRoom, TypeOK
      <3>2. CASE LeaveVideoRoom(t)
        BY <3>2 DEF LeaveVideoRoom, TypeOK
      <3>3. CASE Disconnect(t)
        BY <3>3 DEF Disconnect, TypeOK
      <3>4. ~ Connect(t) /\ ~ LeaveMap(t)
        BY DEF Connect, LeaveMap
      <3>5. ASSUME NEW m, MapEvent(t, m) PROVE JoinVideoRoom(t, m)
        BY <3>5 DEF MapEvent, JoinMap, JoinCall, LeaveCall, CheckForCall, Relay, serverVars
      <3>6. ASSUME NEW m, RelayEvent(t, m) PROVE FALSE
        BY <3>6 DEF RelayEvent, SendCoords, DragTopic, SendMapperInfo, InviteACall,
                    InviteToJoin, AcceptCall, DenyCall, DenyInvite, Relay, serverVars
      <3> QED
        BY <2>2, <3>1, <3>2, <3>3, <3>4, <3>5, <3>6 DEF SocketEvent
    <2> QED
      BY <2>3, FeedIsRemoved
  <1>2. Spec => [][Told]_vars
    BY <1>1, TypeCorrect, PTL DEF Spec
  <1> QED
    BY <1>2, PTL DEF VideoPeersAreTold

=============================================================================
