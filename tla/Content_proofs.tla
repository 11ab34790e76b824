--------------------------- MODULE Content_proofs ---------------------------
(***************************************************************************)
(* Theorems about the policies and the permissions of topics, for any      *)
(* sets of users, maps, topics and synapses and any number of requests.    *)
(*                                                                         *)
(* PermissionIsCopied is strengthened by what the transactions under way   *)
(* have read: a topic about to be inserted carries the permission of its   *)
(* map unless that has changed since, and a change about to be committed   *)
(* will reach every topic that defers to the map.                          *)
(***************************************************************************)
EXTENDS Content, TLAPS

USE DEF Kinds

-----------------------------------------------------------------------------
\* Records.

LEMMA RecordsExist ==
    \A r \in Map \cup Topic \cup Synapse \cup Draft \cup Change : Exists(r)
  BY ContentAssumption DEF Exists

LEMMA WhatExists ==
    ASSUME TypeOK
    PROVE  /\ \A m \in Maps : Exists(maps[m]) => maps[m] \in Map
           /\ \A t \in Topics : Exists(topics[t]) => topics[t] \in Topic
           /\ \A s \in Synapses : Exists(synapses[s]) => synapses[s] \in Synapse
           /\ \A t \in Topics : creating[t] # None => creating[t] \in Draft
           /\ \A m \in Maps : changing[m] # None => changing[m] \in Change
  BY DEF TypeOK, Exists

LEMMA NoneIsNoMap == None \notin Maps /\ None \notin Users
  BY ContentAssumption

-----------------------------------------------------------------------------
\* Types.

LEMMA InitType == Init => TypeOK
  BY ContentAssumption DEF Init, TypeOK

LEMMA AskType ==
    ASSUME TypeOK, NEW kind \in Kinds, Ask(kind)
    PROVE  left' \in [Kinds -> Nat]
  BY DEF TypeOK, Ask

LEMMA CreateMapType ==
    ASSUME TypeOK, NEW u \in Users, NEW m \in Maps, NEW p \in Perms,
           NEW X \in SUBSET Items, NEW Y \in SUBSET X, CreateMap(u, m, p, X, Y)
    PROVE  TypeOK'
  <1>1. [owner |-> u, perm |-> p, colls |-> {}] \in Map
    BY DEF Map
  <1>2. left' \in [Kinds -> Nat]
    BY AskType DEF CreateMap
  <1> QED
    BY <1>1, <1>2 DEF CreateMap, TypeOK

LEMMA ChangePermissionType ==
    ASSUME TypeOK, NEW u \in Users, NEW m \in Maps, NEW p \in Perms,
           ChangePermission(u, m, p)
    PROVE  TypeOK'
  <1>1. [perm |-> p, hits |-> Hits(m, p)] \in Change
    BY DEF Change, Hits
  <1>2. left' \in [Kinds -> Nat]
    BY AskType DEF ChangePermission
  <1> QED
    BY <1>1, <1>2 DEF ChangePermission, TypeOK

LEMMA CommitPermissionType ==
    ASSUME TypeOK, NEW m \in Maps, CommitPermission(m), Exists(maps[m])
    PROVE  TypeOK'
  <1> DEFINE p == changing[m].perm
             hits == HitsNow(m)
  <1>1. changing[m] \in Change /\ p \in Perms /\ hits \subseteq Topics
    BY WhatExists DEF CommitPermission, Change, HitsNow
  <1>2. \A t \in hits : topics[t] \in Topic
    BY <1>1, WhatExists DEF HitsNow
  <1>3. maps' \in [Maps -> Map \cup {None, Gone}]
    <2>1. [maps[m] EXCEPT !.perm = p] \in Map
      BY <1>1, WhatExists DEF Map
    <2> QED
      BY <2>1 DEF CommitPermission, TypeOK
  <1>4. topics' \in [Topics -> Topic \cup {None, Gone}]
    <2>1. \A t \in hits : [topics[t] EXCEPT !.perm = p] \in Topic
      BY <1>1, <1>2 DEF Topic
    <2> QED
      BY <2>1 DEF CommitPermission, TypeOK
  <1>5. seen' \in [Topics -> SUBSET Version]
    <2>1. \A t \in hits : [VersionOf(t) EXCEPT !.perm = p] \in Version
      BY <1>1, <1>2 DEF Topic, Version, VersionOf
    <2> QED
      BY <2>1 DEF CommitPermission, TypeOK
  <1>6. creating' \in [Topics -> Draft \cup {None}]
    <2>1. \A t \in Topics : creating[t] # None
              => [creating[t] EXCEPT !.raced = TRUE] \in Draft
      BY WhatExists DEF Draft
    <2> QED
      BY <2>1 DEF CommitPermission, TypeOK
  <1>7. changing' \in [Maps -> Change \cup {None}] /\ strayed' \subseteq Topics
    BY <1>1 DEF CommitPermission, TypeOK
  <1> QED
    BY <1>3, <1>4, <1>5, <1>6, <1>7 DEF CommitPermission, TypeOK

LEMMA SetCollaboratorsType ==
    ASSUME TypeOK, NEW u \in Users, NEW m \in Maps, NEW C \in SUBSET Users,
           SetCollaborators(u, m, C)
    PROVE  TypeOK'
  <1>1. [maps[m] EXCEPT !.colls = C] \in Map
    BY WhatExists DEF SetCollaborators, Map
  <1>2. left' \in [Kinds -> Nat]
    BY AskType DEF SetCollaborators
  <1> QED
    BY <1>1, <1>2 DEF SetCollaborators, TypeOK

LEMMA LeavesDefers ==
    ASSUME TypeOK, NEW X, NEW t \in Topics, Leaves(X, t)
    PROVE  /\ topics[t] \in Topic
           /\ topics[t].defer \in Maps
           /\ maps[topics[t].defer] \in Map
           /\ Released(t) \in Topic
           /\ Released(t).owner = topics[t].owner
           /\ Released(t).perm = maps[topics[t].defer].perm
           /\ Released(t).defer = None
  <1>1. topics[t] \in Topic
    BY WhatExists DEF Leaves
  <1>2. topics[t].defer \in Maps
    BY <1>1 DEF Leaves, HasMap, Topic
  <1>3. maps[topics[t].defer] \in Map
    BY <1>2, WhatExists DEF Leaves, HasMap
  <1> QED
    BY <1>1, <1>2, <1>3 DEF Released, Topic, Map

LEMMA ReleaseType ==
    ASSUME TypeOK, NEW X, Release(X)
    PROVE  /\ topics' \in [Topics -> Topic \cup {None, Gone}]
           /\ seen' \in [Topics -> SUBSET Version]
           /\ strayed' \subseteq Topics
  <1>1. \A t \in Topics : Leaves(X, t) => Released(t) \in Topic
    BY LeavesDefers
  <1>2. \A t \in Topics : Leaves(X, t)
            => [perm |-> Released(t).perm, defer |-> None] \in Version
    BY <1>1 DEF Topic, Version
  <1>3. topics' \in [Topics -> Topic \cup {None, Gone}]
    BY <1>1 DEF Release, TypeOK
  <1>4. seen' \in [Topics -> SUBSET Version]
    BY <1>2 DEF Release, TypeOK
  <1>5. strayed' \subseteq Topics
    BY DEF Release, TypeOK
  <1> QED
    BY <1>3, <1>4, <1>5

LEMMA DestroyMapType ==
    ASSUME TypeOK, NEW u \in Users, NEW m \in Maps, DestroyMap(u, m)
    PROVE  TypeOK'
  <1> DEFINE X == {t \in Topics : \E e \in On(m) : e[2] = t}
  <1>1. Release(X)
    BY DEF DestroyMap
  <1>2. left' \in [Kinds -> Nat]
    BY AskType DEF DestroyMap
  <1> HIDE DEF X
  <1> QED
    BY <1>1, <1>2, ReleaseType DEF DestroyMap, TypeOK

LEMMA CreateTopicType ==
    ASSUME TypeOK, NEW u \in Users, NEW t \in Topics, NEW m \in Maps \cup {None},
           NEW p \in Perms, CreateTopic(u, t, m, p)
    PROVE  TypeOK'
  <1> DEFINE q == IF m # None /\ Exists(maps[m]) THEN maps[m].perm ELSE p
  <1>1. q \in Perms
    BY WhatExists DEF Map
  <1>2. [owner |-> u, defer |-> m, raced |-> FALSE, perm |-> q] \in Draft
    BY <1>1 DEF Draft
  <1>3. left' \in [Kinds -> Nat]
    BY AskType DEF CreateTopic
  <1> QED
    BY <1>2, <1>3 DEF CreateTopic, TypeOK

LEMMA CommitTopicType ==
    ASSUME TypeOK, NEW t \in Topics, CommitTopic(t)
    PROVE  TypeOK'
  <1> DEFINE d == creating[t]
  <1>1. d \in Draft
    BY WhatExists DEF CommitTopic
  <1>2. [owner |-> d.owner, perm |-> d.perm, defer |-> d.defer] \in Topic
    BY <1>1 DEF Draft, Topic
  <1>3. [perm |-> d.perm, defer |-> d.defer] \in Version
    BY <1>1 DEF Draft, Version
  <1>4. topics' \in [Topics -> Topic \cup {None, Gone}]
    BY <1>2 DEF CommitTopic, TypeOK
  <1>5. seen' \in [Topics -> SUBSET Version]
    BY <1>3 DEF CommitTopic, TypeOK
  <1> QED
    BY <1>4, <1>5 DEF CommitTopic, TypeOK

LEMMA SaveTopicType ==
    ASSUME TypeOK, NEW u \in Users, NEW t \in Topics, NEW v \in seen[t],
           NEW w \in Saves(u, t, v), SaveTopic(u, t, v, w)
    PROVE  TypeOK'
  <1>1. v \in Version /\ topics[t] \in Topic
    BY WhatExists DEF TypeOK, SaveTopic
  <1>2. w \in Version
    BY <1>1 DEF Saves, Version
  <1>3. [owner |-> topics[t].owner, perm |-> w.perm, defer |-> w.defer] \in Topic
    BY <1>1, <1>2 DEF Topic, Version
  <1>4. left' \in [Kinds -> Nat]
    BY AskType DEF SaveTopic
  <1>5. topics' \in [Topics -> Topic \cup {None, Gone}]
    BY <1>3 DEF SaveTopic, TypeOK
  <1>6. seen' \in [Topics -> SUBSET Version]
    BY <1>2 DEF SaveTopic, TypeOK
  <1> QED
    BY <1>4, <1>5, <1>6 DEF SaveTopic, TypeOK

LEMMA DestroyTopicType ==
    ASSUME TypeOK, NEW u \in Users, NEW t \in Topics, DestroyTopic(u, t)
    PROVE  TypeOK'
  <1>1. left' \in [Kinds -> Nat]
    BY AskType DEF DestroyTopic
  <1> QED
    BY <1>1 DEF DestroyTopic, TypeOK

LEMMA SynapseTypes ==
    ASSUME TypeOK, NEW u \in Users, NEW s \in Synapses, NEW p \in Perms,
           CreateSynapse(u, s, p) \/ DestroySynapse(u, s)
    PROVE  TypeOK'
  <1>1. [owner |-> u, perm |-> p] \in Synapse
    BY DEF Synapse
  <1>2. left' \in [Kinds -> Nat]
    BY AskType DEF CreateSynapse, DestroySynapse
  <1>3. CASE CreateSynapse(u, s, p)
    BY <1>1, <1>2, <1>3 DEF CreateSynapse, TypeOK
  <1>4. CASE DestroySynapse(u, s)
    BY <1>2, <1>4 DEF DestroySynapse, TypeOK
  <1> QED
    BY <1>3, <1>4

LEMMA CreateMappingType ==
    ASSUME TypeOK, NEW u \in Users, NEW m \in Maps, NEW x \in Items,
           CreateMapping(u, m, x)
    PROVE  TypeOK'
  <1>1. left' \in [Kinds -> Nat]
    BY AskType DEF CreateMapping
  <1> QED
    BY <1>1 DEF CreateMapping, TypeOK

LEMMA CommitMappingType ==
    ASSUME TypeOK, NEW e \in placing, CommitMapping(e)
    PROVE  TypeOK'
  BY DEF CommitMapping, TypeOK

LEMMA DestroyMappingType ==
    ASSUME TypeOK, NEW u \in Users, NEW e \in mappings, DestroyMapping(u, e)
    PROVE  TypeOK'
  <1>1. Release({e[2]} \cap Topics)
    BY DEF DestroyMapping
  <1>2. left' \in [Kinds -> Nat]
    BY AskType DEF DestroyMapping
  <1> QED
    BY <1>1, <1>2, ReleaseType DEF DestroyMapping, TypeOK

-----------------------------------------------------------------------------
\* Permissions are copied: the strengthening.

\* Whatever a topic, a draft or a page refers to is or was a map.
MapsWereMade ==
    /\ \A t \in Topics : (Exists(topics[t]) /\ topics[t].defer # None)
                           => maps[topics[t].defer] # None
    /\ \A t \in Topics : (creating[t] # None /\ creating[t].defer # None)
                           => maps[creating[t].defer] # None
    /\ \A t \in Topics : \A v \in seen[t] : v.defer # None => maps[v.defer] # None

\* A map cannot be destroyed while its permission is changing.
ChangesStand == \A m \in Maps : changing[m] # None => Exists(maps[m])

\* What a transaction has read of the map is still so, unless it raced.
DraftsAreFresh ==
    \A t \in Topics :
        (/\ creating[t] # None /\ ~creating[t].raced /\ creating[t].defer # None
         /\ Exists(maps[creating[t].defer]))
            => creating[t].perm = maps[creating[t].defer].perm

\* A change under way will reach all that defer to the map.
ChangesReachAll ==
    \A m \in Maps : changing[m] # None =>
        \A t \in Topics :
            (Exists(topics[t]) /\ topics[t].defer = m /\ t \notin strayed)
                => t \in changing[m].hits \/ topics[t].perm = changing[m].perm

IInv == MapsWereMade /\ ChangesStand /\ DraftsAreFresh /\ ChangesReachAll
        /\ PermissionIsCopied

LEMMA InitIInv == Init => IInv
  BY DEF Init, IInv, MapsWereMade, ChangesStand, DraftsAreFresh, ChangesReachAll,
         PermissionIsCopied, Exists

\* Steps that change neither maps nor topics.
LEMMA SameRecordsIInv ==
    ASSUME IInv, UNCHANGED <<maps, topics, creating, changing, seen, strayed>>
    PROVE  IInv'
  BY DEF IInv, MapsWereMade, ChangesStand, DraftsAreFresh, ChangesReachAll,
         PermissionIsCopied, HasMap

\* Steps after which no more maps exist than before, with the permissions
\* they had, and no fewer have been made.
LEMMA SamePermsIInv ==
    ASSUME IInv, UNCHANGED <<topics, creating, changing, seen, strayed>>,
           \A m \in Maps : /\ maps[m] # None => maps'[m] # None
                           /\ maps[m] # None /\ Exists(maps'[m])
                                => Exists(maps[m]) /\ maps'[m].perm = maps[m].perm
                           /\ changing[m] # None => Exists(maps'[m]),
           TypeOK
    PROVE  IInv'
  <1>1. \A t \in Topics : Exists(topics[t]) /\ topics[t].defer # None
            => topics[t].defer \in Maps
    BY WhatExists DEF Topic
  <1>2. \A t \in Topics : creating[t] # None /\ creating[t].defer # None
            => creating[t].defer \in Maps
    BY WhatExists DEF Draft
  <1>3. \A t \in Topics : \A v \in seen[t] : v.defer # None => v.defer \in Maps
    BY DEF TypeOK, Version
  <1>4. MapsWereMade'
    BY <1>1, <1>2, <1>3 DEF IInv, MapsWereMade
  <1>5. ChangesStand' /\ ChangesReachAll'
    BY DEF IInv, ChangesStand, ChangesReachAll
  <1>6. DraftsAreFresh'
    BY <1>2 DEF IInv, DraftsAreFresh, MapsWereMade
  <1>7. PermissionIsCopied'
    BY <1>1 DEF IInv, PermissionIsCopied, MapsWereMade, HasMap
  <1> QED
    BY <1>4, <1>5, <1>6, <1>7 DEF IInv

LEMMA CreateMapIInv ==
    ASSUME TypeOK, IInv, NEW u \in Users, NEW m \in Maps, NEW p \in Perms,
           NEW X \in SUBSET Items, NEW Y \in SUBSET X, CreateMap(u, m, p, X, Y)
    PROVE  IInv'
  <1>1. maps[m] = None /\ changing[m] = None
    BY DEF CreateMap, IInv, ChangesStand, Exists
  <1>2. Exists([owner |-> u, perm |-> p, colls |-> {}])
    BY RecordsExist DEF Map
  <1>3. \A x \in Maps : x # m => maps'[x] = maps[x]
    BY DEF CreateMap, TypeOK
  <1>4. maps'[m] # None
    BY <1>2 DEF CreateMap, TypeOK, Exists
  <1> QED
    BY <1>1, <1>3, <1>4, SamePermsIInv DEF CreateMap, IInv, ChangesStand, Exists

LEMMA SetCollaboratorsIInv ==
    ASSUME TypeOK, IInv, NEW u \in Users, NEW m \in Maps, NEW C \in SUBSET Users,
           SetCollaborators(u, m, C)
    PROVE  IInv'
  <1>1. maps[m] \in Map
    BY WhatExists DEF SetCollaborators
  <1>2. [maps[m] EXCEPT !.colls = C] \in Map
    BY <1>1 DEF Map
  <1>3. maps'[m] = [maps[m] EXCEPT !.colls = C] /\ Exists(maps'[m])
    BY <1>2, RecordsExist DEF SetCollaborators, TypeOK
  <1>4. maps'[m].perm = maps[m].perm
    BY <1>1, <1>3 DEF Map
  <1>5. \A x \in Maps : x # m => maps'[x] = maps[x]
    BY DEF SetCollaborators, TypeOK
  <1> QED
    BY <1>3, <1>4, <1>5, SamePermsIInv DEF SetCollaborators, IInv, ChangesStand, Exists

LEMMA ChangePermissionIInv ==
    ASSUME TypeOK, IInv, NEW u \in Users, NEW m \in Maps, NEW p \in Perms,
           ChangePermission(u, m, p)
    PROVE  IInv'
  <1>1. changing'[m] = [perm |-> p, hits |-> Hits(m, p)]
    BY DEF ChangePermission, TypeOK
  <1>2. \A x \in Maps : x # m => changing'[x] = changing[x]
    BY DEF ChangePermission, TypeOK
  <1>3. ChangesStand'
    BY <1>2 DEF ChangePermission, IInv, ChangesStand
  <1>4. ChangesReachAll'
    <2> SUFFICES ASSUME NEW x \in Maps, changing'[x] # None, NEW t \in Topics,
                        Exists(topics[t]), topics[t].defer = x, t \notin strayed
                 PROVE  t \in changing'[x].hits \/ topics[t].perm = changing'[x].perm
      BY DEF ChangePermission, ChangesReachAll
    <2>1. CASE x = m
      BY <1>1, <2>1 DEF Hits
    <2>2. CASE x # m
      BY <1>2, <2>2 DEF IInv, ChangesReachAll
    <2> QED
      BY <2>1, <2>2
  <1> QED
    BY <1>3, <1>4 DEF ChangePermission, IInv, MapsWereMade, DraftsAreFresh,
                      PermissionIsCopied, HasMap

\* Every topic deferring to the map either was hit or has the permission.
LEMMA CommitPermissionIInv ==
    ASSUME TypeOK, IInv, NEW m \in Maps, CommitPermission(m)
    PROVE  IInv'
  <1> DEFINE p == changing[m].perm
             hits == HitsNow(m)
  <1>1. Exists(maps[m]) /\ maps[m] \in Map /\ changing[m] \in Change
    BY WhatExists DEF CommitPermission, IInv, ChangesStand
  <1>2. p \in Perms /\ hits \subseteq Topics
    BY <1>1 DEF Change, HitsNow
  <1>3. [maps[m] EXCEPT !.perm = p] \in Map /\ [maps[m] EXCEPT !.perm = p].perm = p
    BY <1>1, <1>2 DEF Map
  <1>4. /\ maps'[m].perm = p /\ Exists(maps'[m])
        /\ \A x \in Maps : x # m => maps'[x] = maps[x]
    BY <1>3, RecordsExist DEF CommitPermission, TypeOK
  <1>5. \A t \in hits : /\ Exists(topics[t]) /\ topics[t] \in Topic
                        /\ [topics[t] EXCEPT !.perm = p] \in Topic
                        /\ [topics[t] EXCEPT !.perm = p].perm = p
                        /\ [topics[t] EXCEPT !.perm = p].defer = topics[t].defer
    BY <1>2, WhatExists DEF HitsNow, Topic
  <1>6. /\ \A t \in hits : /\ topics'[t].perm = p /\ topics'[t].defer = topics[t].defer
                           /\ Exists(topics'[t])
        /\ \A t \in Topics \ hits : topics'[t] = topics[t]
    BY <1>2, <1>5, RecordsExist DEF CommitPermission, TypeOK
  <1>7. /\ \A t \in Topics \ hits : t \in strayed' <=> t \in strayed
        /\ \A t \in hits : topics[t].defer \notin {m, None} => t \in strayed'
    BY <1>5 DEF CommitPermission
  <1>8. /\ changing'[m] = None
        /\ \A x \in Maps : x # m => changing'[x] = changing[x]
    BY DEF CommitPermission, TypeOK
  <1>9. \A t \in Topics : creating[t] # None =>
            /\ creating[t] \in Draft
            /\ [creating[t] EXCEPT !.raced = TRUE].defer = creating[t].defer
            /\ [creating[t] EXCEPT !.raced = TRUE].raced
            /\ Exists([creating[t] EXCEPT !.raced = TRUE])
    <2>1. \A t \in Topics : creating[t] # None
              => [creating[t] EXCEPT !.raced = TRUE] \in Draft
      BY WhatExists DEF Draft
    <2>2. \A d \in Draft : [d EXCEPT !.raced = TRUE].defer = d.defer
                           /\ [d EXCEPT !.raced = TRUE].raced
      BY DEF Draft
    <2> QED
      BY <2>1, <2>2, WhatExists, RecordsExist
  <1>10. \A t \in Topics :
            /\ creating[t] # None /\ creating[t].defer = m
                 => creating'[t] # None /\ creating'[t].raced /\ creating'[t].defer = m
            /\ ~(creating[t] # None /\ creating[t].defer = m)
                 => creating'[t] = creating[t]
    BY <1>9 DEF CommitPermission, Exists
  <1>11. \A t \in Topics : \A v \in seen'[t] :
            v \in seen[t] \/ (t \in hits /\ v.defer = topics[t].defer)
    <2>1. \A t \in hits : [VersionOf(t) EXCEPT !.perm = p].defer = topics[t].defer
      BY DEF VersionOf
    <2> QED
      BY <2>1 DEF CommitPermission
  <1> HIDE DEF p, hits
  <1>12. \A x \in Maps : maps[x] # None => maps'[x] # None
    BY <1>4 DEF Exists
  <1>13. MapsWereMade'
    <2>1. \A t \in Topics : (Exists(topics'[t]) /\ topics'[t].defer # None)
                               => maps'[topics'[t].defer] # None
      <3>1. \A t \in Topics : Exists(topics[t]) /\ topics[t].defer # None
                => topics[t].defer \in Maps /\ maps[topics[t].defer] # None
        BY WhatExists DEF Topic, IInv, MapsWereMade
      <3> QED
        BY <1>5, <1>6, <1>12, <3>1
    <2>2. \A t \in Topics : (creating'[t] # None /\ creating'[t].defer # None)
                               => maps'[creating'[t].defer] # None
      <3>1. \A t \in Topics : creating[t] # None /\ creating[t].defer # None
                => creating[t].defer \in Maps /\ maps[creating[t].defer] # None
        BY WhatExists DEF Draft, IInv, MapsWereMade
      <3> QED
        BY <1>10, <1>12, <3>1
    <2>3. \A t \in Topics : \A v \in seen'[t] : v.defer # None => maps'[v.defer] # None
      <3>1. \A t \in Topics : \A v \in seen[t] : v.defer # None
                => v.defer \in Maps /\ maps[v.defer] # None
        BY DEF TypeOK, Version, IInv, MapsWereMade
      <3>2. \A t \in hits : topics[t].defer # None
                => topics[t].defer \in Maps /\ maps[topics[t].defer] # None
        BY <1>2, <1>5 DEF Topic, IInv, MapsWereMade
      <3> QED
        BY <1>11, <1>12, <3>1, <3>2
    <2> QED
      BY <2>1, <2>2, <2>3 DEF MapsWereMade
  <1>14. ChangesStand'
    BY <1>4, <1>8 DEF IInv, ChangesStand
  <1>15. DraftsAreFresh'
    <2>1. \A t \in Topics : creating[t] # None /\ creating[t].defer # None
              => creating[t].defer \in Maps
      BY WhatExists DEF Draft
    <2> QED
      BY <1>4, <1>10, <2>1 DEF IInv, DraftsAreFresh
  <1>16. ChangesReachAll'
    <2> SUFFICES ASSUME NEW x \in Maps, changing'[x] # None, NEW t \in Topics,
                        Exists(topics'[t]), topics'[t].defer = x, t \notin strayed'
                 PROVE  t \in changing'[x].hits \/ topics'[t].perm = changing'[x].perm
      BY DEF ChangesReachAll
    <2>1. x # m /\ x # None
      BY <1>8, NoneIsNoMap
    <2>2. t \notin hits
      BY <1>6, <1>7, <2>1
    <2> QED
      BY <1>6, <1>7, <1>8, <2>1, <2>2 DEF IInv, ChangesReachAll
  <1>17. PermissionIsCopied'
    <2> SUFFICES ASSUME NEW t \in Topics, Exists(topics'[t]), topics'[t].defer # None,
                        Exists(maps'[topics'[t].defer]), t \notin strayed'
                 PROVE  topics'[t].perm = maps'[topics'[t].defer].perm
      BY DEF PermissionIsCopied, HasMap
    <2>1. CASE t \in hits
      BY <1>4, <1>6, <1>7, <2>1
    <2>2. CASE t \notin hits
      <3>1. topics'[t] = topics[t] /\ t \notin strayed /\ Exists(topics[t])
            /\ topics[t].defer \in Maps
        BY <1>6, <1>7, <2>2, WhatExists DEF Topic
      <3>2. CASE topics[t].defer = m
        <4>1. t \notin changing[m].hits
          BY <2>2, <3>1 DEF hits, HitsNow
        <4>2. topics[t].perm = p
          BY <3>1, <3>2, <4>1 DEF p, CommitPermission, IInv, ChangesReachAll
        <4> QED
          BY <1>4, <3>1, <3>2, <4>2
      <3>3. CASE topics[t].defer # m
        BY <1>4, <3>1, <3>3 DEF IInv, PermissionIsCopied, HasMap
      <3> QED
        BY <3>2, <3>3
    <2> QED
      BY <2>1, <2>2
  <1> QED
    BY <1>13, <1>14, <1>15, <1>16, <1>17 DEF IInv

\* A topic that is released defers to no map; its map may be going.
LEMMA ReleaseIInv ==
    ASSUME TypeOK, IInv, NEW X, Release(X), UNCHANGED <<creating, changing>>,
           \A x \in Maps : /\ maps[x] # None => maps'[x] # None
                           /\ Exists(maps'[x]) \/ changing[x] # None
                                => maps'[x] = maps[x]
    PROVE  IInv'
  <1>1. \A t \in Topics : Leaves(X, t) => /\ topics'[t].defer = None
                                          /\ topics[t] \in Topic
                                          /\ t \notin strayed'
    BY LeavesDefers DEF Release
  <1>2. \A t \in Topics : ~Leaves(X, t) => /\ topics'[t] = topics[t]
                                           /\ t \in strayed' <=> t \in strayed
    BY DEF Release
  <1>3. \A t \in Topics : \A v \in seen'[t] : v \in seen[t] \/ v.defer = None
    BY DEF Release
  <1>4. \A t \in Topics : Exists(topics[t]) /\ topics[t].defer # None
            => topics[t].defer \in Maps /\ maps[topics[t].defer] # None
    BY WhatExists DEF Topic, IInv, MapsWereMade
  <1>5. \A t \in Topics : creating[t] # None /\ creating[t].defer # None
            => creating[t].defer \in Maps /\ maps[creating[t].defer] # None
    BY WhatExists DEF Draft, IInv, MapsWereMade
  <1>6. \A t \in Topics : \A v \in seen[t] : v.defer # None
            => v.defer \in Maps /\ maps[v.defer] # None
    BY DEF TypeOK, Version, IInv, MapsWereMade
  <1>7. MapsWereMade'
    BY <1>1, <1>2, <1>3, <1>4, <1>5, <1>6 DEF MapsWereMade
  <1>8. ChangesStand'
    BY DEF IInv, ChangesStand
  <1>9. DraftsAreFresh'
    BY <1>5 DEF IInv, DraftsAreFresh
  <1>10. ChangesReachAll'
    BY <1>1, <1>2, NoneIsNoMap DEF IInv, ChangesReachAll
  <1>11. PermissionIsCopied'
    BY <1>1, <1>2, <1>4 DEF IInv, PermissionIsCopied, HasMap
  <1> QED
    BY <1>7, <1>8, <1>9, <1>10, <1>11 DEF IInv

LEMMA DestroyMapIInv ==
    ASSUME TypeOK, IInv, NEW u \in Users, NEW m \in Maps, DestroyMap(u, m)
    PROVE  IInv'
  <1> DEFINE X == {t \in Topics : \E e \in On(m) : e[2] = t}
  <1>1. Release(X)
    BY DEF DestroyMap
  <1>2. maps'[m] = Gone /\ Gone # None /\ ~Exists(Gone) /\ changing[m] = None
    BY ContentAssumption DEF DestroyMap, Exists, TypeOK
  <1>3. \A x \in Maps : x # m => maps'[x] = maps[x]
    BY DEF DestroyMap, TypeOK
  <1> HIDE DEF X
  <1> QED
    BY <1>1, <1>2, <1>3, ReleaseIInv DEF DestroyMap

LEMMA DestroyMappingIInv ==
    ASSUME TypeOK, IInv, NEW u \in Users, NEW e \in mappings, DestroyMapping(u, e)
    PROVE  IInv'
  <1>1. Release({e[2]} \cap Topics)
    BY DEF DestroyMapping
  <1> QED
    BY <1>1, ReleaseIInv DEF DestroyMapping

LEMMA CreateTopicIInv ==
    ASSUME TypeOK, IInv, NEW u \in Users, NEW t \in Topics, NEW m \in Maps \cup {None},
           NEW p \in Perms, CreateTopic(u, t, m, p)
    PROVE  IInv'
  <1> DEFINE q == IF m # None /\ Exists(maps[m]) THEN maps[m].perm ELSE p
             d == [owner |-> u, defer |-> m, raced |-> FALSE, perm |-> q]
  <1>1. creating'[t] = d
    BY DEF CreateTopic, TypeOK
  <1>2. \A x \in Topics : x # t => creating'[x] = creating[x]
    BY DEF CreateTopic, TypeOK
  <1>3. d.defer = m /\ d.perm = q
    OBVIOUS
  <1>4. m # None /\ Exists(maps[m]) => q = maps[m].perm
    OBVIOUS
  <1> HIDE DEF d, q
  <1>5. MapsWereMade'
    BY <1>1, <1>2, <1>3 DEF CreateTopic, IInv, MapsWereMade
  <1>6. DraftsAreFresh'
    BY <1>1, <1>2, <1>3, <1>4 DEF CreateTopic, IInv, DraftsAreFresh
  <1> QED
    BY <1>5, <1>6 DEF CreateTopic, IInv, ChangesStand, ChangesReachAll,
                      PermissionIsCopied, HasMap

\* A topic is written with the permission of the map it defers to, unless
\* it is marked as strayed.
LEMMA TopicWritten ==
    ASSUME TypeOK, IInv, NEW t \in Topics, NEW r \in Topic,
           r.defer # None => maps[r.defer] # None,
           topics' = [topics EXCEPT ![t] = r],
           seen' = [seen EXCEPT ![t] = @ \cup {[perm |-> r.perm, defer |-> r.defer]}],
           \A x \in Topics \ {t} : x \in strayed' <=> x \in strayed,
           t \notin strayed' /\ r.defer # None /\ Exists(maps[r.defer])
               => r.perm = maps[r.defer].perm,
           t \notin strayed' /\ r.defer # None /\ changing[r.defer] # None
               => \/ t \in changing[r.defer].hits
                  \/ r.perm = changing[r.defer].perm,
           UNCHANGED <<maps, changing>>,
           creating' = creating \/ creating' = [creating EXCEPT ![t] = None]
    PROVE  IInv'
  <1>1. topics'[t] = r /\ \A x \in Topics \ {t} : topics'[x] = topics[x]
    BY DEF TypeOK
  <1>2. \A x \in Topics : \A v \in seen'[x] : v \in seen[x] \/ v.defer = r.defer
    BY DEF TypeOK
  <1>3. \A x \in Topics : creating'[x] = creating[x] \/ creating'[x] = None
    BY DEF TypeOK
  <1>4. MapsWereMade'
    BY <1>1, <1>2, <1>3 DEF IInv, MapsWereMade
  <1>5. ChangesStand' /\ DraftsAreFresh'
    BY <1>3 DEF IInv, ChangesStand, DraftsAreFresh
  <1>6. ChangesReachAll'
    BY <1>1, NoneIsNoMap DEF IInv, ChangesReachAll
  <1>7. PermissionIsCopied'
    BY <1>1 DEF IInv, PermissionIsCopied, HasMap
  <1> QED
    BY <1>4, <1>5, <1>6, <1>7 DEF IInv

LEMMA CommitTopicIInv ==
    ASSUME TypeOK, IInv, NEW t \in Topics, CommitTopic(t)
    PROVE  IInv'
  <1> DEFINE d == creating[t]
             r == [owner |-> d.owner, perm |-> d.perm, defer |-> d.defer]
  <1>1. d \in Draft /\ d # None
    BY WhatExists DEF CommitTopic
  <1>2. r \in Topic /\ r.perm = d.perm /\ r.defer = d.defer
    BY <1>1 DEF Draft, Topic
  <1>3. topics' = [topics EXCEPT ![t] = r]
    BY DEF CommitTopic
  <1>4. seen' = [seen EXCEPT ![t] = @ \cup {[perm |-> r.perm, defer |-> r.defer]}]
    BY <1>2 DEF CommitTopic
  <1>5. /\ \A x \in Topics \ {t} : x \in strayed' <=> x \in strayed
        /\ t \notin strayed' => /\ ~d.raced
                                /\ d.defer # None => changing[d.defer] = None
    BY DEF CommitTopic
  <1>6. r.defer # None => maps[r.defer] # None
    BY <1>1, <1>2 DEF IInv, MapsWereMade
  <1>7. t \notin strayed' /\ r.defer # None /\ Exists(maps[r.defer])
            => r.perm = maps[r.defer].perm
    BY <1>1, <1>2, <1>5 DEF IInv, DraftsAreFresh
  <1>8. /\ UNCHANGED <<maps, changing>>
        /\ creating' = [creating EXCEPT ![t] = None]
    BY DEF CommitTopic
  <1> HIDE DEF d, r
  <1> QED
    BY <1>2, <1>3, <1>4, <1>5, <1>6, <1>7, <1>8, TopicWritten

LEMMA SaveTopicIInv ==
    ASSUME TypeOK, IInv, NEW u \in Users, NEW t \in Topics, NEW v \in seen[t],
           NEW w \in Saves(u, t, v), SaveTopic(u, t, v, w)
    PROVE  IInv'
  <1> DEFINE r == [owner |-> topics[t].owner, perm |-> w.perm, defer |-> w.defer]
  <1>1. Exists(topics[t]) /\ topics[t] \in Topic /\ v \in Version
    BY WhatExists DEF TypeOK, SaveTopic
  <1>2. w \in Version /\ w.defer \in {v.defer, None}
    BY <1>1 DEF Saves, Version
  <1>3. r \in Topic /\ r.perm = w.perm /\ r.defer = w.defer
    BY <1>1, <1>2 DEF Version, Topic
  <1>4. topics' = [topics EXCEPT ![t] = r]
    BY DEF SaveTopic
  <1>5. [perm |-> r.perm, defer |-> r.defer] = w
    BY <1>2, <1>3 DEF Version
  <1>6. seen' = [seen EXCEPT ![t] = @ \cup {[perm |-> r.perm, defer |-> r.defer]}]
    BY <1>5 DEF SaveTopic
  <1>7. r.defer # None => maps[r.defer] # None
    BY <1>2, <1>3 DEF IInv, MapsWereMade
  <1>8. /\ \A x \in Topics \ {t} : x \in strayed' <=> x \in strayed
        /\ t \notin strayed' /\ w.defer # None => w = VersionOf(t) /\ t \notin strayed
    BY DEF SaveTopic
  <1>9. t \notin strayed' /\ r.defer # None
            => /\ t \notin strayed
               /\ topics[t].perm = r.perm /\ topics[t].defer = r.defer
    BY <1>3, <1>8 DEF VersionOf
  <1>10. r.defer # None => r.defer \in Maps
    BY <1>3 DEF Topic
  <1> HIDE DEF r
  <1>11. t \notin strayed' /\ r.defer # None /\ Exists(maps[r.defer])
            => r.perm = maps[r.defer].perm
    BY <1>1, <1>9 DEF IInv, PermissionIsCopied, HasMap
  <1>12. t \notin strayed' /\ r.defer # None /\ changing[r.defer] # None
            => \/ t \in changing[r.defer].hits
               \/ r.perm = changing[r.defer].perm
    BY <1>1, <1>9, <1>10 DEF IInv, ChangesReachAll
  <1>13. UNCHANGED <<maps, creating, changing>>
    BY DEF SaveTopic
  <1> QED
    BY <1>3, <1>4, <1>6, <1>7, <1>8, <1>11, <1>12, <1>13, TopicWritten

LEMMA DestroyTopicIInv ==
    ASSUME TypeOK, IInv, NEW u \in Users, NEW t \in Topics, DestroyTopic(u, t)
    PROVE  IInv'
  <1>1. topics'[t] = Gone /\ ~Exists(topics'[t])
    BY DEF DestroyTopic, TypeOK, Exists
  <1>2. \A x \in Topics : x # t => topics'[x] = topics[x]
    BY DEF DestroyTopic, TypeOK
  <1>3. \A x \in Topics : x # t => (x \in strayed' <=> x \in strayed)
    BY DEF DestroyTopic
  <1>4. UNCHANGED <<maps, creating, changing, seen>>
    BY DEF DestroyTopic
  <1> QED
    BY <1>1, <1>2, <1>3, <1>4 DEF IInv, MapsWereMade, ChangesStand, DraftsAreFresh,
                                  ChangesReachAll, PermissionIsCopied, HasMap

-----------------------------------------------------------------------------
\* Every step preserves types and the strengthening.

LEMMA FrameIInv ==
    ASSUME IInv, NEW u, NEW s, NEW p, NEW m, NEW x, NEW e,
           \/ CreateSynapse(u, s, p) \/ DestroySynapse(u, s)
           \/ CreateMapping(u, m, x) \/ CommitMapping(e)
    PROVE  IInv'
  BY SameRecordsIInv DEF CreateSynapse, DestroySynapse, CreateMapping, CommitMapping

LEMMA OnMapsStep ==
    ASSUME TypeOK, IInv, OnMaps
    PROVE  TypeOK' /\ IInv'
  <1>1. ASSUME NEW m \in Maps, CommitPermission(m)
        PROVE  TypeOK' /\ IInv'
    <2>1. Exists(maps[m])
      BY <1>1 DEF CommitPermission, IInv, ChangesStand
    <2> QED
      BY <1>1, <2>1, CommitPermissionType, CommitPermissionIInv
  <1>2. ASSUME NEW u \in Users, NEW m \in Maps, DestroyMap(u, m)
        PROVE  TypeOK' /\ IInv'
    BY <1>2, DestroyMapType, DestroyMapIInv
  <1>3. ASSUME NEW u \in Users, NEW m \in Maps, NEW C \in SUBSET Users,
               SetCollaborators(u, m, C)
        PROVE  TypeOK' /\ IInv'
    BY <1>3, SetCollaboratorsType, SetCollaboratorsIInv
  <1>4. ASSUME NEW u \in Users, NEW m \in Maps, NEW p \in Perms, ChangePermission(u, m, p)
        PROVE  TypeOK' /\ IInv'
    BY <1>4, ChangePermissionType, ChangePermissionIInv
  <1>5. ASSUME NEW u \in Users, NEW m \in Maps, NEW p \in Perms,
               NEW X \in SUBSET Items, NEW Y \in SUBSET X, CreateMap(u, m, p, X, Y)
        PROVE  TypeOK' /\ IInv'
    BY <1>5, CreateMapType, CreateMapIInv
  <1> QED
    BY <1>1, <1>2, <1>3, <1>4, <1>5 DEF OnMaps

LEMMA OnTopicsStep ==
    ASSUME TypeOK, IInv, OnTopics
    PROVE  TypeOK' /\ IInv'
  <1>1. ASSUME NEW t \in Topics, CommitTopic(t)
        PROVE  TypeOK' /\ IInv'
    BY <1>1, CommitTopicType, CommitTopicIInv
  <1>2. ASSUME NEW u \in Users, NEW t \in Topics, DestroyTopic(u, t)
        PROVE  TypeOK' /\ IInv'
    BY <1>2, DestroyTopicType, DestroyTopicIInv
  <1>3. ASSUME NEW u \in Users, NEW t \in Topics, NEW m \in Maps \cup {None},
               NEW p \in Perms, CreateTopic(u, t, m, p)
        PROVE  TypeOK' /\ IInv'
    BY <1>3, CreateTopicType, CreateTopicIInv
  <1>4. ASSUME NEW u \in Users, NEW t \in Topics, NEW v \in seen[t],
               NEW w \in Saves(u, t, v), SaveTopic(u, t, v, w)
        PROVE  TypeOK' /\ IInv'
    BY <1>4, SaveTopicType, SaveTopicIInv
  <1> QED
    BY <1>1, <1>2, <1>3, <1>4 DEF OnTopics

LEMMA OtherStep ==
    ASSUME TypeOK, IInv, OnSynapses \/ OnMappings
    PROVE  TypeOK' /\ IInv'
  <1>1. ASSUME NEW u \in Users, NEW s \in Synapses, NEW p \in Perms,
               CreateSynapse(u, s, p) \/ DestroySynapse(u, s)
        PROVE  TypeOK' /\ IInv'
    BY <1>1, SynapseTypes, FrameIInv
  <1>2. ASSUME NEW u \in Users, NEW s \in Synapses, DestroySynapse(u, s)
        PROVE  TypeOK' /\ IInv'
    <2>1. "public" \in Perms
      BY DEF Perms
    <2> QED
      BY <1>1, <1>2, <2>1
  <1>3. ASSUME NEW e \in placing, CommitMapping(e)
        PROVE  TypeOK' /\ IInv'
    BY <1>3, CommitMappingType, FrameIInv
  <1>4. ASSUME NEW u \in Users, NEW e \in mappings, DestroyMapping(u, e)
        PROVE  TypeOK' /\ IInv'
    BY <1>4, DestroyMappingType, DestroyMappingIInv
  <1>5. ASSUME NEW u \in Users, NEW m \in Maps, NEW x \in Items, CreateMapping(u, m, x)
        PROVE  TypeOK' /\ IInv'
    BY <1>5, CreateMappingType, FrameIInv
  <1> QED
    BY <1>1, <1>2, <1>3, <1>4, <1>5 DEF OnSynapses, OnMappings

LEMMA StutterStep ==
    ASSUME TypeOK, IInv, UNCHANGED vars
    PROVE  TypeOK' /\ IInv'
  <1>1. TypeOK'
    BY DEF TypeOK, vars
  <1>2. IInv'
    BY SameRecordsIInv DEF vars
  <1> QED
    BY <1>1, <1>2

LEMMA Invariance == Spec => [](TypeOK /\ IInv)
  <1>1. Init => TypeOK /\ IInv
    BY InitType, InitIInv
  <1>2. TypeOK /\ IInv /\ [Next]_vars => (TypeOK /\ IInv)'
    BY OnMapsStep, OnTopicsStep, OtherStep, StutterStep DEF Next
  <1> QED
    BY <1>1, <1>2, PTL DEF Spec

\* Every record has its type, whatever the requests (schema.rb, models).
THEOREM TypeCorrect == Spec => []TypeOK
  BY Invariance, PTL

\* A topic that defers to a map has the map's permission, unless a page has
\* written something else over it or its writing raced with a change of the
\* map's (Map#update_deferring_topics_and_synapses, Mapping#before_destroyed).
THEOREM CopiesFollow == Spec => []PermissionIsCopied
  <1>1. IInv => PermissionIsCopied
    BY DEF IInv
  <1> QED
    BY <1>1, Invariance, PTL


LEMMA Agreement ==
    ASSUME TypeOK, PermissionIsCopied
    PROVE  PoliciesAgree
  <1> SUFFICES ASSUME NEW t \in Topics, NEW u \in Users \cup {None},
                      Exists(topics[t]), t \notin strayed
               PROVE  /\ TopicShow(u, t) => TopicInScope(u, t) /\ authorizeToShow(u, t)
                      /\ TopicUpdate(u, t) => authorizeToEdit(u, t)
                      /\ u # topics[t].owner =>
                           /\ TopicInScope(u, t) => TopicShow(u, t)
                           /\ authorizeToShow(u, t) => TopicShow(u, t)
                           /\ authorizeToEdit(u, t) => TopicUpdate(u, t)
    BY DEF PoliciesAgree
  <1>1. /\ topics[t].owner \in Users /\ topics[t].perm \in Perms
        /\ topics[t].owner # None
    BY WhatExists, NoneIsNoMap DEF Topic
  <1>2. topics[t].perm \in Visible <=> topics[t].perm # "private"
    BY <1>1 DEF Perms, Visible
  <1>3. "commons" \in Visible
    BY DEF Visible
  <1>4. CASE HasMap(t)
    <2> DEFINE m == topics[t].defer
    <2>1. topics[t].perm = maps[m].perm
      BY <1>4 DEF PermissionIsCopied
    <2>2. u \in collaborator_ids(t) <=> u # topics[t].owner /\ Edits(u, m)
      BY <1>4 DEF collaborator_ids, Edits
    <2>3. Edits(u, m) => u # None
      BY DEF Edits
    <2> HIDE DEF m
    <2>4. TopicShow(u, t) <=> maps[m].perm \in Visible \/ Edits(u, m)
      BY <1>4 DEF TopicShow, MapShow, m
    <2>5. TopicUpdate(u, t) <=> u # None /\ (maps[m].perm = "commons" \/ Edits(u, m))
      BY <1>4 DEF TopicUpdate, MapUpdate, m
    <2>6. TopicInScope(u, t) <=> \/ topics[t].perm \in Visible
                                 \/ u # None /\ u = topics[t].owner
                                 \/ Edits(u, m)
      BY <1>4 DEF TopicInScope, m
    <2> QED
      BY <1>1, <1>2, <1>3, <2>1, <2>2, <2>3, <2>4, <2>5, <2>6
         DEF authorizeToShow, authorizeToEdit
  <1>5. CASE ~HasMap(t)
    BY <1>1, <1>2, <1>5 DEF TopicShow, TopicUpdate, TopicInScope, authorizeToShow,
                            authorizeToEdit, collaborator_ids
  <1> QED
    BY <1>4, <1>5

\* Policy, scope and page agree on who may see and edit a topic, its owner apart, unless its
\* copy has strayed (the policies, Topic#collaborator_ids and DataModel/Topic.js).
THEOREM PoliciesAlwaysAgree == Spec => []PoliciesAgree
  <1>1. TypeOK /\ IInv => PoliciesAgree
    BY Agreement DEF IInv
  <1> QED
    BY <1>1, Invariance, PTL

-----------------------------------------------------------------------------
\* Removing shows nothing new.

\* What a removal does: each topic is released, or its map is as it was, or
\* its map is gone and the topic has the permission it had.
LEMMA Removing ==
    ASSUME TypeOK, IInv, NEW X, Release(X), NEW t \in Topics, NEW u \in Users \cup {None},
           \A x \in Maps : maps'[x] = maps[x] \/ ~Exists(maps'[x]),
           Exists(topics[t]), t \notin strayed, u # topics[t].owner, TopicShow(u, t)'
    PROVE  TopicShow(u, t)
  <1>1. topics[t] \in Topic
    BY WhatExists
  <1>2. HasMap(t) => topics[t].perm = maps[topics[t].defer].perm
    BY DEF IInv, PermissionIsCopied
  <1>3. CASE Leaves(X, t)
    <2>1. /\ topics'[t] = Released(t)
          /\ Released(t).owner = topics[t].owner /\ Released(t).defer = None
          /\ Released(t).perm = maps[topics[t].defer].perm
      BY <1>3, LeavesDefers DEF Release
    <2>2. maps[topics[t].defer].perm \in Visible
      BY <2>1 DEF TopicShow, HasMap
    <2> QED
      BY <1>3, <2>2 DEF TopicShow, MapShow, Leaves
  <1>4. CASE ~Leaves(X, t)
    <2>1. topics'[t] = topics[t]
      BY <1>4 DEF Release
    <2>2. CASE HasMap(t)'
      <3>1. maps'[topics[t].defer] = maps[topics[t].defer] /\ HasMap(t)
        BY <1>1, <2>1, <2>2 DEF HasMap, Topic
      <3> QED
        BY <2>1, <2>2, <3>1 DEF TopicShow, MapShow, Edits
    <2>3. CASE ~HasMap(t)'
      <3>1. topics[t].perm \in Visible
        BY <2>1, <2>3 DEF TopicShow
      <3> QED
        BY <1>2, <3>1 DEF TopicShow, MapShow
    <2> QED
      BY <2>2, <2>3
  <1> QED
    BY <1>3, <1>4

\* Taking a topic off a map, or destroying the map, shows it to nobody new but its owner,
\* unless its copy had strayed (Mapping#before_destroyed, MapsController#destroy).
THEOREM RemovingIsSafe == Spec => RemovingShowsNothingNew
  <1>1. ASSUME TypeOK, IInv, Removes, NEW t \in Topics, NEW u \in Users \cup {None},
               Exists(topics[t]), t \notin strayed, u # topics[t].owner,
               TopicShow(u, t)'
        PROVE  TopicShow(u, t)
    <2>1. ASSUME NEW v \in Users, NEW m \in Maps, DestroyMap(v, m)
          PROVE  TopicShow(u, t)
      <3> DEFINE X == {x \in Topics : \E e \in On(m) : e[2] = x}
      <3>1. Release(X)
        BY <2>1 DEF DestroyMap
      <3>2. \A x \in Maps : maps'[x] = maps[x] \/ ~Exists(maps'[x])
        BY <2>1 DEF DestroyMap, TypeOK, Exists
      <3> HIDE DEF X
      <3> QED
        BY <1>1, <3>1, <3>2, Removing
    <2>2. ASSUME NEW v \in Users, NEW e \in mappings, DestroyMapping(v, e)
          PROVE  TopicShow(u, t)
      <3>1. Release({e[2]} \cap Topics) /\ maps' = maps
        BY <2>2 DEF DestroyMapping
      <3> QED
        BY <1>1, <3>1, Removing
    <2> QED
      BY <1>1, <2>1, <2>2 DEF Removes
  <1>2. TypeOK /\ IInv /\ [Next]_vars =>
          [Removes => \A t \in Topics, u \in Users \cup {None} :
                        (Exists(topics[t]) /\ t \notin strayed /\ u # topics[t].owner)
                            => (TopicShow(u, t)' => TopicShow(u, t))]_vars
    BY <1>1
  <1> QED
    BY <1>2, Invariance, PTL DEF Spec, RemovingShowsNothingNew

-----------------------------------------------------------------------------
\* Mappings stand: what a step must keep for that.

LEMMA StandsFrame ==
    ASSUME TypeOK, MappingsStand,
           \A e \in mappings' \ orphans' : /\ e \in Maps \X Items \X Users
                                           /\ e \in mappings \ orphans \/ Stands(e)',
           \A e \in mappings' \ orphans' : Exists(maps[e[1]]) => Exists(maps'[e[1]]),
           \A e \in mappings' \ orphans' : ItemExists(e[2]) => ItemExists(e[2])'
    PROVE  MappingsStand'
  BY DEF MappingsStand, Stands

\* Items that no step of these kinds destroys.
LEMMA ItemsStay ==
    ASSUME \A t \in Topics : Exists(topics[t]) => Exists(topics'[t]),
           \A s \in Synapses : Exists(synapses[s]) => Exists(synapses'[s]),
           NEW x \in Items, ItemExists(x)
    PROVE  ItemExists(x)'
  BY DEF ItemExists, Items

LEMMA ReleaseKeepsTopics ==
    ASSUME TypeOK, NEW X, Release(X)
    PROVE  \A t \in Topics : Exists(topics[t]) => Exists(topics'[t])
  <1>1. \A t \in Topics : Leaves(X, t) => Exists(Released(t))
    BY LeavesDefers, RecordsExist
  <1> QED
    BY <1>1 DEF Release

LEMMA CreateMapStands ==
    ASSUME TypeOK, MappingsStand, NEW u \in Users, NEW m \in Maps, NEW p \in Perms,
           NEW X \in SUBSET Items, NEW Y \in SUBSET X, CreateMap(u, m, p, X, Y)
    PROVE  MappingsStand'
  <1>1. [owner |-> u, perm |-> p, colls |-> {}] \in Map
    BY DEF Map
  <1>2. Exists(maps'[m]) /\ \A x \in Maps : Exists(maps[x]) => Exists(maps'[x])
    BY <1>1, RecordsExist DEF CreateMap, TypeOK
  <1>3. \A x \in Items : ItemExists(x) => ItemExists(x)'
    BY DEF CreateMap, ItemExists
  <1>4. \A y \in Y : ItemExists(y) /\ y \in Items
    BY DEF CreateMap, Placed
  <1>5. \A e \in mappings' : e \in Maps \X Items \X Users
    BY <1>4 DEF CreateMap, TypeOK
  <1>6. \A e \in mappings' \ orphans' : e \in mappings \ orphans \/ Stands(e)'
    <2> SUFFICES ASSUME NEW y \in Y
                 PROVE  Stands(<<m, y, u>>)'
      BY DEF CreateMap
    <2> QED
      BY <1>2, <1>3, <1>4 DEF Stands
  <1> QED
    BY <1>2, <1>3, <1>5, <1>6, StandsFrame

\* Steps that neither destroy nor add to the mappings.
LEMMA QuietStands ==
    ASSUME TypeOK, MappingsStand, mappings' = mappings, orphans' = orphans,
           \A m \in Maps : Exists(maps[m]) => Exists(maps'[m]),
           \A t \in Topics : Exists(topics[t]) => Exists(topics'[t]),
           \A s \in Synapses : Exists(synapses[s]) => Exists(synapses'[s])
    PROVE  MappingsStand'
  <1>1. \A x \in Items : ItemExists(x) => ItemExists(x)'
    BY ItemsStay
  <1>2. \A e \in mappings : e \in Maps \X Items \X Users
    BY DEF TypeOK
  <1> QED
    BY <1>1, <1>2, StandsFrame

LEMMA OnMapsStands ==
    ASSUME TypeOK, IInv, MappingsStand, OnMaps
    PROVE  MappingsStand'
  <1>1. ASSUME NEW m \in Maps, CommitPermission(m)
        PROVE  MappingsStand'
    <2>1. Exists(maps[m]) /\ maps[m] \in Map /\ changing[m] \in Change
      BY <1>1, WhatExists DEF CommitPermission, IInv, ChangesStand
    <2>2. [maps[m] EXCEPT !.perm = changing[m].perm] \in Map
      BY <2>1 DEF Map, Change
    <2>3. \A x \in Maps : Exists(maps[x]) => Exists(maps'[x])
      BY <1>1, <2>2, RecordsExist DEF CommitPermission, TypeOK
    <2>4. \A t \in HitsNow(m) :
              t \in Topics => [topics[t] EXCEPT !.perm = changing[m].perm] \in Topic
      BY <2>1, WhatExists DEF HitsNow, Topic, Change
    <2>5. \A t \in Topics : Exists(topics[t]) => Exists(topics'[t])
      BY <1>1, <2>4, RecordsExist DEF CommitPermission
    <2> QED
      BY <1>1, <2>3, <2>5, QuietStands DEF CommitPermission
  <1>2. ASSUME NEW u \in Users, NEW m \in Maps, DestroyMap(u, m)
        PROVE  MappingsStand'
    <2> DEFINE X == {t \in Topics : \E e \in On(m) : e[2] = t}
    <2>1. Release(X)
      BY <1>2 DEF DestroyMap
    <2> HIDE DEF X
    <2>2. \A x \in Items : ItemExists(x) => ItemExists(x)'
      BY <1>2, <2>1, ReleaseKeepsTopics, ItemsStay DEF DestroyMap
    <2>3. \A e \in mappings' \ orphans' : e \in mappings \ orphans /\ e[1] # m
      BY <1>2 DEF DestroyMap, On
    <2>4. \A e \in mappings : e \in Maps \X Items \X Users
      BY DEF TypeOK
    <2>5. \A e \in mappings' \ orphans' : Exists(maps[e[1]]) => Exists(maps'[e[1]])
      BY <1>2, <2>3, <2>4 DEF DestroyMap, TypeOK
    <2> QED
      BY <2>2, <2>3, <2>4, <2>5, StandsFrame
  <1>3. ASSUME NEW u \in Users, NEW m \in Maps, NEW C \in SUBSET Users,
               SetCollaborators(u, m, C)
        PROVE  MappingsStand'
    <2>1. [maps[m] EXCEPT !.colls = C] \in Map
      BY <1>3, WhatExists DEF SetCollaborators, Map
    <2>2. \A x \in Maps : Exists(maps[x]) => Exists(maps'[x])
      BY <1>3, <2>1, RecordsExist DEF SetCollaborators, TypeOK
    <2> QED
      BY <1>3, <2>2, QuietStands DEF SetCollaborators
  <1>4. ASSUME NEW u \in Users, NEW m \in Maps, NEW p \in Perms, ChangePermission(u, m, p)
        PROVE  MappingsStand'
    BY <1>4, QuietStands DEF ChangePermission
  <1>5. ASSUME NEW u \in Users, NEW m \in Maps, NEW p \in Perms,
               NEW X \in SUBSET Items, NEW Y \in SUBSET X, CreateMap(u, m, p, X, Y)
        PROVE  MappingsStand'
    BY <1>5, CreateMapStands
  <1> QED
    BY <1>1, <1>2, <1>3, <1>4, <1>5 DEF OnMaps

LEMMA DestroyTopicStands ==
    ASSUME TypeOK, MappingsStand, NEW u \in Users, NEW t \in Topics, DestroyTopic(u, t)
    PROVE  MappingsStand'
  <1>1. \A x \in Topics : x # t => topics'[x] = topics[x]
    BY DEF DestroyTopic, TypeOK
  <1>2. \A s \in Synapses : s \notin Doomed(t) => synapses'[s] = synapses[s]
    BY DEF DestroyTopic
  <1>3. \A e \in mappings' \ orphans' : /\ e \in mappings \ orphans
                                        /\ e[2] # t /\ e[2] \notin Doomed(t)
    BY DEF DestroyTopic
  <1>4. \A e \in mappings : e \in Maps \X Items \X Users
    BY DEF TypeOK
  <1>5. \A x \in Items : x # t /\ x \notin Doomed(t) /\ ItemExists(x) => ItemExists(x)'
    BY <1>1, <1>2 DEF ItemExists, Items
  <1>6. maps' = maps
    BY DEF DestroyTopic
  <1> QED
    BY <1>3, <1>4, <1>5, <1>6, StandsFrame

LEMMA OnTopicsStands ==
    ASSUME TypeOK, MappingsStand, OnTopics
    PROVE  MappingsStand'
  <1>1. ASSUME NEW t \in Topics, CommitTopic(t)
        PROVE  MappingsStand'
    <2> DEFINE d == creating[t]
               r == [owner |-> d.owner, perm |-> d.perm, defer |-> d.defer]
    <2>1. d \in Draft
      BY <1>1, WhatExists DEF CommitTopic
    <2>2. r \in Topic
      BY <2>1 DEF Draft, Topic
    <2>3. topics' = [topics EXCEPT ![t] = r]
      BY <1>1 DEF CommitTopic
    <2> HIDE DEF d, r
    <2>4. \A x \in Topics : Exists(topics[x]) => Exists(topics'[x])
      BY <2>2, <2>3, RecordsExist DEF TypeOK
    <2> QED
      BY <1>1, <2>4, QuietStands DEF CommitTopic
  <1>2. ASSUME NEW u \in Users, NEW t \in Topics, DestroyTopic(u, t)
        PROVE  MappingsStand'
    BY <1>2, DestroyTopicStands
  <1>3. ASSUME NEW u \in Users, NEW t \in Topics, NEW m \in Maps \cup {None},
               NEW p \in Perms, CreateTopic(u, t, m, p)
        PROVE  MappingsStand'
    BY <1>3, QuietStands DEF CreateTopic
  <1>4. ASSUME NEW u \in Users, NEW t \in Topics, NEW v \in seen[t],
               NEW w \in Saves(u, t, v), SaveTopic(u, t, v, w)
        PROVE  MappingsStand'
    <2> DEFINE r == [owner |-> topics[t].owner, perm |-> w.perm, defer |-> w.defer]
    <2>1. topics[t] \in Topic /\ v \in Version
      BY <1>4, WhatExists DEF TypeOK, SaveTopic
    <2>2. w \in Version
      BY <2>1 DEF Saves, Version
    <2>3. r \in Topic
      BY <2>1, <2>2 DEF Version, Topic
    <2>4. topics' = [topics EXCEPT ![t] = r]
      BY <1>4 DEF SaveTopic
    <2> HIDE DEF r
    <2>5. \A x \in Topics : Exists(topics[x]) => Exists(topics'[x])
      BY <2>3, <2>4, RecordsExist DEF TypeOK
    <2> QED
      BY <1>4, <2>5, QuietStands DEF SaveTopic
  <1> QED
    BY <1>1, <1>2, <1>3, <1>4 DEF OnTopics

LEMMA OnSynapsesStands ==
    ASSUME TypeOK, MappingsStand, OnSynapses
    PROVE  MappingsStand'
  <1>1. ASSUME NEW u \in Users, NEW s \in Synapses, DestroySynapse(u, s)
        PROVE  MappingsStand'
    <2>1. \A x \in Synapses : x # s => synapses'[x] = synapses[x]
      BY <1>1 DEF DestroySynapse, TypeOK
    <2>2. \A e \in mappings' \ orphans' : e \in mappings \ orphans /\ e[2] # s
      BY <1>1 DEF DestroySynapse
    <2>3. \A e \in mappings : e \in Maps \X Items \X Users
      BY DEF TypeOK
    <2>4. \A x \in Items : x # s /\ ItemExists(x) => ItemExists(x)'
      BY <1>1, <2>1 DEF DestroySynapse, ItemExists, Items
    <2>5. maps' = maps
      BY <1>1 DEF DestroySynapse
    <2> QED
      BY <2>2, <2>3, <2>4, <2>5, StandsFrame
  <1>2. ASSUME NEW u \in Users, NEW s \in Synapses, NEW p \in Perms, CreateSynapse(u, s, p)
        PROVE  MappingsStand'
    <2>1. [owner |-> u, perm |-> p] \in Synapse
      BY DEF Synapse
    <2>2. \A x \in Synapses : Exists(synapses[x]) => Exists(synapses'[x])
      BY <1>2, <2>1, RecordsExist DEF CreateSynapse, TypeOK
    <2> QED
      BY <1>2, <2>2, QuietStands DEF CreateSynapse
  <1> QED
    BY <1>1, <1>2 DEF OnSynapses

LEMMA OnMappingsStands ==
    ASSUME TypeOK, MappingsStand, OnMappings
    PROVE  MappingsStand'
  <1>1. ASSUME NEW e \in placing, CommitMapping(e)
        PROVE  MappingsStand'
    <2>1. UNCHANGED <<maps, topics, synapses>> /\ mappings' = mappings \cup {e}
      BY <1>1 DEF CommitMapping
    <2>2. Stands(e) \/ e \in orphans'
      BY <1>1 DEF CommitMapping
    <2>3. orphans \subseteq orphans'
      BY <1>1 DEF CommitMapping
    <2>4. \A f : Stands(f) => Stands(f)'
      BY <2>1 DEF Stands, ItemExists
    <2>5. \A f \in mappings \ orphans : Stands(f)
      BY DEF MappingsStand
    <2> QED
      BY <2>1, <2>2, <2>3, <2>4, <2>5 DEF MappingsStand
  <1>2. ASSUME NEW u \in Users, NEW e \in mappings, DestroyMapping(u, e)
        PROVE  MappingsStand'
    <2>1. Release({e[2]} \cap Topics)
      BY <1>2 DEF DestroyMapping
    <2>2. \A x \in Items : ItemExists(x) => ItemExists(x)'
      BY <1>2, <2>1, ReleaseKeepsTopics, ItemsStay DEF DestroyMapping
    <2>3. \A f \in mappings' \ orphans' : f \in mappings \ orphans
      BY <1>2 DEF DestroyMapping
    <2>4. \A f \in mappings : f \in Maps \X Items \X Users
      BY DEF TypeOK
    <2>5. maps' = maps
      BY <1>2 DEF DestroyMapping
    <2> QED
      BY <2>2, <2>3, <2>4, <2>5, StandsFrame
  <1>3. ASSUME NEW u \in Users, NEW m \in Maps, NEW x \in Items, CreateMapping(u, m, x)
        PROVE  MappingsStand'
    BY <1>3, QuietStands DEF CreateMapping
  <1> QED
    BY <1>1, <1>2, <1>3 DEF OnMappings

\* No chain of destroy callbacks leaves a mapping behind (dependent: :destroy of
\* Map, Topic and Synapse): only one inserted meanwhile stays without its ends.
THEOREM MappingsAlwaysStand == Spec => []MappingsStand
  <1>1. Init => MappingsStand
    BY DEF Init, MappingsStand
  <1>2. TypeOK /\ IInv /\ MappingsStand /\ [Next]_vars => MappingsStand'
    <2>1. ASSUME MappingsStand, UNCHANGED vars
          PROVE  MappingsStand'
      BY <2>1 DEF MappingsStand, Stands, ItemExists, vars
    <2> QED
      BY <2>1, OnMapsStands, OnTopicsStands, OnSynapsesStands, OnMappingsStands DEF Next
  <1> QED
    BY <1>1, <1>2, Invariance, PTL DEF Spec

=============================================================================
