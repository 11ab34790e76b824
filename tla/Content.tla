------------------------------ MODULE Content ------------------------------
(***************************************************************************)
(* Maps, topics, synapses and mappings in the database: who may see and    *)
(* change them (the policies), and how the controllers and the callbacks   *)
(* of the models write them.                                               *)
(*                                                                         *)
(* A topic made on a map defers to it: its permission is a copy of the     *)
(* map's, taken when it is made, rewritten when the map's is changed, and  *)
(* kept when the topic leaves the map.  Policies read the map's, scopes    *)
(* (the lists) and the page read the copy.                                 *)
(*                                                                         *)
(* A request is one step, but for three that read in their transaction     *)
(* what another may be writing: they begin and commit (creating, changing, *)
(* placing).  A page saves all attributes of a topic, as it knows them,    *)
(* which may be any version the topic has had (seen).                      *)
(***************************************************************************)
EXTENDS Naturals, FiniteSets

CONSTANTS
    Users, Admins,
    Maps, Topics, Synapses,
    Ends,           \* Ends[s]: the two topics a synapse connects
    None, Gone,     \* no such record yet (or no user, no map); destroyed
    Requests        \* bound: the budgets of requests of each kind, one of which is spent

Items == Topics \cup Synapses
Perms == {"commons", "public", "private"}
Visible == {"commons", "public"}
Kinds == {"map", "topic", "synapse", "mapping"}

VARIABLES
    maps, topics, synapses,
    mappings,   \* <<map, item, user>>
    creating,   \* creating[t]: the topic a transaction is inserting
    changing,   \* changing[m]: the permission a transaction is giving to a map
    placing,    \* mappings being inserted
    seen,       \* seen[t]: the versions of a topic that pages may hold
    left,       \* the requests left
    strayed,    \* history: see PermissionIsCopied
    orphans     \* history: mappings whose map or item went as they were inserted

vars == <<maps, topics, synapses, mappings, creating, changing, placing, seen,
          left, strayed, orphans>>

Map == [owner : Users, perm : Perms, colls : SUBSET Users]
Topic == [owner : Users, perm : Perms, defer : Maps \cup {None}]
Draft == [owner : Users, perm : Perms, defer : Maps \cup {None}, raced : BOOLEAN]
Synapse == [owner : Users, perm : Perms]
Change == [perm : Perms, hits : SUBSET Topics]
Version == [perm : Perms, defer : Maps \cup {None}]

ASSUME ContentAssumption ==
    /\ Admins \subseteq Users
    /\ None \notin Users \cup Maps \cup {Gone}
    /\ Ends \in [Synapses -> SUBSET Topics]
    /\ Topics \cap Synapses = {}
    /\ Requests \subseteq [Kinds -> Nat]
    /\ {None, Gone} \cap (Map \cup Topic \cup Synapse \cup Draft \cup Change) = {}

Exists(r) == r # None /\ r # Gone
ItemExists(x) == IF x \in Topics THEN Exists(topics[x]) ELSE Exists(synapses[x])
VersionOf(t) == [perm |-> topics[t].perm, defer |-> topics[t].defer]

-----------------------------------------------------------------------------
(* The policies. *)
Edits(u, m) == u # None /\ (u \in maps[m].colls \/ u = maps[m].owner)

MapShow(u, m) == maps[m].perm \in Visible \/ Edits(u, m)
MapUpdate(u, m) == u # None /\ (maps[m].perm = "commons" \/ Edits(u, m))

(* defer_to_map.present?: the id may be that of a map that was destroyed. *)
HasMap(t) == topics[t].defer # None /\ Exists(maps[topics[t].defer])

TopicShow(u, t) ==
    IF HasMap(t) THEN MapShow(u, topics[t].defer)
    ELSE topics[t].perm \in Visible \/ u = topics[t].owner
TopicUpdate(u, t) ==
    IF HasMap(t) THEN MapUpdate(u, topics[t].defer)
    ELSE u # None /\ (topics[t].perm = "commons" \/ u = topics[t].owner)

(* What a list shows: TopicPolicy::Scope. *)
TopicInScope(u, t) ==
    \/ topics[t].perm \in Visible
    \/ u # None /\ u = topics[t].owner
    \/ HasMap(t) /\ Edits(u, topics[t].defer)

(* What the page of u shows of a broadcast: Topic#collaborator_ids, as     *)
(* Topic#filtered sends them, and authorizeToShow, authorizeToEdit.        *)
collaborator_idsWithoutOwner(t) ==
    IF HasMap(t) THEN maps[topics[t].defer].colls \ {topics[t].owner} ELSE {}
collaborator_ids(t) ==
    IF HasMap(t) THEN {u \in Users \ {topics[t].owner} : Edits(u, topics[t].defer)}
    ELSE {}
authorizeToShow(u, t) ==
    \/ topics[t].perm # "private"
    \/ u \in collaborator_ids(t) \/ u = topics[t].owner
authorizeToEdit(u, t) ==
    u # None /\ (\/ u = topics[t].owner \/ topics[t].perm = "commons"
                 \/ u \in collaborator_ids(t))

-----------------------------------------------------------------------------
Init ==
    /\ maps = [m \in Maps |-> None]
    /\ topics = [t \in Topics |-> None]
    /\ synapses = [s \in Synapses |-> None]
    /\ mappings = {} /\ placing = {} /\ orphans = {} /\ strayed = {}
    /\ creating = [t \in Topics |-> None]
    /\ changing = [m \in Maps |-> None]
    /\ seen = [t \in Topics |-> {}]
    /\ left \in Requests

Ask(kind) == left[kind] > 0 /\ left' = [left EXCEPT ![kind] = @ - 1]

(* POST /maps, with the items to put on it.  They are found and put one by *)
(* one, the map being saved with the first: if one is missing, the request *)
(* fails with those before it in place.                                    *)
Placed(X, Y) ==
    /\ \A y \in Y : ItemExists(y)
    /\ Y # X => Y # {} /\ \E x \in X \ Y : ~ItemExists(x)
    /\ Y \cap Synapses # {} => X \cap Topics \subseteq Y

CreateMap(u, m, p, X, Y) ==
    /\ maps[m] = None
    /\ X \cap Synapses # {} => X \cap Topics # {}
    /\ Placed(X, Y)
    /\ Ask("map")
    /\ maps' = [maps EXCEPT ![m] = [owner |-> u, perm |-> p, colls |-> {}]]
    /\ mappings' = mappings \cup {<<m, y, u>> : y \in Y}
    /\ UNCHANGED <<topics, synapses, creating, changing, placing, seen, strayed, orphans>>

(* PUT /maps/:id with another permission: update_deferring_topics_and_     *)
(* synapses reads the topics that defer to the map and updates those whose *)
(* permission is another.  Synapses never defer: synapse_params does not   *)
(* permit it.                                                              *)
HitsOfOwner(m, p) == {t \in Topics : /\ Exists(topics[t]) /\ topics[t].defer = m
                                     /\ topics[t].owner = maps[m].owner}
Hits(m, p) == {t \in Topics : /\ Exists(topics[t]) /\ topics[t].defer = m
                              /\ topics[t].perm # p}

ChangePermission(u, m, p) ==
    /\ Exists(maps[m]) /\ MapUpdate(u, m)
    /\ changing[m] = None /\ p # maps[m].perm
    /\ Ask("map")
    /\ changing' = [changing EXCEPT ![m] = [perm |-> p, hits |-> Hits(m, p)]]
    /\ UNCHANGED <<maps, topics, synapses, mappings, creating, placing, seen, strayed, orphans>>

HitsNow(m) == {t \in changing[m].hits : Exists(topics[t])}

CommitPermission(m) ==
    /\ changing[m] # None
    /\ LET p == changing[m].perm
           hits == HitsNow(m)
       IN /\ maps' = [maps EXCEPT ![m].perm = p]
          /\ topics' = [t \in Topics |-> IF t \in hits THEN [topics[t] EXCEPT !.perm = p]
                                         ELSE topics[t]]
          /\ seen' = [t \in Topics |->
                        IF t \in hits THEN seen[t] \cup {[VersionOf(t) EXCEPT !.perm = p]}
                        ELSE seen[t]]
          /\ strayed' = (strayed \ {t \in hits : topics[t].defer = m})
                        \cup {t \in hits : topics[t].defer \notin {m, None}}
    /\ creating' = [t \in Topics |->
                      IF creating[t] # None /\ creating[t].defer = m
                      THEN [creating[t] EXCEPT !.raced = TRUE] ELSE creating[t]]
    /\ changing' = [changing EXCEPT ![m] = None]
    /\ UNCHANGED <<synapses, mappings, placing, left, orphans>>

(* The map's owner changes who may edit it. *)
SetCollaborators(u, m, C) ==
    /\ Exists(maps[m]) /\ u = maps[m].owner /\ u \notin C
    /\ Ask("map")
    /\ maps' = [maps EXCEPT ![m].colls = C]
    /\ UNCHANGED <<topics, synapses, mappings, creating, changing, placing, seen, strayed, orphans>>

(* Mapping#before_destroyed, for the mappings of the topics in X: those    *)
(* that defer to a map that exists take its permission and no longer       *)
(* defer, whichever map they leave.                                        *)
ReleasedFirst(t) == [topics[t] EXCEPT !.perm = None, !.defer = None]
Released(t) == [topics[t] EXCEPT !.perm = maps[topics[t].defer].perm, !.defer = None]
Leaves(X, t) == t \in X /\ Exists(topics[t]) /\ HasMap(t)
Release(X) ==
    /\ topics' = [t \in Topics |-> IF Leaves(X, t) THEN Released(t) ELSE topics[t]]
    /\ seen' = [t \in Topics |->
                  IF Leaves(X, t)
                  THEN seen[t] \cup {[perm |-> Released(t).perm, defer |-> None]}
                  ELSE seen[t]]
    /\ strayed' = strayed \ {t \in Topics : Leaves(X, t)}

(* DELETE /maps/:id: its mappings go first, and one whose item is gone     *)
(* makes that fail.  Another transaction on the map is waited for.         *)
OnBySynapses(m) == {e \in mappings : e[1] = m /\ e[2] \in Synapses}
On(m) == {e \in mappings : e[1] = m}

DestroyMap(u, m) ==
    /\ Exists(maps[m]) /\ (u = maps[m].owner \/ u \in Admins)
    /\ changing[m] = None
    /\ \A e \in On(m) : ItemExists(e[2])
    /\ Ask("map")
    /\ Release({t \in Topics : \E e \in On(m) : e[2] = t})
    /\ maps' = [maps EXCEPT ![m] = Gone]
    /\ mappings' = mappings \ On(m)
    /\ UNCHANGED <<synapses, creating, changing, placing, orphans>>

-----------------------------------------------------------------------------
(* POST /topics: set_perm_by_defer reads the permission of the map. *)
CreateTopic(u, t, m, p) ==
    /\ topics[t] = None /\ creating[t] = None
    /\ m # None => maps[m] # None
    /\ Ask("topic")
    /\ creating' = [creating EXCEPT ![t] =
         [owner |-> u, defer |-> m, raced |-> FALSE,
          perm |-> IF m # None /\ Exists(maps[m]) THEN maps[m].perm ELSE p]]
    /\ UNCHANGED <<maps, topics, synapses, mappings, changing, placing, seen, strayed, orphans>>

CommitTopic(t) ==
    /\ creating[t] # None
    /\ LET d == creating[t]
       IN /\ topics' = [topics EXCEPT ![t] =
                          [owner |-> d.owner, perm |-> d.perm, defer |-> d.defer]]
          /\ seen' = [seen EXCEPT ![t] = @ \cup {[perm |-> d.perm, defer |-> d.defer]}]
          /\ strayed' = IF d.raced \/ (d.defer # None /\ changing[d.defer] # None)
                        THEN strayed \cup {t} ELSE strayed
    /\ creating' = [creating EXCEPT ![t] = None]
    /\ UNCHANGED <<maps, synapses, mappings, changing, placing, left, orphans>>

(* PUT /topics/:id with all the attributes, as the page knows them, but    *)
(* for a new name (v), a permission chosen on the card of the topic, or    *)
(* one given by its owner to all that is selected.                         *)
Saves(u, t, v) ==
    {v} \cup {[perm |-> p, defer |-> None] : p \in Perms}
        \cup {[perm |-> p, defer |-> v.defer] : p \in {q \in Perms : u = topics[t].owner}}

SaveTopic(u, t, v, w) ==
    /\ Exists(topics[t]) /\ TopicUpdate(u, t)
    /\ v \in seen[t] /\ w \in Saves(u, t, v)
    /\ Ask("topic")
    /\ topics' = [topics EXCEPT ![t] = [owner |-> topics[t].owner, perm |-> w.perm,
                                        defer |-> w.defer]]
    /\ seen' = [seen EXCEPT ![t] = @ \cup {w}]
    /\ strayed' = IF w = VersionOf(t) THEN strayed
                  ELSE IF w.defer = None THEN strayed \ {t} ELSE strayed \cup {t}
    /\ UNCHANGED <<maps, synapses, mappings, creating, changing, placing, orphans>>

(* DELETE /topics/:id: its synapses and all their mappings go with it. *)
Doomed(t) == {s \in Synapses : t \in Ends[s] /\ Exists(synapses[s])}

DestroyTopic(u, t) ==
    /\ Exists(topics[t]) /\ (u = topics[t].owner \/ u \in Admins)
    /\ Ask("topic")
    /\ topics' = [topics EXCEPT ![t] = Gone]
    /\ synapses' = [s \in Synapses |-> IF s \in Doomed(t) THEN Gone ELSE synapses[s]]
    /\ mappings' = {e \in mappings : e[2] \notin Doomed(t) \cup {t}}
    /\ strayed' = strayed \ {t}
    /\ UNCHANGED <<maps, creating, changing, placing, seen, orphans>>

(* POST /synapses: authorized once saved, and not at all against a topic   *)
(* that is gone.                                                           *)
CreateSynapse(u, s, p) ==
    /\ synapses[s] = None
    /\ \A t \in Ends[s] : topics[t] # None
    /\ (\A t \in Ends[s] : Exists(topics[t])) => \A t \in Ends[s] : TopicShow(u, t)
    /\ Ask("synapse")
    /\ synapses' = [synapses EXCEPT ![s] = [owner |-> u, perm |-> p]]
    /\ UNCHANGED <<maps, topics, mappings, creating, changing, placing, seen, strayed, orphans>>

DestroySynapse(u, s) ==
    /\ Exists(synapses[s]) /\ (u = synapses[s].owner \/ u \in Admins)
    /\ Ask("synapse")
    /\ synapses' = [synapses EXCEPT ![s] = Gone]
    /\ mappings' = {e \in mappings : e[2] # s}
    /\ UNCHANGED <<maps, topics, creating, changing, placing, seen, strayed, orphans>>

-----------------------------------------------------------------------------
(* POST /mappings: map and item are there when the mapping is validated. *)
CreateMapping(u, m, x) ==
    /\ Exists(maps[m]) /\ MapUpdate(u, m) /\ ItemExists(x)
    /\ <<m, x, u>> \notin placing \cup mappings
    /\ Ask("mapping")
    /\ placing' = placing \cup {<<m, x, u>>}
    /\ UNCHANGED <<maps, topics, synapses, mappings, creating, changing, seen, strayed, orphans>>

Stands(e) == Exists(maps[e[1]]) /\ ItemExists(e[2])

CommitMapping(e) ==
    /\ e \in placing
    /\ placing' = placing \ {e}
    /\ mappings' = mappings \cup {e}
    /\ orphans' = IF Stands(e) THEN orphans ELSE orphans \cup {e}
    /\ UNCHANGED <<maps, topics, synapses, creating, changing, seen, left, strayed>>

(* DELETE /mappings/:id; the mapping of an item that is gone stays. *)
DestroyMapping(u, e) ==
    /\ e \in mappings /\ Stands(e)
    /\ MapUpdate(u, e[1]) \/ u \in Admins
    /\ Ask("mapping")
    /\ Release({e[2]} \cap Topics)
    /\ mappings' = mappings \ {e}
    /\ UNCHANGED <<maps, synapses, creating, changing, placing, orphans>>

-----------------------------------------------------------------------------
OnMaps ==
    \E m \in Maps :
        \/ CommitPermission(m)
        \/ \E u \in Users :
              \/ DestroyMap(u, m)
              \/ \E C \in SUBSET Users : SetCollaborators(u, m, C)
              \/ \E p \in Perms :
                    \/ ChangePermission(u, m, p)
                    \/ \E X \in SUBSET Items : \E Y \in SUBSET X : CreateMap(u, m, p, X, Y)
OnTopics ==
    \E t \in Topics :
        \/ CommitTopic(t)
        \/ \E u \in Users :
              \/ DestroyTopic(u, t)
              \/ \E m \in Maps \cup {None}, p \in Perms : CreateTopic(u, t, m, p)
              \/ Exists(topics[t]) /\ \E v \in seen[t] : \E w \in Saves(u, t, v) :
                    SaveTopic(u, t, v, w)
OnSynapses ==
    \E s \in Synapses, u \in Users :
        DestroySynapse(u, s) \/ \E p \in Perms : CreateSynapse(u, s, p)
OnMappings ==
    \/ \E e \in placing : CommitMapping(e)
    \/ \E u \in Users :
          \/ \E e \in mappings : DestroyMapping(u, e)
          \/ \E m \in Maps, x \in Items : CreateMapping(u, m, x)

Next == OnMaps \/ OnTopics \/ OnSynapses \/ OnMappings

Spec == Init /\ [][Next]_vars
-----------------------------------------------------------------------------
(* Every record has its type; a record may be missing or destroyed. *)
TypeOK ==
    /\ maps \in [Maps -> Map \cup {None, Gone}]
    /\ topics \in [Topics -> Topic \cup {None, Gone}]
    /\ synapses \in [Synapses -> Synapse \cup {None, Gone}]
    /\ creating \in [Topics -> Draft \cup {None}]
    /\ changing \in [Maps -> Change \cup {None}]
    /\ mappings \subseteq Maps \X Items \X Users
    /\ placing \subseteq Maps \X Items \X Users
    /\ orphans \subseteq Maps \X Items \X Users
    /\ seen \in [Topics -> SUBSET Version]
    /\ strayed \subseteq Topics
    /\ left \in [Kinds -> Nat]

(* A topic that defers to a map has the map's permission, whatever order   *)
(* topics are made, maps change permission, and mappings go; unless a page *)
(* has since saved the topic with a map and another permission or map than *)
(* it had, or its making (or its move) raced with a change of the map's.   *)
PermissionIsCopied ==
    \A t \in Topics :
        (Exists(topics[t]) /\ HasMap(t) /\ t \notin strayed)
            => topics[t].perm = maps[topics[t].defer].perm

(* The three places where a user is allowed to see a topic agree: the      *)
(* policy asked for one topic, the scope that makes lists, and the page,   *)
(* asked whether to fetch a topic that is broadcast; and page and policy   *)
(* agree on who may edit.  The owner alone may be shown, in lists and on   *)
(* the page, a topic the policy withholds, that of another's map.  Topics  *)
(* whose copy has strayed from their map's permission are excepted.        *)
PoliciesAgree ==
    \A t \in Topics, u \in Users \cup {None} :
        (Exists(topics[t]) /\ t \notin strayed) =>
            /\ TopicShow(u, t) => TopicInScope(u, t) /\ authorizeToShow(u, t)
            /\ TopicUpdate(u, t) => authorizeToEdit(u, t)
            /\ u # topics[t].owner =>
                 /\ TopicInScope(u, t) => TopicShow(u, t)
                 /\ authorizeToShow(u, t) => TopicShow(u, t)
                 /\ authorizeToEdit(u, t) => TopicUpdate(u, t)

(* Taking a topic off a map, or destroying a map, shows the topic to       *)
(* nobody who could not see it, its owner excepted, unless its copy had    *)
(* strayed from the map's permission.                                      *)
Removes ==
    \/ \E u \in Users, m \in Maps : DestroyMap(u, m)
    \/ \E u \in Users : \E e \in mappings : DestroyMapping(u, e)

RemovingShowsNothingNew ==
    [][Removes =>
         \A t \in Topics, u \in Users \cup {None} :
             (Exists(topics[t]) /\ t \notin strayed /\ u # topics[t].owner)
                 => (TopicShow(u, t)' => TopicShow(u, t))]_vars

(* A mapping's map and item exist, unless one was destroyed while the      *)
(* mapping was being inserted: no chain of destroy callbacks leaves one    *)
(* behind, which would make its map impossible to load or to destroy.      *)
MappingsStand == \A e \in mappings \ orphans : Stands(e)
=============================================================================
