---------------------------- MODULE MapPage_proofs ----------------------------
(***************************************************************************)
(* What the functions of MapPage do to a page: the lemmas that the         *)
(* theorems about Cable rest on.                                           *)
(*                                                                         *)
(* The first half is about the page alone.  It is sound (Sound, below) at  *)
(* every point of every turn, also when an exception has ended a handler   *)
(* half way: each function of MapPage takes a sound page to a sound page.  *)
(*                                                                         *)
(* The second half is about how what the page holds goes with what it      *)
(* draws and what it waits for (Linked, below).  A function either keeps   *)
(* all that matters to the links (Kept, KeptBut), or adds something that   *)
(* is linked, or takes an item off; a handler that throws after that may   *)
(* leave the item drawn, and then the item is wronged (Slips).             *)
(*                                                                         *)
(* A loop of the source is a fold; an instance of Folding says what its    *)
(* steps keep.                                                             *)
(***************************************************************************)
EXTENDS Cable, SequenceFacts

-----------------------------------------------------------------------------
\* Without x the last element goes.
LEMMA SplicedKeeps ==
    ASSUME NEW S, NEW s \in Seq(S), NEW x
    PROVE  /\ Spliced(s, x) \in Seq(S)
           /\ In(Spliced(s, x)) \subseteq In(s)
           /\ Once(s) => Once(Spliced(s, x)) /\ x \notin In(Spliced(s, x))
           /\ x \in In(s) => In(s) \subseteq In(Spliced(s, x)) \cup {x}
           /\ s = <<>> => In(s) = {}
  <1>1. CASE Contains(s, x)
    <2>1. PICK i \in 1..Len(s) : s[i] = x /\ RemoveFirst(s, x) = RemoveAt(s, i)
      BY <1>1, RemovedFirst
    <2>2. Spliced(s, x) = RemoveAt(s, i)
      BY <1>1, <2>1 DEF Spliced
    <2>3. s # <<>>
      BY <2>1, EmptySeq
    <2> QED
      BY <2>1, <2>2, <2>3, RemovedAt, RemovedOnce
  <1>2. CASE ~Contains(s, x) /\ s = <<>>
    <2>1. In(s) = {}
      BY <1>2, EmptySeq DEF In
    <2> QED
      BY <1>2, <2>1 DEF Spliced
  <1>3. CASE ~Contains(s, x) /\ s # <<>>
    <2>1. Len(s) \in Nat \ {0}
      BY <1>3, EmptySeq
    <2>2. RemoveAt(s, Len(s)) = Front(s)
      <3>1. /\ Front(s) \in Seq(S) /\ Len(Front(s)) = Len(s) - 1
            /\ \A j \in 1..Len(s) - 1 : Front(s)[j] = s[j]
        <4>1. \A j \in 1..Len(s) - 1 : s[j] \in S
          BY <2>1, ElementOfSeq
        <4>2. 1 \in Int /\ Len(s) - 1 \in Int
          BY <2>1
        <4>3. /\ Front(s) \in Seq(S)
              /\ Len(Front(s)) = IF 1 <= Len(s) - 1 THEN Len(s) - 1 - 1 + 1 ELSE 0
              /\ \A j \in 1..Len(s) - 1 - 1 + 1 : Front(s)[j] = s[1 + j - 1]
          BY <4>1, <4>2, SubSeqProperties DEF Front
        <4>4. \A j \in 1..Len(s) - 1 : 1 + j - 1 = j /\ j \in 1..Len(s) - 1 - 1 + 1
          BY <2>1
        <4>5. Len(Front(s)) = Len(s) - 1
          <5>1. Len(Front(s)) = IF 1 <= Len(s) - 1 THEN Len(s) - 1 - 1 + 1 ELSE 0
            BY <4>3
          <5>2. CASE Len(s) = 1
            BY <5>1, <5>2
          <5>3. CASE Len(s) # 1
            <6>1. \A n \in Nat \ {0} : n # 1 => 1 <= n - 1 /\ n - 1 - 1 + 1 = n - 1
              OBVIOUS
            <6> QED
              BY <2>1, <5>1, <5>3, <6>1
          <5> QED
            BY <5>2, <5>3
        <4>6. \A j \in 1..Len(s) - 1 : Front(s)[j] = s[j]
          <5> SUFFICES ASSUME NEW j \in 1..Len(s) - 1 PROVE Front(s)[j] = s[j]
            OBVIOUS
          <5>1. Front(s)[j] = s[1 + j - 1]
            BY <4>3, <4>4
          <5> QED
            BY <4>4, <5>1
        <4> QED
          BY <4>3, <4>5, <4>6
      <3>2. Len(s) \in 1..Len(s)
        BY <2>1
      <3>3. /\ RemoveAt(s, Len(s)) \in Seq(S) /\ Len(RemoveAt(s, Len(s))) = Len(s) - 1
            /\ \A j \in 1..Len(s) - 1 :
                  RemoveAt(s, Len(s))[j] = IF j < Len(s) THEN s[j] ELSE s[j + 1]
        BY <3>2, RemovedAt
      <3>4. \A j \in 1..Len(s) - 1 : j < Len(s)
        BY <2>1
      <3> QED
        BY <3>1, <3>3, <3>4, SeqEqual
    <2>3. Spliced(s, x) = RemoveAt(s, Len(s))
      BY <1>3, <2>2 DEF Spliced
    <2>4. Len(s) \in 1..Len(s) /\ x \notin In(s)
      BY <1>3, <2>1, InIsRange
    <2> QED
      BY <1>3, <2>3, <2>4, RemovedAt, RemovedOnce
  <1> QED
    BY <1>1, <1>2, <1>3

\* The ends of an edge.
LEMMA PairIsFinite ==
    ASSUME NEW a, NEW b
    PROVE  IsFiniteSet({a, b})
  <1>1. IsFiniteSet({a}) /\ {a, b} = {a} \cup {b}
    BY FS_Singleton
  <1> QED
    BY <1>1, FS_AddElement

-----------------------------------------------------------------------------
\* What a page is, at every point of a turn.

Fields == {"topics", "syns", "new", "maps", "drafts", "mappers", "node", "graph", "made",
           "edge", "edges", "adj", "selN", "selE", "marked", "dim", "kept", "timers",
           "filters", "visible", "out", "slipped", "threw"}

PageKey == Topics \X BOOLEAN

DataSound(p) ==
    /\ p.topics \subseteq Topics /\ p.syns \subseteq Synapses
    /\ p.maps \subseteq Range(table) /\ p.drafts \subseteq Items
    /\ p.new \subseteq Items /\ p.mappers \subseteq {Me, Other}

\* The two lists of an edge go together; it shows one of its synapses, or the first.
EdgeSound(e) ==
    /\ e \in Edge
    /\ IsFiniteSet(e.ends)
    /\ Len(e.maps) = Len(e.syns)
    /\ e.shown = 0 \/ e.shown < Len(e.syns)

\* An edge that is drawn has its ends drawn.
GraphSound(p) ==
    /\ p.graph \subseteq NodeObject /\ p.dim \subseteq NodeObject
    /\ p.node \in [Topics -> NodeObject \cup {None}]
    /\ p.made \in [Topics -> Nat]
    /\ p.edges \in Seq(Edge)
    /\ \A e \in 1..Len(p.edges) : EdgeSound(p.edges[e])
    /\ p.edge \in [Synapses -> 1..Len(p.edges) \cup {None}]
    /\ p.adj \subseteq 1..Len(p.edges)
    /\ \A e \in p.adj : \A key \in p.edges[e].ends : NodesAt(p, key) # {}
    /\ p.timers \in Seq(SUBSET PageKey)

SelectionSound(p) ==
    /\ p.marked \subseteq NodeObject
    /\ p.selN \in Seq(NodeObject) /\ Once(p.selN)
    /\ p.selE \in Seq(Nat) /\ Once(p.selE) /\ In(p.selE) \subseteq 1..Len(p.edges)
    /\ In(p.selN) \subseteq p.marked
    /\ ~p.slipped => p.marked \subseteq In(p.selN)

FilterSound(p) ==
    /\ p.filters = {Metacode[t] : t \in p.topics}
    /\ p.visible \in Seq(Metacodes) /\ Once(p.visible)
    /\ In(p.visible) \subseteq p.filters

Sound(p) ==
    /\ DOMAIN p = Fields
    /\ DataSound(p)
    /\ GraphSound(p)
    /\ SelectionSound(p)
    /\ FilterSound(p)

\* Most functions change few fields, and the rest of what they keep is as it was.
SameData(p, q) ==
    /\ q.topics = p.topics /\ q.syns = p.syns /\ q.maps = p.maps /\ q.drafts = p.drafts
    /\ q.new = p.new /\ q.mappers = p.mappers
SameGraph(p, q) ==
    /\ q.graph = p.graph /\ q.dim = p.dim /\ q.node = p.node /\ q.made = p.made
    /\ q.edges = p.edges /\ q.edge = p.edge /\ q.adj = p.adj /\ q.timers = p.timers
SameSelection(p, q) ==
    /\ q.marked = p.marked /\ q.selN = p.selN /\ q.selE = p.selE /\ q.slipped = p.slipped
SameFilter(p, q) == q.filters = p.filters /\ q.visible = p.visible

\* A page is sound when each of its parts is, as it was or anew.
LEMMA SoundAgain ==
    ASSUME NEW p, NEW q, Sound(p), DOMAIN q = Fields,
           SameData(p, q) \/ DataSound(q),
           SameGraph(p, q) \/ GraphSound(q),
           (SameSelection(p, q) /\ SameGraph(p, q)) \/ SelectionSound(q),
           (SameFilter(p, q) /\ SameData(p, q)) \/ FilterSound(q)
    PROVE  Sound(q)
  <1>1. DataSound(q)
    BY DEF Sound, SameData, DataSound
  <1>2. GraphSound(q)
    BY DEF Sound, SameGraph, GraphSound, NodesAt
  <1>3. SelectionSound(q)
    BY DEF Sound, SameSelection, SameGraph, SelectionSound
  <1>4. FilterSound(q)
    BY DEF Sound, SameFilter, SameData, FilterSound
  <1> QED
    BY <1>1, <1>2, <1>3, <1>4 DEF Sound

\* An exception.
LEMMA ThrowSound ==
    ASSUME NEW p, Sound(p)
    PROVE  Sound(Throw(p)) /\ SameGraph(p, Throw(p)) /\ Throw(p).topics = p.topics
  <1> DEFINE q == Throw(p)
  <1>1. DOMAIN p = Fields
    BY DEF Sound
  <1>2. DOMAIN q = Fields /\ SameData(p, q) /\ SameGraph(p, q) /\ SameSelection(p, q) /\ SameFilter(p, q)
    BY <1>1 DEF Throw, Fields, SameData, SameGraph, SameSelection, SameFilter
  <1> QED
    BY <1>2, SoundAgain DEF SameData

\* The filters.
LEMMA CheckMappersSound ==
    ASSUME NEW p, Sound(p)
    PROVE  /\ Sound(checkMappers(p)) /\ SameGraph(p, checkMappers(p))
           /\ checkMappers(p).topics = p.topics
  BY ThrowSound DEF checkMappers, SameGraph

\* The metacodes that are gone are spliced out of the visible ones.
TakeOut(f, m, v) == Spliced(v, m)
AnyOf(S) == CHOOSE x \in S : TRUE
LeftVisible(f, s, v) ==
    v \in Seq(Metacodes) /\ Once(v) /\ In(v) \subseteq In(f) /\ In(v) \cap s = {}
TakingOut == INSTANCE Folding WITH Op <- TakeOut, Pick <- AnyOf, Good <- LeftVisible

\* Filter.updateFilters: the metacodes that are gone are not visible any more, and none is twice.
LEMMA TakingOutWorks ==
    ASSUME NEW seq \in Seq(Metacodes), Once(seq), NEW S, IsFiniteSet(S)
    PROVE  LeftVisible(seq, S, TakingOut!Folded(seq, seq, S))
  <1>1. \A s \in SUBSET S : s # {} => AnyOf(s) \in s
    BY DEF AnyOf
  <1>2. LeftVisible(seq, {}, seq)
    BY DEF LeftVisible
  <1>3. ASSUME NEW s \in SUBSET S, s # {}, NEW v, LeftVisible(seq, s \ {AnyOf(s)}, v)
        PROVE  LeftVisible(seq, s, TakeOut(seq, AnyOf(s), v))
    <2> DEFINE x == AnyOf(s)
    <2>1. /\ v \in Seq(Metacodes) /\ Once(v) /\ In(v) \subseteq In(seq)
          /\ In(v) \cap (s \ {x}) = {}
      BY <1>3 DEF LeftVisible
    <2> HIDE DEF x
    <2>2. /\ Spliced(v, x) \in Seq(Metacodes) /\ Once(Spliced(v, x))
          /\ In(Spliced(v, x)) \subseteq In(v) /\ x \notin In(Spliced(v, x))
      BY <2>1, SplicedKeeps
    <2>3. LeftVisible(seq, s, TakeOut(seq, x, v))
      BY <2>1, <2>2 DEF LeftVisible, TakeOut
    <2> QED
      BY <2>3 DEF x
  <1> QED
    BY <1>1, <1>2, <1>3, TakingOut!FoldKeeps DEF IsFiniteSet, TakingOut!IsFiniteSet

\* What checkMetacodes relies on.
FilterLoose(p) ==
    /\ p.filters \subseteq Metacodes /\ IsFiniteSet(p.filters)
    /\ p.visible \in Seq(Metacodes) /\ Once(p.visible)
    /\ In(p.visible) \subseteq p.filters

\* The metacodes of some topics.
LEMMA OfferedAreMetacodes ==
    ASSUME NEW T, T \subseteq Topics
    PROVE  {Metacode[t] : t \in T} \subseteq Metacodes /\ IsFiniteSet({Metacode[t] : t \in T})
  <1>1. IsFiniteSet(T)
    BY PageAssumption, FS_Subset
  <1> DEFINE M == {Metacode[t] : t \in T}
             f == [t \in T |-> Metacode[t]]
  <1>2. M \subseteq Metacodes
    BY PageAssumption
  <1>3. f \in Surjection(T, M)
    BY DEF Surjection
  <1> QED
    BY <1>1, <1>2, <1>3, FS_Surjection DEF ExistsSurjection

\* A sound page has what checkMetacodes relies on.
LEMMA SoundIsLoose ==
    ASSUME NEW p, Sound(p)
    PROVE  FilterLoose(p)
  BY OfferedAreMetacodes DEF Sound, DataSound, FilterSound, FilterLoose

\* After Filter.checkMetacodes the box offers the metacodes of the topics; nothing else changes.
LEMMA CheckMetacodesSound ==
    ASSUME NEW p, DOMAIN p = Fields, DataSound(p), FilterLoose(p)
    PROVE  LET q == checkMetacodes(p)
           IN  /\ DOMAIN q = Fields /\ SameData(p, q) /\ SameGraph(p, q) /\ SameSelection(p, q)
               /\ FilterSound(q) /\ q.threw = p.threw /\ q.out = p.out
  <1> DEFINE now == {Metacode[t] : t \in p.topics}
             kept == TakingOut!Folded(p.visible, p.visible, p.filters \ now)
             added == SetToSeq(now \ p.filters)
             q == checkMetacodes(p)
  <1>1. q = [p EXCEPT !.filters = now, !.visible = kept \o added]
    BY DEF checkMetacodes, FoldSet, MapThenFoldSet, TakeOut, AnyOf, TakingOut!Folded
  <1>2. now \subseteq Metacodes /\ IsFiniteSet(now)
    BY OfferedAreMetacodes DEF DataSound
  <1> HIDE DEF now, q
  <1>3. IsFiniteSet(p.filters \ now) /\ IsFiniteSet(now \ p.filters)
    BY <1>2, FS_Subset DEF FilterLoose
  <1>4. LeftVisible(p.visible, p.filters \ now, kept)
    BY <1>3, TakingOutWorks DEF FilterLoose
  <1>5. /\ kept \in Seq(Metacodes) /\ Once(kept)
        /\ In(kept) \subseteq p.filters /\ In(kept) \subseteq now
    BY <1>4 DEF LeftVisible, FilterLoose
  <1> HIDE DEF kept
  <1>6. added \in Seq(now \ p.filters) /\ In(added) = now \ p.filters /\ Once(added)
    BY <1>3, SequenceOf
  <1>7. added \in Seq(Metacodes)
    BY <1>2, <1>6, SeqMonotonic
  <1> HIDE DEF added
  <1>8. /\ kept \o added \in Seq(Metacodes) /\ In(kept \o added) \subseteq now
        /\ Once(kept \o added)
    BY <1>5, <1>6, <1>7, ConcatOnce
  <1>9. /\ DOMAIN q = Fields /\ q.topics = p.topics
        /\ q.filters = now /\ q.visible = kept \o added
    BY <1>1 DEF Fields
  <1>10. /\ SameData(p, q) /\ SameGraph(p, q) /\ SameSelection(p, q)
         /\ q.threw = p.threw /\ q.out = p.out
    BY <1>1 DEF Fields, SameData, SameGraph, SameSelection
  <1>11. FilterSound(q)
    BY <1>8, <1>9 DEF FilterSound, now
  <1> QED
    BY <1>9, <1>10, <1>11 DEF q

\* Both checks of the filters, on a page whose filters may be out of date.
LEMMA ChecksSound ==
    ASSUME NEW p, DOMAIN p = Fields, DataSound(p), GraphSound(p), SelectionSound(p),
           FilterLoose(p)
    PROVE  /\ Sound(Checks(p)) /\ SameGraph(p, Checks(p))
           /\ Checks(p).topics = p.topics
  <1> DEFINE q == checkMetacodes(p)
  <1>1. /\ DOMAIN q = Fields /\ SameData(p, q) /\ SameGraph(p, q) /\ SameSelection(p, q)
        /\ FilterSound(q)
    BY CheckMetacodesSound
  <1> HIDE DEF q
  <1>2. DataSound(q) /\ GraphSound(q) /\ SelectionSound(q)
    BY <1>1 DEF SameData, SameGraph, SameSelection, DataSound, GraphSound, SelectionSound, NodesAt
  <1>3. Sound(q)
    BY <1>1, <1>2 DEF Sound
  <1>4. Checks(p) = checkMappers(q)
    BY DEF Checks, q
  <1>5. Sound(checkMappers(q)) /\ SameGraph(q, checkMappers(q)) /\ checkMappers(q).topics = q.topics
    BY <1>3, CheckMappersSound
  <1> QED
    BY <1>1, <1>4, <1>5 DEF SameGraph, SameData

-----------------------------------------------------------------------------
\* The collections.

\* A topic put in the collection leaves the page sound and the edges alone.
LEMMA AddTopicSound ==
    ASSUME NEW p, Sound(p), NEW t \in Topics
    PROVE  Sound(AddTopic(p, t)) /\ AddTopic(p, t).edges = p.edges
  <1> DEFINE q == [p EXCEPT !.topics = @ \cup {t}, !.node[t] = None]
  <1>1. DOMAIN p = Fields /\ DataSound(p) /\ GraphSound(p) /\ SelectionSound(p) /\ FilterLoose(p)
    BY SoundIsLoose DEF Sound
  <1>2. /\ DOMAIN q = Fields /\ SameSelection(p, q) /\ SameFilter(p, q)
        /\ q.topics = p.topics \cup {t} /\ q.node = [p.node EXCEPT ![t] = None]
        /\ q.syns = p.syns /\ q.maps = p.maps /\ q.drafts = p.drafts
        /\ q.new = p.new /\ q.mappers = p.mappers
        /\ q.graph = p.graph /\ q.dim = p.dim /\ q.made = p.made
        /\ q.edges = p.edges /\ q.edge = p.edge /\ q.adj = p.adj /\ q.timers = p.timers
    BY <1>1 DEF Fields, SameSelection, SameFilter
  <1> HIDE DEF q
  <1>3. DataSound(q)
    BY <1>1, <1>2 DEF DataSound
  <1>4. GraphSound(q)
    <2>1. q.node \in [Topics -> NodeObject \cup {None}]
      BY <1>1, <1>2 DEF GraphSound
    <2> QED
      BY <1>1, <1>2, <2>1 DEF GraphSound, NodesAt
  <1>5. SelectionSound(q) /\ FilterLoose(q)
    BY <1>1, <1>2 DEF SelectionSound, FilterLoose, SameSelection, SameFilter
  <1>6. Sound(Checks(q)) /\ Checks(q).edges = p.edges
    BY <1>2, <1>3, <1>4, <1>5, ChecksSound DEF SameGraph
  <1>7. AddTopic(p, t) = IF t \in p.topics THEN p ELSE Checks(q)
    BY DEF AddTopic, q
  <1> QED
    BY <1>6, <1>7

\* Only the collections change, and then the filters are checked.
LEMMA ChecksAfter ==
    ASSUME NEW p, Sound(p), NEW q, DOMAIN q = Fields, DataSound(q),
           SameGraph(p, q), SameSelection(p, q), SameFilter(p, q)
    PROVE  Sound(Checks(q)) /\ SameGraph(p, Checks(q))
  <1>1. GraphSound(q) /\ SelectionSound(q) /\ FilterLoose(q)
    BY SoundIsLoose DEF Sound, GraphSound, SelectionSound, FilterLoose, SameGraph, SameSelection,
                        SameFilter, NodesAt
  <1>2. Sound(Checks(q)) /\ SameGraph(q, Checks(q))
    BY <1>1, ChecksSound
  <1> QED
    BY <1>2 DEF SameGraph

\* Topics.remove.
LEMMA RemoveTopicSound ==
    ASSUME NEW p, Sound(p), NEW t
    PROVE  Sound(RemoveTopic(p, t)) /\ SameGraph(p, RemoveTopic(p, t))
  <1> DEFINE q == [p EXCEPT !.topics = @ \ {t}]
  <1>1. DOMAIN q = Fields /\ DataSound(q) /\ SameGraph(p, q) /\ SameSelection(p, q) /\ SameFilter(p, q)
    BY DEF Sound, Fields, DataSound, SameGraph, SameSelection, SameFilter
  <1> HIDE DEF q
  <1>2. Sound(Checks(q)) /\ SameGraph(p, Checks(q))
    BY <1>1, ChecksAfter
  <1>3. RemoveTopic(p, t) = IF t \in p.topics THEN Checks(q) ELSE p
    BY DEF RemoveTopic, q
  <1> QED
    BY <1>2, <1>3 DEF SameGraph

\* Mappings.add, of a row of the server.
LEMMA AddMappingSound ==
    ASSUME NEW p, Sound(p), NEW r \in Range(table)
    PROVE  Sound(AddMapping(p, r)) /\ SameGraph(p, AddMapping(p, r))
  <1> DEFINE q == [p EXCEPT !.maps = @ \cup {r}]
  <1>1. DOMAIN q = Fields /\ DataSound(q) /\ SameGraph(p, q) /\ SameSelection(p, q) /\ SameFilter(p, q)
    BY DEF Sound, Fields, DataSound, SameGraph, SameSelection, SameFilter
  <1> HIDE DEF q
  <1>2. Sound(Checks(q)) /\ SameGraph(p, Checks(q))
    BY <1>1, ChecksAfter
  <1>3. AddMapping(p, r) = IF r \in p.maps THEN p ELSE Checks(q)
    BY DEF AddMapping, q
  <1> QED
    BY <1>2, <1>3 DEF SameGraph

\* Mappings.add, of a mapping not yet saved.
LEMMA AddDraftSound ==
    ASSUME NEW p, Sound(p), NEW x \in Items
    PROVE  Sound(AddDraft(p, x)) /\ SameGraph(p, AddDraft(p, x))
  <1> DEFINE q == [p EXCEPT !.drafts = @ \cup {x}]
  <1>1. DOMAIN q = Fields /\ DataSound(q) /\ SameGraph(p, q) /\ SameSelection(p, q) /\ SameFilter(p, q)
    BY DEF Sound, Fields, DataSound, SameGraph, SameSelection, SameFilter
  <1> HIDE DEF q
  <1>2. Sound(Checks(q)) /\ SameGraph(p, Checks(q))
    BY <1>1, ChecksAfter
  <1> QED
    BY <1>2 DEF AddDraft, q

\* Mappings.remove.
LEMMA RemoveMappingSound ==
    ASSUME NEW p, Sound(p), NEW x
    PROVE  Sound(RemoveMapping(p, x)) /\ SameGraph(p, RemoveMapping(p, x))
  <1> DEFINE q == [p EXCEPT !.maps = @ \ RowsOf(p, x), !.drafts = @ \ {x}]
  <1>1. DOMAIN q = Fields /\ DataSound(q) /\ SameGraph(p, q) /\ SameSelection(p, q) /\ SameFilter(p, q)
    BY DEF Sound, Fields, DataSound, SameGraph, SameSelection, SameFilter
  <1> HIDE DEF q
  <1>2. Sound(Checks(q)) /\ SameGraph(p, Checks(q))
    BY <1>1, ChecksAfter
  <1>3. RemoveMapping(p, x) = IF HasMapping(p, x) THEN Checks(q) ELSE p
    BY DEF RemoveMapping, q
  <1> QED
    BY <1>2, <1>3 DEF SameGraph

\* Synapses.add: a synapse that is not drawn yet.
LEMMA AddSynapseSound ==
    ASSUME NEW p, Sound(p), NEW s \in Synapses
    PROVE  Sound(AddSynapse(p, s)) /\ AddSynapse(p, s).edges = p.edges
  <1> DEFINE q == [p EXCEPT !.syns = @ \cup {s}, !.edge[s] = None]
  <1>1. DOMAIN p = Fields /\ DataSound(p) /\ GraphSound(p) /\ SelectionSound(p)
    BY DEF Sound
  <1>2. /\ DOMAIN q = Fields /\ SameFilter(p, q) /\ SameSelection(p, q)
        /\ q.syns = p.syns \cup {s} /\ q.edge = [p.edge EXCEPT ![s] = None]
        /\ q.topics = p.topics /\ q.maps = p.maps /\ q.drafts = p.drafts
        /\ q.new = p.new /\ q.mappers = p.mappers
        /\ q.graph = p.graph /\ q.dim = p.dim /\ q.made = p.made /\ q.node = p.node
        /\ q.edges = p.edges /\ q.adj = p.adj /\ q.timers = p.timers
    BY <1>1 DEF Fields, SameSelection, SameFilter
  <1> HIDE DEF q
  <1>3. DataSound(q)
    BY <1>1, <1>2 DEF DataSound
  <1>4. GraphSound(q)
    <2>1. q.edge \in [Synapses -> 1..Len(q.edges) \cup {None}]
      BY <1>1, <1>2 DEF GraphSound
    <2> QED
      BY <1>1, <1>2, <2>1 DEF GraphSound, NodesAt
  <1>5. SelectionSound(q) /\ FilterSound(q)
    BY <1>1, <1>2 DEF SelectionSound, FilterSound, SameSelection, SameFilter, Sound
  <1>6. Sound(q)
    BY <1>2, <1>3, <1>4, <1>5 DEF Sound
  <1>7. Sound(checkMappers(q)) /\ checkMappers(q).edges = p.edges
    BY <1>2, <1>6, CheckMappersSound DEF SameGraph
  <1>8. AddSynapse(p, s) = IF s \in p.syns THEN p ELSE checkMappers(q)
    BY DEF AddSynapse, q
  <1> QED
    BY <1>7, <1>8

\* Synapses.remove.
LEMMA RemoveSynapseSound ==
    ASSUME NEW p, Sound(p), NEW s
    PROVE  Sound(RemoveSynapse(p, s)) /\ SameGraph(p, RemoveSynapse(p, s))
  <1> DEFINE q == [p EXCEPT !.syns = @ \ {s}]
  <1>1. /\ DOMAIN q = Fields /\ DataSound(q) /\ SameGraph(p, q) /\ SameSelection(p, q)
        /\ q.topics = p.topics /\ SameFilter(p, q)
    BY DEF Sound, Fields, DataSound, SameGraph, SameSelection, SameFilter
  <1>2. FilterSound(q)
    BY <1>1 DEF Sound, FilterSound, SameFilter
  <1> HIDE DEF q
  <1>3. Sound(q)
    BY <1>1, <1>2, SoundAgain
  <1>4. Sound(checkMappers(q)) /\ SameGraph(q, checkMappers(q))
    BY <1>3, CheckMappersSound
  <1>5. RemoveSynapse(p, s) = IF s \in p.syns THEN checkMappers(q) ELSE p
    BY DEF RemoveSynapse, q
  <1> QED
    BY <1>1, <1>4, <1>5 DEF SameGraph

-----------------------------------------------------------------------------
\* The graph.

\* A node added, or already there, leaves the page sound; edges and adjacencies stay.
LEMMA addNodeSound ==
    ASSUME NEW p, Sound(p), NEW key \in PageKey
    PROVE  /\ Sound(addNode(p, key)) /\ NodesAt(addNode(p, key), key) # {}
           /\ p.graph \subseteq addNode(p, key).graph
           /\ addNode(p, key).edges = p.edges /\ addNode(p, key).adj = p.adj
  <1> DEFINE n == p.made[key[1]] + 1
             o == <<key[1], key[2], n>>
             q == [p EXCEPT !.made[key[1]] = n, !.graph = @ \cup {o}]
  <1>1. CASE NodesAt(p, key) # {}
    BY <1>1 DEF addNode
  <1>2. CASE NodesAt(p, key) = {}
    <2>1. /\ DOMAIN p = Fields /\ GraphSound(p)
          /\ key[1] \in Topics /\ key[2] \in BOOLEAN /\ key = <<key[1], key[2]>>
      BY DEF Sound, PageKey
    <2>2. /\ DOMAIN q = Fields /\ SameData(p, q) /\ SameFilter(p, q) /\ SameSelection(p, q)
          /\ q.graph = p.graph \cup {o} /\ q.made = [p.made EXCEPT ![key[1]] = n]
          /\ q.dim = p.dim /\ q.node = p.node
          /\ q.edges = p.edges /\ q.edge = p.edge /\ q.adj = p.adj /\ q.timers = p.timers
      BY <2>1 DEF Fields, SameSelection, SameFilter, SameData
    <2>3. n \in Nat /\ o \in NodeObject /\ Key(o) = key
      BY <2>1 DEF GraphSound, NodeObject, Key
    <2>4. addNode(p, key) = q
      BY <1>2 DEF addNode
    <2> HIDE DEF q, o, n
    <2>5. NodesAt(q, key) # {}
      BY <2>2, <2>3 DEF NodesAt
    <2>6. GraphSound(q)
      <3>1. q.graph \subseteq NodeObject /\ q.made \in [Topics -> Nat]
        BY <2>1, <2>2, <2>3 DEF GraphSound
      <3>2. \A e \in q.adj : \A k \in q.edges[e].ends : NodesAt(q, k) # {}
        BY <2>1, <2>2 DEF GraphSound, NodesAt
      <3> QED
        BY <2>1, <2>2, <3>1, <3>2 DEF GraphSound
    <2>7. SelectionSound(q) /\ FilterSound(q)
      BY <2>2 DEF Sound, SelectionSound, FilterSound, SameSelection, SameFilter, SameData
    <2> QED
      BY <2>2, <2>4, <2>5, <2>6, <2>7, SoundAgain
  <1> QED
    BY <1>1, <1>2

\* Graph.removeNode takes the edges of the node along, so that no edge is drawn without its ends.
LEMMA removeNodeSound ==
    ASSUME NEW p, Sound(p), NEW key
    PROVE  Sound(removeNode(p, key)) /\ removeNode(p, key).edges = p.edges
  <1> DEFINE q == removeNode(p, key)
  <1>1. DOMAIN p = Fields /\ GraphSound(p)
    BY DEF Sound
  <1>2. /\ DOMAIN q = Fields /\ SameData(p, q) /\ SameFilter(p, q) /\ SameSelection(p, q)
        /\ q.graph = p.graph \ NodesAt(p, key) /\ q.adj = p.adj \ EdgesOf(p, key)
        /\ q.dim = p.dim /\ q.node = p.node /\ q.made = p.made
        /\ q.edges = p.edges /\ q.edge = p.edge /\ q.timers = p.timers
    BY <1>1 DEF removeNode, Fields, SameSelection, SameFilter, SameData
  <1> HIDE DEF q
  <1>3. \A e \in q.adj : \A k \in q.edges[e].ends : NodesAt(q, k) # {}
    <2> SUFFICES ASSUME NEW e \in q.adj, NEW k \in q.edges[e].ends PROVE NodesAt(q, k) # {}
      OBVIOUS
    <2>1. e \in p.adj /\ k # key
      BY <1>2 DEF EdgesOf
    <2>2. PICK n \in p.graph : Key(n) = k
      BY <1>1, <1>2, <2>1 DEF GraphSound, NodesAt
    <2>3. n \in q.graph
      BY <1>2, <2>1, <2>2 DEF NodesAt
    <2> QED
      BY <2>2, <2>3 DEF NodesAt
  <1>4. GraphSound(q)
    BY <1>1, <1>2, <1>3 DEF GraphSound
  <1>5. SelectionSound(q) /\ FilterSound(q)
    BY <1>2 DEF Sound, SelectionSound, FilterSound, SameSelection, SameFilter, SameData
  <1> QED
    BY <1>2, <1>4, <1>5, SoundAgain DEF q

\* Graph.removeAdjacence.
LEMMA removeAdjacenceSound ==
    ASSUME NEW p, Sound(p), NEW keys
    PROVE  Sound(removeAdjacence(p, keys)) /\ removeAdjacence(p, keys).edges = p.edges
  <1> DEFINE q == removeAdjacence(p, keys)
  <1>1. DOMAIN p = Fields /\ GraphSound(p)
    BY DEF Sound
  <1>2. /\ DOMAIN q = Fields /\ SameData(p, q) /\ SameFilter(p, q) /\ SameSelection(p, q)
        /\ q.graph = p.graph /\ q.adj = p.adj \ EdgesAt(p, keys)
        /\ q.dim = p.dim /\ q.node = p.node /\ q.made = p.made
        /\ q.edges = p.edges /\ q.edge = p.edge /\ q.timers = p.timers
    BY <1>1 DEF removeAdjacence, Fields, SameSelection, SameFilter, SameData
  <1> HIDE DEF q
  <1>3. GraphSound(q)
    BY <1>1, <1>2 DEF GraphSound, NodesAt
  <1>4. SelectionSound(q) /\ FilterSound(q)
    BY <1>2 DEF Sound, SelectionSound, FilterSound, SameSelection, SameFilter, SameData
  <1> QED
    BY <1>2, <1>3, <1>4, SoundAgain DEF q

\* The timer that was set first ends.
LEMMA ElapseSound ==
    ASSUME NEW p, Sound(p), p.timers # <<>>
    PROVE  Sound(Elapse(p))
  <1> DEFINE keys == Head(p.timers)
             q == [p EXCEPT !.timers = Tail(@)]
  <1>1. DOMAIN p = Fields /\ GraphSound(p)
    BY DEF Sound
  <1>2. /\ DOMAIN q = Fields /\ SameData(p, q) /\ SameFilter(p, q) /\ SameSelection(p, q)
        /\ q.graph = p.graph /\ q.adj = p.adj
        /\ q.dim = p.dim /\ q.node = p.node /\ q.made = p.made
        /\ q.edges = p.edges /\ q.edge = p.edge /\ q.timers = Tail(p.timers)
    BY <1>1 DEF Fields, SameSelection, SameFilter, SameData
  <1>3. Elapse(p) = IF \E key \in keys : keys = {key}
                    THEN removeNode(q, CHOOSE key \in keys : TRUE) ELSE removeAdjacence(q, keys)
    BY DEF Elapse
  <1> HIDE DEF q, keys
  <1>4. q.timers \in Seq(SUBSET PageKey)
    BY <1>1, <1>2, HeadTailProperties DEF GraphSound
  <1>5. GraphSound(q)
    BY <1>1, <1>2, <1>4 DEF GraphSound, NodesAt
  <1>6. SelectionSound(q) /\ FilterSound(q)
    BY <1>2 DEF Sound, SelectionSound, FilterSound, SameSelection, SameFilter, SameData
  <1>7. Sound(q)
    BY <1>2, <1>5, <1>6, SoundAgain
  <1> QED
    BY <1>3, <1>7, removeNodeSound, removeAdjacenceSound

\* Graph.addAdjacence: there is one edge between the two nodes afterwards, and both nodes.
LEMMA addAdjacenceSound ==
    ASSUME NEW p, Sound(p), NEW k1 \in PageKey, NEW k2 \in PageKey
    PROVE  /\ Sound(addAdjacence(p, k1, k2))
           /\ EdgesAt(addAdjacence(p, k1, k2), {k1, k2}) # {}
  <1> DEFINE a == addNode(p, k1)
             q == addNode(a, k2)
             new == [ends |-> {k1, k2}, syns |-> <<>>, maps |-> <<>>, shown |-> 0]
             r == [q EXCEPT !.edges = Append(@, new), !.adj = @ \cup {Len(q.edges) + 1}]
  <1>1. Sound(a) /\ NodesAt(a, k1) # {}
    BY addNodeSound
  <1>2. Sound(q) /\ NodesAt(q, k2) # {} /\ a.graph \subseteq q.graph
    BY <1>1, addNodeSound
  <1>3. NodesAt(q, k1) # {}
    BY <1>1, <1>2 DEF NodesAt
  <1>4. addAdjacence(p, k1, k2) = IF EdgesAt(q, {k1, k2}) # {} THEN q ELSE r
    BY DEF addAdjacence
  <1>5. DOMAIN q = Fields /\ GraphSound(q) /\ SelectionSound(q)
    BY <1>2 DEF Sound
  <1> HIDE DEF a, q
  <1>6. /\ DOMAIN r = Fields /\ SameData(q, r) /\ SameFilter(q, r) /\ SameSelection(q, r)
        /\ r.graph = q.graph /\ r.adj = q.adj \cup {Len(q.edges) + 1}
        /\ r.edges = Append(q.edges, new)
        /\ r.dim = q.dim /\ r.node = q.node /\ r.made = q.made
        /\ r.edge = q.edge /\ r.timers = q.timers
    BY <1>5 DEF Fields, SameSelection, SameFilter, SameData
  <1>7. new \in Edge /\ EdgeSound(new)
    <2>1. new \in Edge
      BY EmptySeq DEF Edge, PageKey
    <2>2. IsFiniteSet({k1, k2})
      BY PairIsFinite
    <2> QED
      BY <2>1, <2>2, EmptySeq DEF EdgeSound
  <1>8. new.ends = {k1, k2}
    OBVIOUS
  <1> HIDE DEF r, new
  <1>9. /\ Len(q.edges) \in Nat /\ r.edges \in Seq(Edge) /\ Len(r.edges) = Len(q.edges) + 1
        /\ \A e \in 1..Len(q.edges) : r.edges[e] = q.edges[e]
        /\ r.edges[Len(q.edges) + 1] = new
    BY <1>5, <1>6, <1>7, AppendProperties, LenProperties DEF GraphSound
  <1>10. \A e \in 1..Len(r.edges) : e \in 1..Len(q.edges) \/ e = Len(q.edges) + 1
    BY <1>9
  <1>11. 1..Len(q.edges) \subseteq 1..Len(r.edges) /\ Len(q.edges) + 1 \in 1..Len(r.edges)
    BY <1>9
  <1>12. GraphSound(r)
    <2>1. \A e \in 1..Len(r.edges) : EdgeSound(r.edges[e])
      BY <1>5, <1>7, <1>9, <1>10 DEF GraphSound
    <2>2. r.edge \in [Synapses -> 1..Len(r.edges) \cup {None}]
      BY <1>5, <1>6, <1>11 DEF GraphSound
    <2>3. r.adj \subseteq 1..Len(r.edges)
      BY <1>5, <1>6, <1>11 DEF GraphSound
    <2>4. \A e \in r.adj : \A key \in r.edges[e].ends : NodesAt(r, key) # {}
      <3> SUFFICES ASSUME NEW e \in r.adj, NEW key \in r.edges[e].ends PROVE NodesAt(q, key) # {}
        BY <1>6 DEF NodesAt
      <3>1. CASE e \in q.adj
        <4>1. e \in 1..Len(q.edges) /\ key \in q.edges[e].ends
          BY <1>5, <1>9, <3>1 DEF GraphSound
        <4> QED
          BY <1>5, <3>1, <4>1 DEF GraphSound
      <3>2. CASE e = Len(q.edges) + 1
        BY <1>2, <1>3, <1>8, <1>9, <3>2
      <3> QED
        BY <1>6, <3>1, <3>2
    <2> QED
      BY <1>5, <1>6, <1>9, <2>1, <2>2, <2>3, <2>4 DEF GraphSound
  <1>13. SelectionSound(r)
    BY <1>5, <1>6, <1>11 DEF SelectionSound, SameSelection
  <1>14. Sound(r)
    BY <1>2, <1>6, <1>12, <1>13, SoundAgain
  <1>15. EdgesAt(r, {k1, k2}) # {}
    BY <1>6, <1>8, <1>9 DEF EdgesAt
  <1> QED
    BY <1>2, <1>4, <1>14, <1>15

-----------------------------------------------------------------------------
\* The selection.

\* Soundness of the selection is all that a change of the selection has to show again.
LEMMA SelectionAgain ==
    ASSUME NEW p, NEW q, Sound(p), DOMAIN q = Fields, SameData(p, q), SameGraph(p, q),
           SameFilter(p, q), SelectionSound(q)
    PROVE  Sound(q)
  BY SoundAgain

\* Control.selectNode: a node is not selected twice.
LEMMA selectNodeSound ==
    ASSUME NEW p, Sound(p), NEW n \in NodeObject
    PROVE  Sound(selectNode(p, n)) /\ SameGraph(p, selectNode(p, n))
  <1> DEFINE q == [p EXCEPT !.marked = @ \cup {n}, !.selN = Append(@, n)]
  <1>1. CASE n \in p.dim \/ Contains(p.selN, n)
    BY <1>1 DEF selectNode, SameGraph
  <1>2. CASE ~(n \in p.dim \/ Contains(p.selN, n))
    <2>1. DOMAIN p = Fields /\ SelectionSound(p)
      BY DEF Sound
    <2>2. /\ DOMAIN q = Fields /\ SameData(p, q) /\ SameGraph(p, q) /\ SameFilter(p, q)
          /\ q.marked = p.marked \cup {n} /\ q.selN = Append(p.selN, n)
          /\ q.selE = p.selE /\ q.slipped = p.slipped /\ q.edges = p.edges
      BY <2>1 DEF Fields, SameData, SameGraph, SameFilter
    <2>3. selectNode(p, n) = q
      BY <1>2 DEF selectNode
    <2> HIDE DEF q
    <2>4. n \notin In(p.selN)
      BY <1>2, <2>1, InIsRange DEF SelectionSound
    <2>5. q.selN \in Seq(NodeObject) /\ In(q.selN) = In(p.selN) \cup {n} /\ Once(q.selN)
      BY <2>1, <2>2, <2>4, AppendOnce DEF SelectionSound
    <2>6. SelectionSound(q)
      BY <2>1, <2>2, <2>5 DEF SelectionSound
    <2> QED
      BY <2>2, <2>3, <2>6, SelectionAgain
  <1> QED
    BY <1>1, <1>2

\* Control.deselectNode: what a splice at -1 takes off stays marked, and has slipped.
LEMMA deselectNodeSound ==
    ASSUME NEW p, Sound(p), NEW n
    PROVE  Sound(deselectNode(p, n)) /\ SameGraph(p, deselectNode(p, n))
  <1> DEFINE q == deselectNode(p, n)
  <1>1. DOMAIN p = Fields /\ SelectionSound(p)
    BY DEF Sound
  <1>2. /\ DOMAIN q = Fields /\ SameData(p, q) /\ SameGraph(p, q) /\ SameFilter(p, q)
        /\ q.marked = p.marked \ {n} /\ q.selN = Spliced(p.selN, n) /\ q.edges = p.edges
        /\ q.selE = p.selE
        /\ q.slipped = (p.slipped \/ (p.selN # <<>> /\ ~Contains(p.selN, n)))
    BY <1>1 DEF deselectNode, Fields, SameData, SameGraph, SameFilter
  <1> HIDE DEF q
  <1>3. /\ q.selN \in Seq(NodeObject) /\ In(q.selN) \subseteq In(p.selN) /\ Once(q.selN)
        /\ n \notin In(q.selN)
        /\ n \in In(p.selN) => In(p.selN) \subseteq In(q.selN) \cup {n}
        /\ p.selN = <<>> => In(p.selN) = {}
    <2> DEFINE s == p.selN
    <2>1. s \in Seq(NodeObject) /\ Once(s) /\ q.selN = Spliced(s, n)
      BY <1>1, <1>2 DEF SelectionSound
    <2> HIDE DEF s
    <2>2. /\ Spliced(s, n) \in Seq(NodeObject) /\ In(Spliced(s, n)) \subseteq In(s)
          /\ Once(Spliced(s, n)) /\ n \notin In(Spliced(s, n))
          /\ n \in In(s) => In(s) \subseteq In(Spliced(s, n)) \cup {n}
          /\ s = <<>> => In(s) = {}
      BY <2>1, SplicedKeeps
    <2> QED
      BY <2>1, <2>2 DEF s
  <1>4. Contains(p.selN, n) <=> n \in In(p.selN)
    BY <1>1, InIsRange DEF SelectionSound
  <1>5. ~q.slipped => q.marked \subseteq In(q.selN)
    BY <1>1, <1>2, <1>3, <1>4 DEF SelectionSound
  <1>6. SelectionSound(q)
    BY <1>1, <1>2, <1>3, <1>5 DEF SelectionSound
  <1> QED
    BY <1>2, <1>6, SelectionAgain DEF q

\* Control.selectEdge: an edge is not selected twice.
LEMMA selectEdgeSound ==
    ASSUME NEW p, Sound(p), NEW e \in 1..Len(p.edges)
    PROVE  Sound(selectEdge(p, e)) /\ SameGraph(p, selectEdge(p, e))
  <1> DEFINE q == [p EXCEPT !.selE = Append(@, e)]
  <1>1. CASE Contains(p.selE, e)
    BY <1>1 DEF selectEdge, SameGraph
  <1>2. CASE ~Contains(p.selE, e)
    <2>1. DOMAIN p = Fields /\ SelectionSound(p) /\ GraphSound(p)
      BY DEF Sound
    <2>2. /\ DOMAIN q = Fields /\ SameData(p, q) /\ SameGraph(p, q) /\ SameFilter(p, q)
          /\ q.marked = p.marked /\ q.selN = p.selN
          /\ q.selE = Append(p.selE, e) /\ q.slipped = p.slipped /\ q.edges = p.edges
      BY <2>1 DEF Fields, SameData, SameGraph, SameFilter
    <2>3. selectEdge(p, e) = q
      BY <1>2 DEF selectEdge
    <2> HIDE DEF q
    <2>4. e \notin In(p.selE) /\ e \in Nat
      <3>1. Len(p.edges) \in Nat
        BY <2>1, LenProperties DEF GraphSound
      <3> QED
        BY <1>2, <2>1, <3>1, InIsRange DEF SelectionSound
    <2>5. q.selE \in Seq(Nat) /\ In(q.selE) = In(p.selE) \cup {e} /\ Once(q.selE)
      BY <2>1, <2>2, <2>4, AppendOnce DEF SelectionSound
    <2>6. SelectionSound(q)
      BY <2>1, <2>2, <2>5 DEF SelectionSound
    <2> QED
      BY <2>2, <2>3, <2>6, SelectionAgain
  <1> QED
    BY <1>1, <1>2

\* Control.deselectEdge: whatever the splice takes off.
LEMMA deselectEdgeSound ==
    ASSUME NEW p, Sound(p), NEW e
    PROVE  Sound(deselectEdge(p, e)) /\ SameGraph(p, deselectEdge(p, e))
  <1> DEFINE q == deselectEdge(p, e)
  <1>1. DOMAIN p = Fields /\ SelectionSound(p)
    BY DEF Sound
  <1>2. /\ DOMAIN q = Fields /\ SameData(p, q) /\ SameGraph(p, q) /\ SameFilter(p, q)
        /\ q.marked = p.marked /\ q.selN = p.selN
        /\ q.selE = Spliced(p.selE, e) /\ q.slipped = p.slipped /\ q.edges = p.edges
    BY <1>1 DEF deselectEdge, Fields, SameData, SameGraph, SameFilter
  <1> HIDE DEF q
  <1>3. q.selE \in Seq(Nat) /\ In(q.selE) \subseteq In(p.selE) /\ Once(q.selE)
    BY <1>1, <1>2, SplicedKeeps DEF SelectionSound
  <1>4. SelectionSound(q)
    BY <1>1, <1>2, <1>3 DEF SelectionSound
  <1> QED
    BY <1>2, <1>4, SelectionAgain DEF q

\* Clearing the selected edges, at the end of a turn over them.
LEMMA NoEdgesSelected ==
    ASSUME NEW p, Sound(p)
    PROVE  Sound([p EXCEPT !.selE = <<>>])
  <1> DEFINE q == [p EXCEPT !.selE = <<>>]
  <1>1. DOMAIN p = Fields /\ SelectionSound(p)
    BY DEF Sound
  <1>2. /\ DOMAIN q = Fields /\ SameData(p, q) /\ SameGraph(p, q) /\ SameFilter(p, q)
        /\ q.marked = p.marked /\ q.selN = p.selN
        /\ q.selE = <<>> /\ q.slipped = p.slipped /\ q.edges = p.edges
    BY <1>1 DEF Fields, SameData, SameGraph, SameFilter
  <1> HIDE DEF q
  <1>3. <<>> \in Seq(Nat) /\ In(<<>>) = {} /\ Once(<<>>)
    BY EmptySeq DEF In, Once
  <1>4. SelectionSound(q)
    BY <1>1, <1>2, <1>3 DEF SelectionSound
  <1>5. Sound(q)
    BY <1>2, <1>4, SelectionAgain
  <1> QED
    BY <1>5 DEF q

-----------------------------------------------------------------------------
\* Hiding, removing and deleting.

\* The number of edges there have been, by which the selection names them.
Edges(p) == Len(p.edges)

\* The checks on a sound page.
LEMMA ChecksAgain ==
    ASSUME NEW p, Sound(p)
    PROVE  Sound(Checks(p)) /\ SameGraph(p, Checks(p))
  BY ChecksAfter DEF Sound, SameGraph, SameSelection, SameFilter

\* A timer is set.
LEMMA TimerSound ==
    ASSUME NEW p, Sound(p), NEW keys \in SUBSET PageKey
    PROVE  LET q == [p EXCEPT !.timers = Append(@, keys)]
           IN  Sound(q) /\ q.edges = p.edges
  <1> DEFINE q == [p EXCEPT !.timers = Append(@, keys)]
  <1>1. DOMAIN p = Fields /\ GraphSound(p)
    BY DEF Sound
  <1>2. /\ DOMAIN q = Fields /\ SameData(p, q) /\ SameFilter(p, q) /\ SameSelection(p, q)
        /\ q.graph = p.graph /\ q.adj = p.adj
        /\ q.dim = p.dim /\ q.node = p.node /\ q.made = p.made
        /\ q.edges = p.edges /\ q.edge = p.edge /\ q.timers = Append(p.timers, keys)
    BY <1>1 DEF Fields, SameSelection, SameFilter, SameData
  <1> HIDE DEF q
  <1>3. q.timers \in Seq(SUBSET PageKey)
    BY <1>1, <1>2, AppendProperties DEF GraphSound
  <1>4. GraphSound(q)
    BY <1>1, <1>2, <1>3 DEF GraphSound, NodesAt
  <1>5. SelectionSound(q) /\ FilterSound(q)
    BY <1>2 DEF Sound, SelectionSound, FilterSound, SameSelection, SameFilter, SameData
  <1>6. Sound(q)
    BY <1>2, <1>4, <1>5, SoundAgain
  <1> QED
    BY <1>2, <1>6 DEF q

\* Control.hideNode.
LEMMA hideNodeSound ==
    ASSUME NEW p, Sound(p), NEW key
    PROVE  Sound(hideNode(p, key)) /\ hideNode(p, key).edges = p.edges
  <1> DEFINE q == deselectNode(p, NodeAt(p, key))
             r == [q EXCEPT !.timers = Append(@, {key})]
  <1>1. CASE NodesAt(p, key) = {}
    BY <1>1, ThrowSound DEF hideNode, SameGraph
  <1>2. CASE NodesAt(p, key) # {}
    <2>1. key \in PageKey
      <3>1. PICK n \in p.graph : Key(n) = key
        BY <1>2 DEF NodesAt
      <3> QED
        BY <3>1 DEF Sound, GraphSound, NodeObject, Key, PageKey
    <2>2. Sound(q) /\ q.edges = p.edges
      BY deselectNodeSound DEF SameGraph
    <2>3. hideNode(p, key) = Checks(r)
      BY <1>2 DEF hideNode
    <2> HIDE DEF q
    <2>4. Sound(r) /\ r.edges = q.edges
      BY <2>1, <2>2, TimerSound
    <2> HIDE DEF r
    <2> QED
      BY <2>2, <2>3, <2>4, ChecksAgain DEF SameGraph
  <1> QED
    BY <1>1, <1>2

\* Control.hideEdge.
LEMMA hideEdgeSound ==
    ASSUME NEW p, Sound(p), NEW e \in 1..Edges(p)
    PROVE  Sound(hideEdge(p, e)) /\ hideEdge(p, e).edges = p.edges
  <1> DEFINE q == deselectEdge(p, e)
             r == [q EXCEPT !.timers = Append(@, p.edges[e].ends)]
  <1>1. p.edges[e].ends \in SUBSET PageKey
    <2>1. EdgeSound(p.edges[e])
      BY DEF Sound, GraphSound, Edges
    <2> QED
      BY <2>1 DEF EdgeSound, Edge, PageKey
  <1>2. Sound(q) /\ q.edges = p.edges
    BY deselectEdgeSound DEF SameGraph
  <1>3. hideEdge(p, e) = checkMappers(r)
    BY DEF hideEdge
  <1> HIDE DEF q
  <1>4. Sound(r) /\ r.edges = q.edges
    BY <1>1, <1>2, TimerSound
  <1> HIDE DEF r
  <1> QED
    BY <1>2, <1>3, <1>4, CheckMappersSound DEF SameGraph

\* An edge is hidden with its last synapse.
LEMMA HideIfLastSound ==
    ASSUME NEW p, Sound(p), NEW e \in 1..Edges(p), NEW list
    PROVE  Sound(HideIfLast(p, e, list)) /\ HideIfLast(p, e, list).edges = p.edges
  BY hideEdgeSound DEF HideIfLast

\* Replacing an edge by a sound one.
LEMMA EdgeReplaced ==
    ASSUME NEW p, Sound(p), NEW q, DOMAIN q = Fields, NEW e \in 1..Edges(p), NEW new,
           EdgeSound(new), new.ends = p.edges[e].ends,
           SameData(p, q), SameFilter(p, q), SameSelection(p, q),
           q.graph = p.graph, q.adj = p.adj, q.dim = p.dim, q.node = p.node, q.made = p.made,
           q.edge \in [Synapses -> 1..Edges(p) \cup {None}],
           q.timers = p.timers, q.edges = [p.edges EXCEPT ![e] = new]
    PROVE  Sound(q) /\ Edges(q) = Edges(p)
  <1>1. GraphSound(p) /\ new \in Edge
    BY DEF Sound, EdgeSound
  <1>2. q.edges \in Seq(Edge) /\ Len(q.edges) = Len(p.edges)
    BY <1>1, ExceptSeq DEF GraphSound, Edges
  <1>3. \A i \in 1..Len(p.edges) : q.edges[i] = IF i = e THEN new ELSE p.edges[i]
    BY <1>1, ExceptSeq DEF GraphSound, Edges
  <1>4. \A i \in 1..Len(q.edges) : EdgeSound(q.edges[i])
    BY <1>1, <1>2, <1>3 DEF GraphSound
  <1>5. \A i \in 1..Len(p.edges) : q.edges[i].ends = p.edges[i].ends
    BY <1>3
  <1>6. \A i \in q.adj : \A key \in q.edges[i].ends : NodesAt(q, key) # {}
    <2> SUFFICES ASSUME NEW i \in p.adj, NEW key \in p.edges[i].ends PROVE NodesAt(p, key) # {}
      BY <1>1, <1>5 DEF GraphSound, NodesAt
    <2> QED
      BY <1>1 DEF GraphSound
  <1>7. GraphSound(q)
    BY <1>1, <1>2, <1>4, <1>6 DEF GraphSound, Edges
  <1>8. SelectionSound(q)
    BY <1>2 DEF Sound, SelectionSound, SameSelection
  <1> QED
    BY <1>2, <1>7, <1>8, SoundAgain DEF Edges

\* The two lists of an edge are spliced by one index, and it shows its first synapse.
LEMMA DropAtSound ==
    ASSUME NEW p, Sound(p), NEW e \in 1..Edges(p), NEW i
    PROVE  Sound(DropAt(p, e, i)) /\ Edges(DropAt(p, e, i)) = Edges(p)
  <1> DEFINE old == p.edges[e]
             less == [old EXCEPT !.syns = RemoveAt(@, i), !.maps = RemoveAt(@, i), !.shown = 0]
             first == [old EXCEPT !.shown = 0]
             new == IF i \in DOMAIN old.syns THEN less ELSE first
             q == DropAt(p, e, i)
  <1>1. DOMAIN p = Fields /\ GraphSound(p) /\ old \in Edge /\ EdgeSound(old)
    BY ElementOfSeq DEF Sound, GraphSound, Edges
  <1>2. e \in DOMAIN p.edges
    BY <1>1 DEF GraphSound, Edges
  <1>3. q = [p EXCEPT !.edges = [p.edges EXCEPT ![e] = new]]
    BY <1>1, <1>2 DEF DropAt, Edge, Fields
  <1>4. EdgeSound(new) /\ new.ends = old.ends
    <2>1. CASE i \in DOMAIN old.syns
      <3>1. /\ old.syns \in Seq(Synapses) /\ old.maps \in Seq(Synapses \cup {None})
            /\ i \in 1..Len(old.syns) /\ i \in 1..Len(old.maps) /\ Len(old.maps) = Len(old.syns)
        BY <1>1, <2>1 DEF Edge, EdgeSound
      <3>2. /\ RemoveAt(old.syns, i) \in Seq(Synapses)
            /\ Len(RemoveAt(old.syns, i)) = Len(old.syns) - 1
            /\ RemoveAt(old.maps, i) \in Seq(Synapses \cup {None})
            /\ Len(RemoveAt(old.maps, i)) = Len(old.maps) - 1
        BY <3>1, RemovedAt
      <3>3. new = less
        BY <2>1
      <3>4. /\ less \in Edge /\ less.ends = old.ends /\ less.shown = 0
            /\ less.syns = RemoveAt(old.syns, i) /\ less.maps = RemoveAt(old.maps, i)
        BY <1>1, <3>2 DEF Edge
      <3> HIDE DEF less, old, new
      <3> QED
        BY <1>1, <3>1, <3>2, <3>3, <3>4 DEF EdgeSound
    <2>2. CASE i \notin DOMAIN old.syns
      <3>1. new = first /\ first \in Edge /\ first.shown = 0 /\ first.ends = old.ends
            /\ first.syns = old.syns /\ first.maps = old.maps
        BY <1>1, <2>2 DEF Edge
      <3> QED
        BY <1>1, <3>1 DEF EdgeSound
    <2> QED
      BY <2>1, <2>2
  <1> HIDE DEF new, old, q
  <1>5. /\ DOMAIN q = Fields /\ SameData(p, q) /\ SameFilter(p, q) /\ SameSelection(p, q)
        /\ q.graph = p.graph /\ q.adj = p.adj
        /\ q.dim = p.dim /\ q.node = p.node /\ q.made = p.made
        /\ q.edges = [p.edges EXCEPT ![e] = new] /\ q.edge = p.edge /\ q.timers = p.timers
    BY <1>1, <1>3 DEF Fields, SameSelection, SameFilter, SameData
  <1>6. q.edge \in [Synapses -> 1..Edges(p) \cup {None}]
    BY <1>1, <1>5 DEF GraphSound, Edges
  <1>7. Sound(q) /\ Edges(q) = Edges(p)
    BY <1>4, <1>5, <1>6, EdgeReplaced DEF old
  <1> QED
    BY <1>7 DEF q

\* A request is sent.
LEMMA OutSound ==
    ASSUME NEW p, Sound(p), NEW o
    PROVE  Sound([p EXCEPT !.out = o]) /\ SameGraph(p, [p EXCEPT !.out = o])
  <1> DEFINE q == [p EXCEPT !.out = o]
  <1>1. DOMAIN p = Fields
    BY DEF Sound
  <1>2. DOMAIN q = Fields /\ SameData(p, q) /\ SameGraph(p, q) /\ SameSelection(p, q) /\ SameFilter(p, q)
    BY <1>1 DEF Fields, SameData, SameGraph, SameSelection, SameFilter
  <1> HIDE DEF q
  <1>3. Sound(q)
    BY <1>2, SoundAgain
  <1> QED
    BY <1>2, <1>3 DEF q

\* mapping.destroy(): the request is sent, the mapping leaves its collection.
LEMMA DestroyMappingSound ==
    ASSUME NEW p, Sound(p), NEW x
    PROVE  Sound(DestroyMapping(p, x)) /\ DestroyMapping(p, x).edges = p.edges
  <1> DEFINE o == p.out \cup {<<"unmap", r.id>> : r \in RowsOf(p, x)}
             q == [p EXCEPT !.out = o]
  <1>1. Sound(q) /\ q.edges = p.edges
    BY OutSound DEF SameGraph
  <1>2. DestroyMapping(p, x) = RemoveMapping(q, x)
    BY DEF DestroyMapping
  <1> HIDE DEF q
  <1> QED
    BY <1>1, <1>2, RemoveMappingSound DEF SameGraph

\* model.destroy(): the request is sent, if the model was ever saved.
LEMMA DestroyedSound ==
    ASSUME NEW p, Sound(p), NEW x
    PROVE  Sound(Destroyed(p, x)) /\ Destroyed(p, x).edges = p.edges
  <1> DEFINE o == p.out \cup {<<"destroy", x>>}
  <1>1. Sound([p EXCEPT !.out = o]) /\ [p EXCEPT !.out = o].edges = p.edges
    BY OutSound DEF SameGraph
  <1> QED
    BY <1>1 DEF Destroyed

\* Control.removeEdge, wherever it throws.
LEMMA removeEdgeSound ==
    ASSUME NEW p, Sound(p), NEW e \in 1..Edges(p)
    PROVE  Sound(removeEdge(p, e)) /\ Edges(removeEdge(p, e)) = Edges(p)
  <1> DEFINE i == p.edges[e].shown + 1
             s == p.edges[e].syns[i]
             a == HideIfLast(p, e, p.edges[e].maps)
             b == IF a.threw THEN a
                  ELSE IF i \in DOMAIN p.edges[e].maps /\ p.edges[e].maps[i] # None
                       THEN DestroyMapping(a, s) ELSE Throw(a)
             c == IF b.threw THEN b ELSE RemoveSynapse(b, s)
             d == IF c.threw THEN c ELSE DropAt(c, e, i)
  <1>1. removeEdge(p, e) = d
    BY DEF removeEdge, Then
  <1>2. Sound(a) /\ Edges(a) = Edges(p)
    BY HideIfLastSound DEF Edges
  <1> HIDE DEF a, i, s
  <1>3. Sound(b) /\ Edges(b) = Edges(p)
    BY <1>2, DestroyMappingSound, ThrowSound DEF Edges, SameGraph
  <1> HIDE DEF b
  <1>4. Sound(c) /\ Edges(c) = Edges(p)
    BY <1>3, RemoveSynapseSound DEF Edges, SameGraph
  <1> HIDE DEF c
  <1>5. Sound(d) /\ Edges(d) = Edges(p)
    <2>1. e \in 1..Edges(c)
      BY <1>4
    <2> QED
      BY <1>4, <2>1, DropAtSound
  <1> QED
    BY <1>1, <1>5

\* Control.deleteEdge, wherever it throws.
LEMMA deleteEdgeSound ==
    ASSUME NEW p, Sound(p), NEW e \in 1..Edges(p)
    PROVE  Sound(deleteEdge(p, e)) /\ Edges(deleteEdge(p, e)) = Edges(p)
  <1> DEFINE i == p.edges[e].shown + 1
             s == p.edges[e].syns[i]
             a == HideIfLast(p, e, p.edges[e].syns)
             b == IF a.threw THEN a ELSE RemoveSynapse(Destroyed(a, s), s)
             c == IF b.threw THEN b ELSE RemoveMapping(b, s)
             d == IF c.threw THEN c ELSE DropAt(c, e, i)
  <1>1. deleteEdge(p, e) = IF i \notin DOMAIN p.edges[e].syns THEN Throw(p)
                           ELSE IF s \notin Own THEN p ELSE d
    BY DEF deleteEdge, Then
  <1>2. Sound(a) /\ Edges(a) = Edges(p)
    BY HideIfLastSound DEF Edges
  <1> HIDE DEF a, i, s
  <1>3. Sound(b) /\ Edges(b) = Edges(p)
    <2> DEFINE h == Destroyed(a, s)
    <2>1. Sound(h) /\ Edges(h) = Edges(p)
      BY <1>2, DestroyedSound DEF Edges
    <2> HIDE DEF h
    <2>2. Sound(RemoveSynapse(h, s)) /\ Edges(RemoveSynapse(h, s)) = Edges(p)
      BY <2>1, RemoveSynapseSound DEF Edges, SameGraph
    <2> QED
      BY <1>2, <2>2 DEF h
  <1> HIDE DEF b
  <1>4. Sound(c) /\ Edges(c) = Edges(p)
    BY <1>3, RemoveMappingSound DEF Edges, SameGraph
  <1> HIDE DEF c
  <1>5. Sound(d) /\ Edges(d) = Edges(p)
    <2>1. e \in 1..Edges(c)
      BY <1>4
    <2> QED
      BY <1>4, <2>1, DropAtSound
  <1> HIDE DEF d
  <1>6. Sound(Throw(p)) /\ Edges(Throw(p)) = Edges(p)
    BY ThrowSound DEF Edges, SameGraph
  <1> QED
    BY <1>1, <1>5, <1>6

\* Control.removeNode, wherever it throws.
LEMMA removeNodeFromMapSound ==
    ASSUME NEW p, Sound(p), NEW n
    PROVE  Sound(removeNodeFromMap(p, n)) /\ Edges(removeNodeFromMap(p, n)) = Edges(p)
  <1> DEFINE a == DestroyMapping(p, n[1])
             b == IF a.threw THEN a ELSE RemoveTopic(a, n[1])
             c == IF b.threw THEN b ELSE hideNode(b, Key(n))
  <1>1. removeNodeFromMap(p, n) = IF NodesAt(p, Key(n)) = {} THEN Throw(p) ELSE c
    BY DEF removeNodeFromMap, Then
  <1>2. Sound(a) /\ Edges(a) = Edges(p)
    BY DestroyMappingSound DEF Edges
  <1> HIDE DEF a
  <1>3. Sound(b) /\ Edges(b) = Edges(p)
    BY <1>2, RemoveTopicSound DEF Edges, SameGraph
  <1> HIDE DEF b
  <1>4. Sound(c) /\ Edges(c) = Edges(p)
    BY <1>3, hideNodeSound DEF Edges
  <1> HIDE DEF c
  <1>5. Sound(Throw(p)) /\ Edges(Throw(p)) = Edges(p)
    BY ThrowSound DEF Edges, SameGraph
  <1> QED
    BY <1>1, <1>4, <1>5

\* Control.deleteNode, wherever it throws.
LEMMA deleteNodeSound ==
    ASSUME NEW p, Sound(p), NEW n
    PROVE  Sound(deleteNode(p, n)) /\ Edges(deleteNode(p, n)) = Edges(p)
  <1> DEFINE o == Destroyed(p, n[1])
             a == RemoveTopic(o, n[1])
             b == IF a.threw THEN a ELSE RemoveMapping(a, n[1])
             c == IF b.threw THEN b ELSE hideNode(b, Key(n))
  <1>1. deleteNode(p, n) = IF NodesAt(p, Key(n)) = {} THEN Throw(p)
                           ELSE IF n[1] \notin Own THEN p ELSE c
    BY DEF deleteNode, Then
  <1>2. Sound(o) /\ Edges(o) = Edges(p)
    BY DestroyedSound DEF Edges
  <1> HIDE DEF o
  <1>3. Sound(a) /\ Edges(a) = Edges(p)
    BY <1>2, RemoveTopicSound DEF Edges, SameGraph
  <1> HIDE DEF a
  <1>4. Sound(b) /\ Edges(b) = Edges(p)
    BY <1>3, RemoveMappingSound DEF Edges, SameGraph
  <1> HIDE DEF b
  <1>5. Sound(c) /\ Edges(c) = Edges(p)
    BY <1>4, hideNodeSound DEF Edges
  <1> HIDE DEF c
  <1>6. Sound(Throw(p)) /\ Edges(Throw(p)) = Edges(p)
    BY ThrowSound DEF Edges, SameGraph
  <1> QED
    BY <1>1, <1>5, <1>6

-----------------------------------------------------------------------------
\* Drawing.

\* Drawing a topic keeps the page sound and adds no edge.
LEMMA renderTopicSound ==
    ASSUME NEW p, Sound(p), NEW t \in Topics
    PROVE  Sound(renderTopic(p, t)) /\ Edges(renderTopic(p, t)) = Edges(p)
  <1> DEFINE key == <<t, t \in p.new>>
             q == addNode(p, key)
             o == NodeAt(q, key)
             r == [q EXCEPT !.node[t] = o]
  <1>1. key \in PageKey
    <2>1. (t \in p.new) \in BOOLEAN
      OBVIOUS
    <2> QED
      BY <2>1, Zenon DEF PageKey
  <1>2. renderTopic(p, t) = IF ~HasMapping(p, t) THEN Throw(p) ELSE r
    BY DEF renderTopic
  <1> HIDE DEF key
  <1>3. Sound(q) /\ NodesAt(q, key) # {} /\ q.edges = p.edges
    BY <1>1, addNodeSound
  <1> HIDE DEF q
  <1>4. o \in q.graph
    BY <1>3 DEF NodesAt, NodeAt
  <1>5. DOMAIN q = Fields /\ GraphSound(q) /\ o \in NodeObject
    BY <1>3, <1>4 DEF Sound, GraphSound
  <1> HIDE DEF o
  <1>6. /\ DOMAIN r = Fields /\ SameData(q, r) /\ SameFilter(q, r) /\ SameSelection(q, r)
        /\ r.graph = q.graph /\ r.adj = q.adj
        /\ r.dim = q.dim /\ r.made = q.made /\ r.node = [q.node EXCEPT ![t] = o]
        /\ r.edges = q.edges /\ r.edge = q.edge /\ r.timers = q.timers
    BY <1>5 DEF Fields, SameSelection, SameFilter, SameData
  <1> HIDE DEF r
  <1>7. r.node \in [Topics -> NodeObject \cup {None}]
    BY <1>5, <1>6 DEF GraphSound
  <1>8. GraphSound(r)
    BY <1>5, <1>6, <1>7 DEF GraphSound, NodesAt
  <1>9. SelectionSound(r) /\ FilterSound(r)
    BY <1>3, <1>6 DEF Sound, SelectionSound, FilterSound, SameSelection, SameFilter, SameData
  <1>10. Sound(r)
    BY <1>3, <1>6, <1>8, <1>9, SoundAgain
  <1>11. Sound(Throw(p)) /\ Edges(Throw(p)) = Edges(p)
    BY ThrowSound DEF Edges, SameGraph
  <1> QED
    BY <1>2, <1>3, <1>6, <1>10, <1>11 DEF Edges

\* Synapse.renderSynapse: both lists of the edge grow by one.
LEMMA renderSynapseSound ==
    ASSUME NEW p, Sound(p), NEW s \in Synapses,
           NEW n1 \in NodeObject \cup {None}, NEW n2 \in NodeObject \cup {None}
    PROVE  Sound(renderSynapse(p, s, n1, n2))
  <1>1. CASE n1 = None \/ n2 = None
    BY <1>1, ThrowSound DEF renderSynapse
  <1>2. CASE ~(n1 = None \/ n2 = None)
    <2> DEFINE k1 == Key(n1)
               k2 == Key(n2)
               q == addAdjacence(p, k1, k2)
               e == TheEdge(q, {k1, k2})
               m == IF HasMapping(p, s) THEN s ELSE None
               old == q.edges[e]
               new == [old EXCEPT !.syns = Append(@, s), !.maps = Append(@, m)]
               r == [q EXCEPT !.edge[s] = e,
                              !.edges[e].syns = Append(@, s), !.edges[e].maps = Append(@, m)]
    <2>1. k1 \in PageKey /\ k2 \in PageKey
      BY <1>2 DEF NodeObject, Key, PageKey
    <2>2. renderSynapse(p, s, n1, n2) = selectEdge(r, e)
      BY <1>2 DEF renderSynapse
    <2>3. m \in Synapses \cup {None}
      OBVIOUS
    <2> HIDE DEF k1, k2, m
    <2>4. Sound(q) /\ EdgesAt(q, {k1, k2}) # {}
      BY <2>1, addAdjacenceSound
    <2> HIDE DEF q
    <2>5. e \in q.adj
      BY <2>4 DEF EdgesAt, TheEdge
    <2>6. DOMAIN q = Fields /\ GraphSound(q) /\ e \in 1..Edges(q)
      BY <2>4, <2>5 DEF Sound, GraphSound, Edges
    <2> HIDE DEF e
    <2>7. old \in Edge /\ EdgeSound(old) /\ e \in DOMAIN q.edges
      BY <2>6 DEF GraphSound, Edges, EdgeSound
    <2>8. r.edges = [q.edges EXCEPT ![e] = new] /\ r.edge = [q.edge EXCEPT ![s] = e]
      BY <2>6, <2>7 DEF Fields, Edge
    <2>9. EdgeSound(new) /\ new.ends = old.ends
      <3>1. /\ old.syns \in Seq(Synapses) /\ old.maps \in Seq(Synapses \cup {None})
            /\ Len(old.maps) = Len(old.syns)
        BY <2>7 DEF Edge, EdgeSound
      <3>2. /\ Append(old.syns, s) \in Seq(Synapses)
            /\ Append(old.maps, m) \in Seq(Synapses \cup {None})
            /\ Len(Append(old.syns, s)) = Len(old.syns) + 1
            /\ Len(Append(old.maps, m)) = Len(old.maps) + 1
            /\ Len(old.syns) \in Nat
        <4> DEFINE ss == old.syns
                   mm == old.maps
        <4>1. ss \in Seq(Synapses) /\ mm \in Seq(Synapses \cup {None})
          BY <3>1
        <4> HIDE DEF ss, mm
        <4>2. /\ Append(ss, s) \in Seq(Synapses) /\ Len(Append(ss, s)) = Len(ss) + 1
              /\ Len(ss) \in Nat
          BY <4>1, AppendProperties, LenProperties
        <4>3. /\ Append(mm, m) \in Seq(Synapses \cup {None})
              /\ Len(Append(mm, m)) = Len(mm) + 1
          BY <2>3, <4>1, AppendProperties
        <4> QED
          BY <4>2, <4>3 DEF ss, mm
      <3>3. /\ new.ends = old.ends /\ new.shown = old.shown
            /\ new.syns = Append(old.syns, s) /\ new.maps = Append(old.maps, m)
        BY <2>7 DEF Edge
      <3>4. new \in Edge
        BY <2>7, <3>2 DEF Edge
      <3> HIDE DEF new, old
      <3>5. IsFiniteSet(new.ends) /\ Len(new.maps) = Len(new.syns)
        BY <2>7, <3>1, <3>2, <3>3 DEF EdgeSound
      <3>6. new.shown = 0 \/ new.shown < Len(new.syns)
        <4>1. old.shown \in Nat /\ (old.shown = 0 \/ old.shown < Len(old.syns))
          BY <2>7 DEF Edge, EdgeSound
        <4> QED
          BY <3>2, <3>3, <4>1
      <3> QED
        BY <3>3, <3>4, <3>5, <3>6 DEF EdgeSound
    <2>10. /\ DOMAIN r = Fields /\ SameData(q, r) /\ SameFilter(q, r) /\ SameSelection(q, r)
           /\ r.graph = q.graph /\ r.adj = q.adj
           /\ r.dim = q.dim /\ r.node = q.node /\ r.made = q.made /\ r.timers = q.timers
      BY <2>6 DEF Fields, SameSelection, SameFilter, SameData
    <2> HIDE DEF r, new, old
    <2>11. r.edge \in [Synapses -> 1..Edges(q) \cup {None}]
      BY <2>6, <2>8 DEF GraphSound, Edges
    <2>12. Sound(r) /\ Edges(r) = Edges(q)
      BY <2>4, <2>6, <2>8, <2>9, <2>10, <2>11, EdgeReplaced DEF old
    <2>13. e \in 1..Len(r.edges)
      BY <2>6, <2>12 DEF Edges
    <2> QED
      BY <2>2, <2>12, <2>13, selectEdgeSound
  <1> QED
    BY <1>1, <1>2

\* What has been waited for is drawn.
LEMMA DrawnSound ==
    ASSUME NEW p, Sound(p), NEW x \in Items
    PROVE  Sound(Drawn(p, x))
  <1>1. CASE IsTopic(x)
    BY <1>1, renderTopicSound DEF Drawn, IsTopic
  <1>2. CASE ~IsTopic(x)
    <2>1. x \in Synapses
      BY <1>2 DEF Items, IsTopic
    <2> DEFINE n1 == p.node[Ends[x][1]]
               n2 == p.node[Ends[x][2]]
    <2>2. Drawn(p, x) = IF {Ends[x][1], Ends[x][2]} \subseteq p.topics
                        THEN renderSynapse(p, x, n1, n2) ELSE Throw(p)
      BY <1>2 DEF Drawn
    <2>3. n1 \in NodeObject \cup {None} /\ n2 \in NodeObject \cup {None}
      BY <2>1, PageAssumption DEF Sound, GraphSound
    <2> HIDE DEF n1, n2
    <2> QED
      BY <2>1, <2>2, <2>3, renderSynapseSound, ThrowSound
  <1> QED
    BY <1>1, <1>2

\* Cable.topicRemoved.
LEMMA topicRemovedSound ==
    ASSUME NEW p, Sound(p), NEW t
    PROVE  Sound(topicRemoved(p, t))
  <1> DEFINE a == hideNode(p, Key(p.node[t]))
             b == IF a.threw THEN a ELSE RemoveTopic(a, t)
             c == IF b.threw THEN b ELSE RemoveMapping(b, t)
  <1>1. topicRemoved(p, t) = IF t \notin p.topics THEN p
                             ELSE IF p.node[t] = None THEN Throw(p) ELSE c
    BY DEF topicRemoved, Then
  <1>2. Sound(a)
    BY hideNodeSound
  <1> HIDE DEF a
  <1>3. Sound(b)
    BY <1>2, RemoveTopicSound
  <1> HIDE DEF b
  <1>4. Sound(c)
    BY <1>3, RemoveMappingSound
  <1> HIDE DEF c
  <1> QED
    BY <1>1, <1>4, ThrowSound

\* Cable.synapseRemoved.
LEMMA synapseRemovedSound ==
    ASSUME NEW p, Sound(p), NEW s
    PROVE  Sound(synapseRemoved(p, s))
  <1> DEFINE e == p.edge[s]
             list == p.edges[e].syns
             i == IF Contains(list, s) THEN SelectInSeq(list, LAMBDA x : x = s) ELSE Len(list)
             a == HideIfLast(p, e, p.edges[e].maps)
             b == IF a.threw THEN a ELSE IF list = <<>> THEN a ELSE DropAt(a, e, i)
             c == IF b.threw THEN b ELSE RemoveSynapse(b, s)
             d == IF c.threw THEN c ELSE RemoveMapping(c, s)
  <1>1. synapseRemoved(p, s) = IF s \notin p.syns THEN p
                               ELSE IF p.edge[s] = None THEN Throw(p) ELSE d
    BY DEF synapseRemoved, Then
  <1>2. CASE s \in p.syns /\ p.edge[s] # None
    <2>1. e \in 1..Edges(p)
      BY <1>2 DEF Sound, DataSound, GraphSound, Edges
    <2> HIDE DEF i, list
    <2>2. Sound(a) /\ Edges(a) = Edges(p)
      BY <2>1, HideIfLastSound DEF Edges
    <2> HIDE DEF a, e
    <2>3. Sound(b)
      BY <2>1, <2>2, DropAtSound
    <2> HIDE DEF b
    <2>4. Sound(c)
      BY <2>3, RemoveSynapseSound
    <2> HIDE DEF c
    <2>5. Sound(d)
      BY <2>4, RemoveMappingSound
    <2> HIDE DEF d
    <2> QED
      BY <1>1, <1>2, <2>5 DEF e
  <1> HIDE DEF d
  <1> QED
    BY <1>1, <1>2, ThrowSound

-----------------------------------------------------------------------------
\* How what a page holds goes with what it draws.  W are the items with which
\* something went wrong, and L the loads under way.

\* An edge lists the synapses that are drawn as it ...
DrawnIsListed(p) ==
    \A s \in p.syns : p.edge[s] # None => s \in In(p.edges[p.edge[s]].syns)

\* ... each once and beside its mapping, and no others, ...
ListedWell(p, W, e, i, s) ==
    \/ s \in W
    \/ /\ p.edges[e].maps[i] = s
       /\ s \in p.syns /\ p.edge[s] = e
       /\ \A j \in 1..Len(p.edges[e].syns) : p.edges[e].syns[j] = s => j = i
ListedIsDrawn(p, W) ==
    \A e \in 1..Edges(p) : \A i \in 1..Len(p.edges[e].syns) :
        ListedWell(p, W, e, i, p.edges[e].syns[i])

\* ... and what has been fetched of a synapse is there, but not drawn yet.
SynapsesAwaited(p, W, L) ==
    \A l \in L : l.of \in Synapses \ W =>
        /\ "mapping" \in l.got => HasMapping(p, l.of)
        /\ "model" \in l.got => l.of \in p.syns
        /\ l.of \in p.syns => p.edge[l.of] = None

SynapsesLinked(p, W, L) ==
    DrawnIsListed(p) /\ ListedIsDrawn(p, W) /\ SynapsesAwaited(p, W, L)

\* No two nodes have one id, and none is of a topic never drawn.
Numbered(p) ==
    /\ \A n \in p.graph : p.made[n[1]] # 0
    /\ \A n, m \in p.graph : Key(n) = Key(m) => n = m
    /\ \A t \in Topics : p.node[t] # None => p.node[t][1] = t

\* The topics drawn under their cids are those made on the page, or they fade out,
Unsaved(p, t) == t \in p.topics /\ p.node[t] # None /\ p.node[t][2] = TRUE
UnsavedOrFading(p, W) ==
    \A n \in p.graph : n[2] = TRUE =>
        Unsaved(p, n[1]) \/ {Key(n)} \in In(p.timers) \/ n[1] \in W

\* they are drawn under their cids only,
UnderCidOnly(p, W) ==
    \A n \in p.graph : Unsaved(p, n[1]) => n[2] = TRUE \/ n[1] \in W

\* and a topic that is waited for is not drawn yet.
TopicsAwaited(p, W, L) ==
    \A l \in L : l.of \in p.topics => l.of \in W \/ p.node[l.of] = None

TopicsLinked(p, W, L) ==
    /\ Numbered(p) /\ UnsavedOrFading(p, W) /\ UnderCidOnly(p, W)
    /\ TopicsAwaited(p, W, L)

Linked(p, W, L) == SynapsesLinked(p, W, L) /\ TopicsLinked(p, W, L)

\* What does not matter to the links of synapses, but for the mapping of x, and of topics.
SameLists(p, q) ==
    /\ Edges(q) = Edges(p)
    /\ \A e \in 1..Edges(p) : /\ q.edges[e].syns = p.edges[e].syns
                              /\ q.edges[e].maps = p.edges[e].maps
SameMappings(p, q, x) ==
    \A s \in Synapses \ {x} : HasMapping(p, s) => HasMapping(q, s)
SynapsesSame(p, q, x) ==
    q.syns = p.syns /\ q.edge = p.edge /\ SameLists(p, q) /\ SameMappings(p, q, x)
NodesSame(p, q) ==
    q.graph = p.graph /\ q.node = p.node /\ q.made = p.made /\ In(p.timers) \subseteq In(q.timers)
TopicsSame(p, q) == q.topics = p.topics /\ NodesSame(p, q)

KeptBut(p, q, x) == SynapsesSame(p, q, x) /\ TopicsSame(p, q) /\ q.new = p.new
Kept(p, q) == KeptBut(p, q, None)

\* Where an edge lists a synapse.
LEMMA ListsOfEdge ==
    ASSUME NEW p, Sound(p), NEW e \in 1..Edges(p)
    PROVE  /\ p.edges[e].syns \in Seq(Synapses) /\ p.edges[e].maps \in Seq(Synapses \cup {None})
           /\ Len(p.edges[e].maps) = Len(p.edges[e].syns)
           /\ \A i \in 1..Len(p.edges[e].syns) : p.edges[e].syns[i] \in Synapses
           /\ DOMAIN p.edges[e].syns = 1..Len(p.edges[e].syns)
           /\ DOMAIN p.edges[e].maps = 1..Len(p.edges[e].syns)
  <1>1. EdgeSound(p.edges[e])
    BY DEF Sound, GraphSound, Edges
  <1>2. /\ p.edges[e].syns \in Seq(Synapses) /\ p.edges[e].maps \in Seq(Synapses \cup {None})
        /\ Len(p.edges[e].maps) = Len(p.edges[e].syns)
    BY <1>1 DEF EdgeSound, Edge
  <1> QED
    BY <1>2, ElementOfSeq, LenProperties

\* A synapse the page draws is drawn as an edge there is.
LEMMA EdgeOfSynapse ==
    ASSUME NEW p, Sound(p), NEW s \in p.syns, p.edge[s] # None
    PROVE  s \in Synapses /\ p.edge[s] \in 1..Edges(p)
  BY DEF Sound, DataSound, GraphSound, Edges

\* The links stay, whatever else has gone wrong.
LEMMA SynapsesStayLinked ==
    ASSUME NEW p, NEW q, Sound(p), NEW x, SynapsesSame(p, q, x),
           NEW W, NEW X, W \subseteq X, NEW L, NEW K, K \subseteq L,
           SynapsesLinked(p, W, L), x \in X \/ x \notin Synapses \/ \A l \in K : l.of # x
    PROVE  SynapsesLinked(q, X, K)
  <1>1. DrawnIsListed(q)
    <2> SUFFICES ASSUME NEW s \in p.syns, p.edge[s] # None
                 PROVE  s \in In(q.edges[p.edge[s]].syns)
      BY DEF DrawnIsListed, SynapsesSame
    <2>1. p.edge[s] \in 1..Edges(p)
      BY EdgeOfSynapse
    <2> QED
      BY <2>1 DEF SynapsesLinked, DrawnIsListed, SynapsesSame, SameLists
  <1>2. ListedIsDrawn(q, X)
    <2> SUFFICES ASSUME NEW e \in 1..Edges(p), NEW i \in 1..Len(p.edges[e].syns)
                 PROVE  ListedWell(q, X, e, i, p.edges[e].syns[i])
      BY DEF ListedIsDrawn, SynapsesSame, SameLists
    <2>1. ListedWell(p, W, e, i, p.edges[e].syns[i])
      BY DEF SynapsesLinked, ListedIsDrawn
    <2> QED
      BY <2>1 DEF ListedWell, SynapsesSame, SameLists
  <1>3. SynapsesAwaited(q, X, K)
    BY DEF SynapsesLinked, SynapsesAwaited, SynapsesSame, SameMappings
  <1> QED
    BY <1>1, <1>2, <1>3 DEF SynapsesLinked

\* Links of topics only look at the topics, the nodes and the timers; fewer loads ask less.
LEMMA TopicsStayLinked ==
    ASSUME NEW p, NEW q, TopicsSame(p, q),
           NEW W, NEW X, W \subseteq X, NEW L, NEW K, K \subseteq L,
           TopicsLinked(p, W, L)
    PROVE  TopicsLinked(q, X, K)
  <1>1. Numbered(q)
    BY DEF TopicsLinked, Numbered, TopicsSame, NodesSame
  <1>2. UnsavedOrFading(q, X) /\ UnderCidOnly(q, X)
    BY DEF TopicsLinked, UnsavedOrFading, UnderCidOnly, Unsaved, TopicsSame, NodesSame
  <1>3. TopicsAwaited(q, X, K)
    BY DEF TopicsLinked, TopicsAwaited, TopicsSame, NodesSame
  <1> QED
    BY <1>1, <1>2, <1>3 DEF TopicsLinked

\* A step that keeps everything but x keeps the links, when nothing is asked of x.
LEMMA StayLinked ==
    ASSUME NEW p, NEW q, Sound(p), NEW x, KeptBut(p, q, x),
           NEW W, NEW X, W \subseteq X, NEW L, NEW K, K \subseteq L,
           Linked(p, W, L), x \in X \/ x \notin Synapses \/ \A l \in K : l.of # x
    PROVE  Linked(q, X, K)
  BY SynapsesStayLinked, TopicsStayLinked DEF KeptBut, Linked

\* A step that keeps everything keeps the links.
LEMMA KeptLinked ==
    ASSUME NEW p, NEW q, Sound(p), Kept(p, q), NEW W, NEW X, W \subseteq X,
           NEW L, NEW K, K \subseteq L, Linked(p, W, L)
    PROVE  Linked(q, X, K)
  <1>1. None \notin Synapses
    BY PageAssumption DEF Items
  <1> QED
    BY <1>1, StayLinked DEF Kept

\* One function after another.
LEMMA KeptTwice ==
    ASSUME NEW p, NEW q, NEW r, NEW x, KeptBut(p, q, x), KeptBut(q, r, x) \/ Kept(q, r)
    PROVE  KeptBut(p, r, x)
  <1>1. SameMappings(p, r, x)
    <2>1. None \notin Synapses
      BY PageAssumption DEF Items
    <2> QED
      BY <2>1 DEF KeptBut, Kept, SynapsesSame, SameMappings
  <1>2. SameLists(p, r)
    BY DEF KeptBut, Kept, SynapsesSame, SameLists
  <1> QED
    BY <1>1, <1>2 DEF KeptBut, Kept, SynapsesSame, TopicsSame, NodesSame

\* Keeping everything is keeping everything but x.
LEMMA KeptIsKeptBut ==
    ASSUME NEW p, NEW q, Kept(p, q), NEW x
    PROVE  KeptBut(p, q, x)
  <1>1. None \notin Synapses
    BY PageAssumption DEF Items
  <1> QED
    BY <1>1 DEF KeptBut, Kept, SynapsesSame, SameMappings

\* Most functions keep all that matters to the links.
LEMMA SameIsKept ==
    ASSUME NEW p, NEW q, SameData(p, q), SameGraph(p, q)
    PROVE  Kept(p, q)
  BY DEF SameData, SameGraph, Kept, KeptBut, SynapsesSame, SameLists, SameMappings, TopicsSame,
         NodesSame, HasMapping, RowsOf, Edges

\* Selecting, dimming, filtering and checking change nothing the links speak of.
LEMMA SimplyKept ==
    ASSUME NEW p, DOMAIN p = Fields, NEW x
    PROVE  /\ Kept(p, p) /\ Kept(p, Throw(p)) /\ Kept(p, checkMappers(p)) /\ Kept(p, Checks(p))
           /\ Kept(p, selectNode(p, x)) /\ Kept(p, deselectNode(p, x))
           /\ Kept(p, selectEdge(p, x)) /\ Kept(p, deselectEdge(p, x))
           /\ Kept(p, [p EXCEPT !.selE = x]) /\ Kept(p, [p EXCEPT !.dim = x])
           /\ Kept(p, [p EXCEPT !.visible = x]) /\ Kept(p, [p EXCEPT !.out = x])
           /\ Kept(p, Destroyed(p, x))
  <1>1. Kept(p, p)
    BY SameIsKept DEF SameData, SameGraph
  <1>2. \A q : DOMAIN q = Fields => Kept(q, Throw(q))
    <2> SUFFICES ASSUME NEW q, DOMAIN q = Fields PROVE Kept(q, Throw(q))
      OBVIOUS
    <2>1. SameData(q, Throw(q)) /\ SameGraph(q, Throw(q))
      BY DEF Throw, Fields, SameData, SameGraph
    <2> QED
      BY <2>1, SameIsKept
  <1>3. \A q : DOMAIN q = Fields => Kept(q, checkMappers(q))
    <2> SUFFICES ASSUME NEW q, DOMAIN q = Fields PROVE Kept(q, checkMappers(q))
      OBVIOUS
    <2>1. Kept(q, q)
      BY SameIsKept DEF SameData, SameGraph
    <2> QED
      BY <1>2, <2>1 DEF checkMappers
  <1>4. Kept(p, Checks(p))
    <2> DEFINE q == checkMetacodes(p)
    <2>1. SameData(p, q) /\ SameGraph(p, q) /\ DOMAIN q = Fields
      BY DEF checkMetacodes, Fields, SameData, SameGraph
    <2>2. Checks(p) = checkMappers(q)
      BY DEF Checks
    <2> HIDE DEF q
    <2>3. Kept(p, q) /\ Kept(q, checkMappers(q))
      BY <1>3, <2>1, SameIsKept
    <2> QED
      BY <2>2, <2>3, KeptTwice DEF Kept
  <1>5. Kept(p, [p EXCEPT !.selE = x]) /\ Kept(p, [p EXCEPT !.dim = x])
    <2> DEFINE q == [p EXCEPT !.selE = x]
               r == [p EXCEPT !.dim = x]
    <2>1. SameData(p, q) /\ SameGraph(p, q) /\ SameData(p, r)
      BY DEF Fields, SameData, SameGraph
    <2>2. Kept(p, r)
      BY <2>1 DEF Fields, SameData, Kept, KeptBut, SynapsesSame, SameLists, SameMappings,
                  TopicsSame, NodesSame, HasMapping, RowsOf, Edges
    <2> HIDE DEF q
    <2>3. Kept(p, q)
      BY <2>1, SameIsKept
    <2> QED
      BY <2>2, <2>3 DEF q
  <1>6. Kept(p, [p EXCEPT !.visible = x])
    <2> DEFINE q == [p EXCEPT !.visible = x]
    <2>1. SameData(p, q) /\ SameGraph(p, q)
      BY DEF Fields, SameData, SameGraph
    <2> HIDE DEF q
    <2>2. Kept(p, q)
      BY <2>1, SameIsKept
    <2> QED
      BY <2>2 DEF q
  <1>7. \A o : Kept(p, [p EXCEPT !.out = o])
    <2> SUFFICES ASSUME NEW o PROVE Kept(p, [p EXCEPT !.out = o])
      OBVIOUS
    <2> DEFINE q == [p EXCEPT !.out = o]
    <2>1. SameData(p, q) /\ SameGraph(p, q)
      BY DEF Fields, SameData, SameGraph
    <2> HIDE DEF q
    <2>2. Kept(p, q)
      BY <2>1, SameIsKept
    <2> QED
      BY <2>2 DEF q
  <1>8. Kept(p, Destroyed(p, x))
    <2> DEFINE o == p.out \cup {<<"destroy", x>>}
    <2>1. Destroyed(p, x) = IF x \in p.new THEN p ELSE [p EXCEPT !.out = o]
      BY DEF Destroyed
    <2> QED
      BY <1>1, <1>7, <2>1
  <1>9. Kept(p, selectNode(p, x)) /\ Kept(p, deselectNode(p, x))
    <2>1. /\ SameData(p, selectNode(p, x)) /\ SameGraph(p, selectNode(p, x))
          /\ SameData(p, deselectNode(p, x)) /\ SameGraph(p, deselectNode(p, x))
      BY DEF selectNode, deselectNode, Fields, SameData, SameGraph
    <2> QED
      BY <2>1, SameIsKept
  <1>10. Kept(p, selectEdge(p, x)) /\ Kept(p, deselectEdge(p, x))
    <2>1. /\ SameData(p, selectEdge(p, x)) /\ SameGraph(p, selectEdge(p, x))
          /\ SameData(p, deselectEdge(p, x)) /\ SameGraph(p, deselectEdge(p, x))
      BY DEF selectEdge, deselectEdge, Fields, SameData, SameGraph
    <2> QED
      BY <2>1, SameIsKept
  <1> QED
    BY <1>1, <1>2, <1>3, <1>4, <1>5, <1>6, <1>7, <1>8, <1>9, <1>10

-----------------------------------------------------------------------------
\* What hides, adds or takes off only a mapping.

\* A started animation adds its timer and keeps the rest.
LEMMA TimerKept ==
    ASSUME NEW p, Sound(p), NEW keys \in SUBSET PageKey
    PROVE  LET q == [p EXCEPT !.timers = Append(@, keys)]
           IN  Kept(p, q) /\ keys \in In(q.timers) /\ DOMAIN q = Fields
  <1> DEFINE q == [p EXCEPT !.timers = Append(@, keys)]
  <1>1. DOMAIN p = Fields /\ p.timers \in Seq(SUBSET PageKey)
    BY DEF Sound, GraphSound
  <1>2. /\ DOMAIN q = Fields /\ SameData(p, q)
        /\ q.graph = p.graph /\ q.node = p.node /\ q.made = p.made
        /\ q.edges = p.edges /\ q.edge = p.edge /\ q.timers = Append(p.timers, keys)
    BY <1>1 DEF Fields, SameData
  <1>3. In(Append(p.timers, keys)) = In(p.timers) \cup {keys}
    BY <1>1, AppendOnce
  <1> HIDE DEF q
  <1>4. Kept(p, q)
    BY <1>2, <1>3 DEF SameData, Kept, KeptBut, SynapsesSame, SameLists, SameMappings,
                      TopicsSame, NodesSame, HasMapping, RowsOf, Edges
  <1> QED
    BY <1>2, <1>3, <1>4 DEF q

\* A node that is hidden fades out, unless the turn has thrown.
LEMMA hideNodeKept ==
    ASSUME NEW p, Sound(p), NEW key
    PROVE  /\ Kept(p, hideNode(p, key))
           /\ hideNode(p, key).threw \/ {key} \in In(hideNode(p, key).timers)
  <1> DEFINE q == deselectNode(p, NodeAt(p, key))
             r == [q EXCEPT !.timers = Append(@, {key})]
  <1>1. DOMAIN p = Fields
    BY DEF Sound
  <1>2. CASE NodesAt(p, key) = {}
    <2>1. hideNode(p, key) = Throw(p) /\ Throw(p).threw
      BY <1>1, <1>2 DEF hideNode, Throw, Fields
    <2> QED
      BY <1>1, <2>1, SimplyKept
  <1>3. CASE NodesAt(p, key) # {}
    <2>1. key \in PageKey
      <3>1. PICK n \in p.graph : Key(n) = key
        BY <1>3 DEF NodesAt
      <3> QED
        BY <3>1 DEF Sound, GraphSound, NodeObject, Key, PageKey
    <2>2. Sound(q) /\ Kept(p, q)
      BY <1>1, deselectNodeSound, SimplyKept
    <2>3. hideNode(p, key) = Checks(r)
      BY <1>3 DEF hideNode
    <2> HIDE DEF q
    <2>4. Kept(q, r) /\ {key} \in In(r.timers) /\ DOMAIN r = Fields
      BY <2>1, <2>2, TimerKept
    <2> HIDE DEF r
    <2>5. Kept(r, Checks(r))
      BY <2>4, SimplyKept
    <2>6. Kept(p, Checks(r))
      BY <2>2, <2>4, <2>5, KeptTwice DEF Kept
    <2>7. {key} \in In(Checks(r).timers)
      BY <2>4, <2>5 DEF Kept, KeptBut, TopicsSame, NodesSame
    <2> QED
      BY <2>3, <2>6, <2>7
  <1> QED
    BY <1>2, <1>3

\* Hiding an edge keeps what is drawn: it is removed by the timer, later.
LEMMA hideEdgeKept ==
    ASSUME NEW p, Sound(p), NEW e \in 1..Edges(p)
    PROVE  Kept(p, hideEdge(p, e))
  <1> DEFINE q == deselectEdge(p, e)
             r == [q EXCEPT !.timers = Append(@, p.edges[e].ends)]
  <1>1. p.edges[e].ends \in SUBSET PageKey
    <2>1. EdgeSound(p.edges[e])
      BY DEF Sound, GraphSound, Edges
    <2> QED
      BY <2>1 DEF EdgeSound, Edge, PageKey
  <1>2. Sound(q) /\ Kept(p, q)
    BY deselectEdgeSound, SimplyKept DEF Sound
  <1>3. hideEdge(p, e) = checkMappers(r)
    BY DEF hideEdge
  <1> HIDE DEF q
  <1>4. Kept(q, r) /\ DOMAIN r = Fields
    BY <1>1, <1>2, TimerKept
  <1> HIDE DEF r
  <1>5. Kept(r, checkMappers(r))
    BY <1>4, SimplyKept
  <1> QED
    BY <1>2, <1>3, <1>4, <1>5, KeptTwice DEF Kept

\* The last synapse of an edge hides the edge; what is drawn is kept.
LEMMA HideIfLastKept ==
    ASSUME NEW p, Sound(p), NEW e \in 1..Edges(p), NEW list
    PROVE  Kept(p, HideIfLast(p, e, list))
  BY hideEdgeKept, SimplyKept DEF HideIfLast, Sound

\* A mapping is added.
LEMMA MappingAdded ==
    ASSUME NEW p, DOMAIN p = Fields, NEW r, NEW x
    PROVE  /\ Kept(p, AddMapping(p, r)) /\ HasMapping(AddMapping(p, r), r.of)
           /\ Kept(p, AddDraft(p, x)) /\ HasMapping(AddDraft(p, x), x)
  <1>1. Kept(p, AddMapping(p, r)) /\ HasMapping(AddMapping(p, r), r.of)
    <2> DEFINE q == [p EXCEPT !.maps = @ \cup {r}]
    <2>1. /\ DOMAIN q = Fields /\ SameGraph(p, q)
          /\ q.topics = p.topics /\ q.syns = p.syns /\ q.new = p.new
          /\ q.drafts = p.drafts /\ q.maps = p.maps \cup {r}
      BY DEF Fields, SameGraph
    <2>2. AddMapping(p, r) = IF r \in p.maps THEN p ELSE Checks(q)
      BY DEF AddMapping
    <2> HIDE DEF q
    <2>3. Kept(p, q)
      BY <2>1 DEF SameGraph, Kept, KeptBut, SynapsesSame, SameLists, SameMappings, TopicsSame,
                  NodesSame, HasMapping, RowsOf, Edges
    <2>4. Kept(q, Checks(q)) /\ Kept(p, p)
      BY <2>1, SimplyKept
    <2>5. Checks(q).maps = q.maps /\ Checks(q).drafts = q.drafts
      BY <2>1 DEF Checks, checkMappers, checkMetacodes, Throw, Fields
    <2> QED
      BY <2>1, <2>2, <2>3, <2>4, <2>5, KeptTwice DEF Kept, HasMapping, RowsOf
  <1>2. Kept(p, AddDraft(p, x)) /\ HasMapping(AddDraft(p, x), x)
    <2> DEFINE q == [p EXCEPT !.drafts = @ \cup {x}]
    <2>1. /\ DOMAIN q = Fields /\ SameGraph(p, q)
          /\ q.topics = p.topics /\ q.syns = p.syns /\ q.new = p.new
          /\ q.maps = p.maps /\ q.drafts = p.drafts \cup {x}
      BY DEF Fields, SameGraph
    <2>2. AddDraft(p, x) = Checks(q)
      BY DEF AddDraft
    <2> HIDE DEF q
    <2>3. Kept(p, q)
      BY <2>1 DEF SameGraph, Kept, KeptBut, SynapsesSame, SameLists, SameMappings, TopicsSame,
                  NodesSame, HasMapping, RowsOf, Edges
    <2>4. Kept(q, Checks(q))
      BY <2>1, SimplyKept
    <2>5. Checks(q).drafts = q.drafts
      BY <2>1 DEF Checks, checkMappers, checkMetacodes, Throw, Fields
    <2> QED
      BY <2>1, <2>2, <2>3, <2>4, <2>5, KeptTwice DEF Kept, HasMapping, RowsOf
  <1> QED
    BY <1>1, <1>2

\* A mapping is taken off, its item stays.
LEMMA MappingRemoved ==
    ASSUME NEW p, DOMAIN p = Fields, NEW x
    PROVE  KeptBut(p, RemoveMapping(p, x), x) /\ KeptBut(p, DestroyMapping(p, x), x)
  <1>1. \A q : DOMAIN q = Fields => KeptBut(q, RemoveMapping(q, x), x)
    <2> SUFFICES ASSUME NEW q, DOMAIN q = Fields PROVE KeptBut(q, RemoveMapping(q, x), x)
      OBVIOUS
    <2> DEFINE r == [q EXCEPT !.maps = @ \ RowsOf(q, x), !.drafts = @ \ {x}]
    <2>1. /\ DOMAIN r = Fields /\ SameGraph(q, r)
          /\ r.topics = q.topics /\ r.syns = q.syns /\ r.new = q.new
          /\ r.maps = q.maps \ RowsOf(q, x) /\ r.drafts = q.drafts \ {x}
      BY DEF Fields, SameGraph
    <2>2. RemoveMapping(q, x) = IF HasMapping(q, x) THEN Checks(r) ELSE q
      BY DEF RemoveMapping
    <2> HIDE DEF r
    <2>3. SameMappings(q, r, x)
      BY <2>1 DEF SameMappings, HasMapping, RowsOf
    <2>4. KeptBut(q, r, x)
      BY <2>1, <2>3 DEF SameGraph, KeptBut, SynapsesSame, SameLists, TopicsSame, NodesSame, Edges
    <2>5. Kept(r, Checks(r)) /\ Kept(q, q)
      BY <2>1, SimplyKept
    <2> QED
      BY <2>2, <2>4, <2>5, KeptTwice, KeptIsKeptBut
  <1>2. KeptBut(p, DestroyMapping(p, x), x)
    <2> DEFINE o == p.out \cup {<<"unmap", r.id>> : r \in RowsOf(p, x)}
               q == [p EXCEPT !.out = o]
    <2>1. Kept(p, q) /\ DOMAIN q = Fields
      BY SimplyKept DEF Fields
    <2>2. DestroyMapping(p, x) = RemoveMapping(q, x)
      BY DEF DestroyMapping
    <2> HIDE DEF q
    <2>3. KeptBut(p, q, x) /\ KeptBut(q, RemoveMapping(q, x), x)
      BY <1>1, <2>1, KeptIsKeptBut
    <2> QED
      BY <2>2, <2>3, KeptTwice
  <1> QED
    BY <1>1, <1>2

-----------------------------------------------------------------------------
\* A synapse leaves the collection, and the list of its edge.

Mine(p) == p.topics \cup p.syns

\* All but the synapses and their lists.
RestKept(p, q, s) ==
    q.edge = p.edge /\ SameMappings(p, q, s) /\ TopicsSame(p, q) /\ q.new = p.new
ListsCut(p, q, e, i) ==
    /\ Edges(q) = Edges(p)
    /\ q.edges[e].syns = RemoveAt(p.edges[e].syns, i)
    /\ q.edges[e].maps = RemoveAt(p.edges[e].maps, i)
    /\ \A f \in 1..Edges(p) \ {e} : /\ q.edges[f].syns = p.edges[f].syns
                                    /\ q.edges[f].maps = p.edges[f].maps

\* Keeping the rest is transitive.
LEMMA RestTwice ==
    ASSUME NEW p, NEW q, NEW r, NEW s, RestKept(p, q, s), RestKept(q, r, s)
    PROVE  RestKept(p, r, s)
  BY DEF RestKept, SameMappings, TopicsSame, NodesSame

\* Keeping everything but s keeps the rest, the synapses and the lists.
LEMMA KeptButIsRest ==
    ASSUME NEW p, NEW q, NEW s, KeptBut(p, q, s)
    PROVE  RestKept(p, q, s) /\ q.syns = p.syns /\ SameLists(p, q)
  BY DEF KeptBut, RestKept, SynapsesSame

\* The synapse s is taken off the collection and nothing else is.
LEMMA SynapseTakenOff ==
    ASSUME NEW p, DOMAIN p = Fields, NEW s
    PROVE  LET q == RemoveSynapse(p, s)
           IN  RestKept(p, q, s) /\ q.syns = p.syns \ {s} /\ SameLists(p, q)
  <1> DEFINE r == [p EXCEPT !.syns = @ \ {s}]
  <1>1. /\ DOMAIN r = Fields /\ r.syns = p.syns \ {s} /\ SameGraph(p, r)
        /\ r.topics = p.topics /\ r.new = p.new /\ r.maps = p.maps /\ r.drafts = p.drafts
    BY DEF Fields, SameGraph
  <1>2. RemoveSynapse(p, s) = IF s \in p.syns THEN checkMappers(r) ELSE p
    BY DEF RemoveSynapse
  <1> HIDE DEF r
  <1>3. RestKept(p, r, s) /\ SameLists(p, r) /\ RestKept(p, p, s) /\ SameLists(p, p)
    BY <1>1 DEF RestKept, SameMappings, TopicsSame, NodesSame, SameLists, SameGraph, HasMapping,
                RowsOf, Edges
  <1>4. /\ RestKept(r, checkMappers(r), s) /\ checkMappers(r).syns = r.syns
        /\ SameLists(r, checkMappers(r))
    BY <1>1, SimplyKept, KeptIsKeptBut, KeptButIsRest
  <1>5. RestKept(p, checkMappers(r), s) /\ SameLists(p, checkMappers(r))
    BY <1>3, <1>4, RestTwice DEF SameLists
  <1> QED
    BY <1>1, <1>2, <1>3, <1>4, <1>5

\* One entry of one edge's list is cut and nothing else is.
LEMMA DropAtCuts ==
    ASSUME NEW p, Sound(p), NEW e \in 1..Edges(p), NEW i \in 1..Len(p.edges[e].syns), NEW s
    PROVE  LET q == DropAt(p, e, i)
           IN  RestKept(p, q, s) /\ q.syns = p.syns /\ ListsCut(p, q, e, i)
  <1> DEFINE old == p.edges[e]
             new == [old EXCEPT !.syns = RemoveAt(@, i), !.maps = RemoveAt(@, i), !.shown = 0]
             q == DropAt(p, e, i)
  <1>1. DOMAIN p = Fields /\ p.edges \in Seq(Edge) /\ old \in Edge
    BY ElementOfSeq DEF Sound, GraphSound, Edges
  <1>2. i \in DOMAIN old.syns
    BY ListsOfEdge
  <1>3. e \in DOMAIN p.edges
    BY <1>1 DEF Edges
  <1>4. q = [p EXCEPT !.edges = [p.edges EXCEPT ![e] = new]]
    BY <1>1, <1>2, <1>3, ZenonT(30) DEF DropAt, Edge, Fields
  <1>5. /\ new.syns = RemoveAt(old.syns, i) /\ new.maps = RemoveAt(old.maps, i)
    BY <1>1 DEF Edge
  <1> HIDE DEF new, q
  <1>6. /\ q.edges = [p.edges EXCEPT ![e] = new] /\ q.topics = p.topics /\ q.new = p.new
        /\ q.maps = p.maps /\ q.drafts = p.drafts /\ q.syns = p.syns /\ q.edge = p.edge
        /\ q.graph = p.graph /\ q.node = p.node /\ q.made = p.made /\ q.timers = p.timers
    BY <1>1, <1>4 DEF Fields
  <1>7. DOMAIN q.edges = DOMAIN p.edges /\ q.edges[e] = new
        /\ \A f \in 1..Edges(p) \ {e} : q.edges[f] = p.edges[f]
    BY <1>1, <1>3, <1>6 DEF Edges
  <1>8. Edges(q) = Edges(p)
    BY <1>1, <1>3, <1>6 DEF Edges
  <1>9. RestKept(p, q, s)
    BY <1>6 DEF RestKept, SameMappings, TopicsSame, NodesSame, HasMapping, RowsOf
  <1>10. ListsCut(p, q, e, i)
    BY <1>5, <1>7, <1>8 DEF ListsCut
  <1> QED
    BY <1>6, <1>9, <1>10 DEF q

\* A synapse an edge lists has been drawn, and nothing waits for it any more.
LEMMA ListedNotAwaited ==
    ASSUME NEW p, Sound(p), NEW W, NEW L, SynapsesLinked(p, W, L),
           NEW e \in 1..Edges(p), NEW i \in 1..Len(p.edges[e].syns),
           NEW s, s = p.edges[e].syns[i]
    PROVE  s \in W \/ (s \in p.syns /\ p.edge[s] = e /\ \A l \in L : l.of # s)
  <1> SUFFICES ASSUME s \notin W
               PROVE  s \in p.syns /\ p.edge[s] = e /\ \A l \in L : l.of # s
    OBVIOUS
  <1>1. s \in p.syns /\ p.edge[s] = e
    BY DEF SynapsesLinked, ListedIsDrawn, ListedWell
  <1>2. e # None
    <2>1. Edges(p) \in Nat
      BY LenProperties DEF Sound, GraphSound, Edges
    <2> QED
      BY <2>1, PageAssumption
  <1>3. s \in Synapses
    BY <1>1 DEF Sound, DataSound
  <1> QED
    BY <1>1, <1>2, <1>3 DEF SynapsesLinked, SynapsesAwaited

\* It has left the collection, and is still listed.
LEMMA SynapseHalfGone ==
    ASSUME NEW p, Sound(p), NEW W, NEW L, Linked(p, W, L), NEW q, NEW s,
           RestKept(p, q, s), q.syns = p.syns \ {s}, SameLists(p, q)
    PROVE  Linked(q, W \cup {s}, L)
  <1>1. TopicsLinked(q, W \cup {s}, L)
    BY TopicsStayLinked DEF RestKept, Linked
  <1>2. DrawnIsListed(q)
    <2> SUFFICES ASSUME NEW t \in q.syns, q.edge[t] # None
                 PROVE  t \in In(q.edges[q.edge[t]].syns)
      BY DEF DrawnIsListed
    <2>1. t \in p.syns /\ p.edge[t] # None /\ q.edge[t] = p.edge[t]
      BY DEF RestKept
    <2>2. p.edge[t] \in 1..Edges(p)
      BY <2>1, EdgeOfSynapse
    <2> QED
      BY <2>1, <2>2 DEF Linked, SynapsesLinked, DrawnIsListed, SameLists
  <1>3. ListedIsDrawn(q, W \cup {s})
    <2> SUFFICES ASSUME NEW e \in 1..Edges(p), NEW i \in 1..Len(p.edges[e].syns)
                 PROVE  ListedWell(q, W \cup {s}, e, i, p.edges[e].syns[i])
      BY DEF ListedIsDrawn, SameLists
    <2>1. ListedWell(p, W, e, i, p.edges[e].syns[i])
      BY DEF Linked, SynapsesLinked, ListedIsDrawn
    <2> QED
      BY <2>1 DEF ListedWell, RestKept, SameLists
  <1>4. SynapsesAwaited(q, W \cup {s}, L)
    BY DEF Linked, SynapsesLinked, SynapsesAwaited, RestKept, SameMappings
  <1> QED
    BY <1>1, <1>2, <1>3, <1>4 DEF Linked, SynapsesLinked

\* It has left both.
LEMMA SynapseGone ==
    ASSUME NEW p, Sound(p), NEW W, NEW L, Linked(p, W, L), NEW q,
           NEW e \in 1..Edges(p), NEW i \in 1..Len(p.edges[e].syns),
           NEW s, s = p.edges[e].syns[i],
           RestKept(p, q, s), q.syns = p.syns \ {s}, ListsCut(p, q, e, i)
    PROVE  Linked(q, W, L)
  <1> DEFINE list == p.edges[e].syns
             maps == p.edges[e].maps
             At(j) == IF j < i THEN j ELSE j + 1
  <1>1. /\ list \in Seq(Synapses) /\ maps \in Seq(Synapses \cup {None})
        /\ Len(maps) = Len(list) /\ Len(list) \in Nat
    BY ListsOfEdge, LenProperties
  <1>2. /\ q.edges[e].syns = RemoveAt(list, i) /\ q.edges[e].maps = RemoveAt(maps, i)
        /\ Edges(q) = Edges(p) /\ s = list[i] /\ i \in 1..Len(list)
    BY DEF ListsCut
  <1>3. s \in W \/ (s \in p.syns /\ p.edge[s] = e /\ \A l \in L : l.of # s)
    BY ListedNotAwaited DEF Linked
  <1>4. \A j \in 1..Len(list) : ListedWell(p, W, e, j, list[j])
    BY DEF Linked, SynapsesLinked, ListedIsDrawn
  <1>5. \A t \in In(list) : t # s => t \in In(q.edges[e].syns)
    <2> HIDE DEF list
    <2> QED
      BY <1>1, <1>2, RemovedOnce
  <1>6. /\ Len(q.edges[e].syns) = Len(list) - 1
        /\ \A j \in 1..Len(list) - 1 : /\ At(j) \in 1..Len(list) /\ At(j) # i
                                       /\ q.edges[e].syns[j] = list[At(j)]
                                       /\ q.edges[e].maps[j] = maps[At(j)]
        /\ \A j, k \in 1..Len(list) - 1 : At(j) = At(k) => j = k
    <2> HIDE DEF list, maps
    <2>1. /\ Len(RemoveAt(list, i)) = Len(list) - 1
          /\ \A j \in 1..Len(list) - 1 : RemoveAt(list, i)[j] = IF j < i THEN list[j] ELSE list[j + 1]
      BY <1>1, <1>2, RemovedAt
    <2>2. \A j \in 1..Len(maps) - 1 : RemoveAt(maps, i)[j] = IF j < i THEN maps[j] ELSE maps[j + 1]
      BY <1>1, <1>2, RemovedAt
    <2>3. \A j \in 1..Len(list) - 1 : /\ At(j) \in 1..Len(list) /\ At(j) # i
                                      /\ \A k \in 1..Len(list) - 1 : At(j) = At(k) => j = k
      BY <1>1, <1>2
    <2> QED
      BY <1>1, <1>2, <2>1, <2>2, <2>3
  <1> HIDE DEF list, maps, At
  <1>7. TopicsLinked(q, W, L)
    BY TopicsStayLinked DEF RestKept, Linked
  <1>8. DrawnIsListed(q)
    <2> SUFFICES ASSUME NEW t \in q.syns, q.edge[t] # None
                 PROVE  t \in In(q.edges[q.edge[t]].syns)
      BY DEF DrawnIsListed
    <2>1. t \in p.syns /\ t # s /\ p.edge[t] # None /\ q.edge[t] = p.edge[t]
      BY DEF RestKept
    <2>2. p.edge[t] \in 1..Edges(p) /\ t \in In(p.edges[p.edge[t]].syns)
      BY <2>1, EdgeOfSynapse DEF Linked, SynapsesLinked, DrawnIsListed
    <2>3. CASE p.edge[t] = e
      BY <1>5, <2>1, <2>2, <2>3 DEF list
    <2>4. CASE p.edge[t] # e
      BY <2>1, <2>2, <2>4 DEF ListsCut
    <2> QED
      BY <2>3, <2>4
  <1>9. ListedIsDrawn(q, W)
    <2> SUFFICES ASSUME NEW f \in 1..Edges(p), NEW j \in 1..Len(q.edges[f].syns)
                 PROVE  ListedWell(q, W, f, j, q.edges[f].syns[j])
      BY <1>2 DEF ListedIsDrawn
    <2> DEFINE t == q.edges[f].syns[j]
    <2>1. CASE f = e
      <3>1. j \in 1..Len(list) - 1
        BY <1>6, <2>1
      <3>2. /\ At(j) \in 1..Len(list) /\ At(j) # i /\ t = list[At(j)]
            /\ q.edges[e].maps[j] = maps[At(j)]
        BY <1>6, <2>1, <3>1
      <3>3. ListedWell(p, W, e, At(j), t)
        BY <1>4, <3>2
      <3>4. CASE t \notin W
        <4>1. /\ maps[At(j)] = t /\ t \in p.syns /\ p.edge[t] = e
              /\ \A k \in 1..Len(list) : list[k] = t => k = At(j)
          BY <3>3, <3>4 DEF ListedWell, list, maps
        <4>2. t # s
          BY <1>2, <3>2, <4>1
        <4>3. \A k \in 1..Len(list) - 1 : q.edges[e].syns[k] = t => k = j
          BY <1>6, <3>1, <4>1
        <4> QED
          BY <1>6, <2>1, <3>2, <4>1, <4>2, <4>3 DEF ListedWell, RestKept
      <3>5. CASE t \in W
        BY <3>5 DEF ListedWell
      <3> QED
        BY <3>4, <3>5
    <2>2. CASE f # e
      <3>1. /\ q.edges[f].syns = p.edges[f].syns /\ q.edges[f].maps = p.edges[f].maps
        BY <2>2 DEF ListsCut
      <3>2. ListedWell(p, W, f, j, t)
        BY <3>1 DEF Linked, SynapsesLinked, ListedIsDrawn
      <3>3. t \notin W => t # s
        BY <1>3, <2>2, <3>2 DEF ListedWell
      <3> QED
        BY <3>1, <3>2, <3>3 DEF ListedWell, RestKept
    <2> QED
      BY <2>1, <2>2
  <1>10. SynapsesAwaited(q, W, L)
    BY <1>3 DEF Linked, SynapsesLinked, SynapsesAwaited, RestKept, SameMappings
  <1> QED
    BY <1>7, <1>8, <1>9, <1>10 DEF Linked, SynapsesLinked

\* A turn that throws may have lost an item that is still drawn.
Slips(p, q, W, L) ==
    /\ Mine(q) \subseteq Mine(p) /\ q.new = p.new
    /\ Linked(q, IF q.threw THEN W \cup Mine(p) ELSE W, L)

\* A linked page is one on which nothing slipped.
LEMMA LinkedSlips ==
    ASSUME NEW p, NEW q, Sound(q), Mine(q) \subseteq Mine(p), q.new = p.new,
           NEW W, NEW L, Linked(q, W, L)
    PROVE  Slips(p, q, W, L)
  <1>1. Kept(q, q)
    BY SimplyKept DEF Sound
  <1>2. Linked(q, W \cup Mine(p), L)
    BY <1>1, KeptLinked
  <1> QED
    BY <1>2 DEF Slips

\* Keeping everything but x lets nothing slip, when nothing is asked of x.
LEMMA KeptSlips ==
    ASSUME NEW p, Sound(p), NEW q, NEW x, KeptBut(p, q, x), NEW W, NEW L, Linked(p, W, L),
           x \in W \/ x \notin Synapses \/ \A l \in L : l.of # x
    PROVE  Slips(p, q, W, L)
  <1>1. Linked(q, W, L) /\ Linked(q, W \cup Mine(p), L)
    BY StayLinked
  <1> QED
    BY <1>1 DEF Slips, KeptBut, SynapsesSame, TopicsSame, Mine

\* Keeping everything lets nothing slip.
LEMMA AllKeptSlips ==
    ASSUME NEW p, Sound(p), NEW q, Kept(p, q), NEW W, NEW L, Linked(p, W, L)
    PROVE  Slips(p, q, W, L)
  <1>1. None \notin Synapses
    BY PageAssumption DEF Items
  <1> QED
    BY <1>1, KeptSlips DEF Kept

\* A synapse that is listed has left the collection, and then the list.
LEMMA HalfGoneSlips ==
    ASSUME NEW p, Sound(p), NEW W, NEW L, Linked(p, W, L),
           NEW e \in 1..Edges(p), NEW i \in 1..Len(p.edges[e].syns),
           NEW s, s = p.edges[e].syns[i],
           NEW q, Sound(q), RestKept(p, q, s), q.syns = p.syns \ {s}, SameLists(p, q)
    PROVE  /\ q.threw => Slips(p, q, W, L)
           /\ Slips(p, DropAt(q, e, i), W, L)
  <1>1. s \in W \/ s \in p.syns
    BY ListedNotAwaited DEF Linked
  <1>2. Mine(q) \subseteq Mine(p) /\ q.new = p.new
    BY DEF RestKept, TopicsSame, Mine
  <1>3. ASSUME q.threw PROVE Slips(p, q, W, L)
    <2>1. Linked(q, W \cup {s}, L)
      BY SynapseHalfGone
    <2>2. DOMAIN q = Fields
      BY DEF Sound
    <2>5. Kept(q, q)
      BY <2>2, SimplyKept
    <2>3. W \cup {s} \subseteq W \cup Mine(p)
      BY <1>1 DEF Mine
    <2>4. Linked(q, W \cup Mine(p), L)
      BY <2>1, <2>5, <2>3, KeptLinked
    <2> QED
      BY <1>2, <1>3, <2>4 DEF Slips
  <1>4. Slips(p, DropAt(q, e, i), W, L)
    <2> DEFINE d == DropAt(q, e, i)
    <2>1. e \in 1..Edges(q) /\ i \in 1..Len(q.edges[e].syns)
      BY DEF SameLists
    <2>2. RestKept(q, d, s) /\ d.syns = q.syns /\ ListsCut(q, d, e, i) /\ Sound(d)
      BY <2>1, DropAtCuts, DropAtSound
    <2> HIDE DEF d
    <2>3. ListsCut(p, d, e, i)
      BY <2>2 DEF ListsCut, SameLists
    <2>4. RestKept(p, d, s) /\ d.syns = p.syns \ {s}
      BY <2>2, RestTwice
    <2>5. Linked(d, W, L)
      BY <2>3, <2>4, SynapseGone
    <2>6. Mine(d) \subseteq Mine(p) /\ d.new = p.new
      BY <2>4 DEF RestKept, TopicsSame, Mine
    <2>7. Slips(p, d, W, L)
      BY <2>2, <2>5, <2>6, LinkedSlips
    <2> QED
      BY <2>7 DEF d
  <1> QED
    BY <1>3, <1>4

\* Control.removeEdge, wherever it throws.
LEMMA removeEdgeLinked ==
    ASSUME NEW p, Sound(p), NEW W, NEW L, Linked(p, W, L), NEW e \in 1..Edges(p)
    PROVE  Slips(p, removeEdge(p, e), W, L)
  <1> DEFINE i == p.edges[e].shown + 1
             s == p.edges[e].syns[i]
             a == HideIfLast(p, e, p.edges[e].maps)
             b == IF a.threw THEN a
                  ELSE IF i \in DOMAIN p.edges[e].maps /\ p.edges[e].maps[i] # None
                       THEN DestroyMapping(a, s) ELSE Throw(a)
             c == IF b.threw THEN b ELSE RemoveSynapse(b, s)
             d == IF c.threw THEN c ELSE DropAt(c, e, i)
  <1>1. removeEdge(p, e) = d
    BY DEF removeEdge, Then
  <1>2. Sound(a) /\ Edges(a) = Edges(p) /\ Kept(p, a) /\ DOMAIN a = Fields
    BY HideIfLastSound, HideIfLastKept DEF Edges, Sound
  <1>3. DOMAIN p.edges[e].maps = 1..Len(p.edges[e].syns)
    BY ListsOfEdge
  <1>4. s = p.edges[e].syns[i]
    OBVIOUS
  <1> HIDE DEF a, i, s
  <1>6. CASE a.threw \/ ~(i \in DOMAIN p.edges[e].maps /\ p.edges[e].maps[i] # None)
    <2>1. d = a \/ d = Throw(a)
      BY <1>2, <1>6 DEF Throw, Fields
    <2>2. Kept(p, d)
      BY <1>2, <2>1, SimplyKept, KeptTwice DEF Kept
    <2> HIDE DEF d
    <2> QED
      BY <1>1, <2>2, AllKeptSlips
  <1>7. CASE ~a.threw /\ i \in DOMAIN p.edges[e].maps /\ p.edges[e].maps[i] # None
    <2>1. i \in 1..Len(p.edges[e].syns)
      BY <1>3, <1>7
    <2>2. b = DestroyMapping(a, s)
      BY <1>7
    <2> HIDE DEF b
    <2>3. Sound(b) /\ KeptBut(p, b, s)
      BY <1>2, <2>2, DestroyMappingSound, MappingRemoved, KeptIsKeptBut, KeptTwice
    <2>4. CASE b.threw
      <3>1. s \in W \/ \A l \in L : l.of # s
        BY <1>4, <2>1, ListedNotAwaited DEF Linked
      <3>2. Slips(p, b, W, L)
        BY <2>3, <3>1, KeptSlips
      <3> QED
        BY <1>1, <2>4, <3>2
    <2>5. CASE ~b.threw
      <3>1. c = RemoveSynapse(b, s)
        BY <2>5
      <3> HIDE DEF c
      <3>2. Sound(c) /\ RestKept(b, c, s) /\ c.syns = b.syns \ {s} /\ SameLists(b, c)
        BY <2>3, <3>1, RemoveSynapseSound, SynapseTakenOff DEF Sound
      <3>3. RestKept(p, c, s) /\ c.syns = p.syns \ {s} /\ SameLists(p, c)
        BY <2>3, <3>2, KeptButIsRest, RestTwice DEF SameLists
      <3>4. /\ c.threw => Slips(p, c, W, L)
            /\ Slips(p, DropAt(c, e, i), W, L)
        BY <1>4, <2>1, <3>2, <3>3, HalfGoneSlips
      <3> QED
        BY <1>1, <3>4
    <2> QED
      BY <2>4, <2>5
  <1> QED
    BY <1>6, <1>7

\* Control.deleteEdge, wherever it throws.
LEMMA deleteEdgeLinked ==
    ASSUME NEW p, Sound(p), NEW W, NEW L, Linked(p, W, L), NEW e \in 1..Edges(p)
    PROVE  Slips(p, deleteEdge(p, e), W, L)
  <1> DEFINE i == p.edges[e].shown + 1
             s == p.edges[e].syns[i]
             a == HideIfLast(p, e, p.edges[e].syns)
             h == Destroyed(a, s)
             b == IF a.threw THEN a ELSE RemoveSynapse(h, s)
             c == IF b.threw THEN b ELSE RemoveMapping(b, s)
             d == IF c.threw THEN c ELSE DropAt(c, e, i)
  <1>1. deleteEdge(p, e) = IF i \notin DOMAIN p.edges[e].syns THEN Throw(p)
                           ELSE IF s \notin Own THEN p ELSE d
    BY DEF deleteEdge, Then
  <1>2. Sound(a) /\ Edges(a) = Edges(p) /\ Kept(p, a) /\ DOMAIN a = Fields
    BY HideIfLastSound, HideIfLastKept DEF Edges, Sound
  <1>3. DOMAIN p.edges[e].syns = 1..Len(p.edges[e].syns) /\ s = p.edges[e].syns[i]
    BY ListsOfEdge
  <1> HIDE DEF a, i, s
  <1>4. DOMAIN p = Fields
    BY DEF Sound
  <1>5. Slips(p, p, W, L) /\ Slips(p, Throw(p), W, L) /\ Slips(p, a, W, L)
    BY <1>2, <1>4, SimplyKept, AllKeptSlips
  <1>6. Sound(h) /\ Kept(a, h) /\ DOMAIN h = Fields
    <2>1. Sound(h) /\ Kept(a, h)
      BY <1>2, DestroyedSound, SimplyKept
    <2> QED
      BY <2>1 DEF Sound
  <1> HIDE DEF h
  <1>7. CASE a.threw
    <2>1. d = a
      BY <1>7
    <2> QED
      BY <1>1, <1>5, <2>1
  <1>8. CASE ~a.threw /\ i \in 1..Len(p.edges[e].syns)
    <2>1. b = RemoveSynapse(h, s)
      BY <1>8
    <2>2. Sound(b) /\ RestKept(h, b, s) /\ b.syns = h.syns \ {s} /\ SameLists(h, b)
      BY <1>6, <2>1, RemoveSynapseSound, SynapseTakenOff
    <2> HIDE DEF b
    <2>3. KeptBut(p, h, s)
      BY <1>2, <1>6, KeptIsKeptBut, KeptTwice
    <2>4. RestKept(p, b, s) /\ b.syns = p.syns \ {s} /\ SameLists(p, b)
      BY <2>2, <2>3, KeptButIsRest, RestTwice DEF SameLists
    <2>5. CASE b.threw
      <3>1. d = b
        BY <2>5
      <3>2. Slips(p, b, W, L)
        BY <1>3, <1>8, <2>2, <2>4, <2>5, HalfGoneSlips
      <3> QED
        BY <1>1, <1>5, <3>1, <3>2
    <2>6. CASE ~b.threw
      <3>1. c = RemoveMapping(b, s)
        BY <2>6
      <3> HIDE DEF c
      <3>2. Sound(c) /\ KeptBut(b, c, s)
        BY <2>2, <3>1, RemoveMappingSound, MappingRemoved DEF Sound
      <3>3. RestKept(p, c, s) /\ c.syns = p.syns \ {s} /\ SameLists(p, c)
        BY <2>4, <3>2, KeptButIsRest, RestTwice DEF SameLists
      <3>4. /\ c.threw => Slips(p, c, W, L)
            /\ Slips(p, DropAt(c, e, i), W, L)
        BY <1>3, <1>8, <3>2, <3>3, HalfGoneSlips
      <3> QED
        BY <1>1, <1>5, <3>4
    <2> QED
      BY <2>5, <2>6
  <1> HIDE DEF d
  <1> QED
    BY <1>1, <1>3, <1>5, <1>7, <1>8

\* Cable.synapseRemoved leaves nothing half done: if it throws, it does so before or after.
LEMMA synapseRemovedLinked ==
    ASSUME NEW p, Sound(p), NEW W, NEW L, Linked(p, W, L), NEW s
    PROVE  Linked(synapseRemoved(p, s), W, L) /\ synapseRemoved(p, s).new = p.new
  <1> DEFINE e == p.edge[s]
             list == p.edges[e].syns
             i == IF Contains(list, s) THEN SelectInSeq(list, LAMBDA x : x = s) ELSE Len(list)
             a == HideIfLast(p, e, p.edges[e].maps)
             b == IF a.threw THEN a ELSE IF list = <<>> THEN a ELSE DropAt(a, e, i)
             c == IF b.threw THEN b ELSE RemoveSynapse(b, s)
             d == IF c.threw THEN c ELSE RemoveMapping(c, s)
  <1>1. synapseRemoved(p, s) = IF s \notin p.syns THEN p
                               ELSE IF p.edge[s] = None THEN Throw(p) ELSE d
    BY DEF synapseRemoved, Then
  <1>2. DOMAIN p = Fields
    BY DEF Sound
  <1>3. Linked(Throw(p), W, L) /\ Throw(p).new = p.new
    BY <1>2, SimplyKept, KeptLinked DEF Kept, KeptBut
  <1>4. CASE s \in p.syns /\ p.edge[s] # None
    <2>1. e \in 1..Edges(p) /\ s \in In(list)
      BY <1>4, EdgeOfSynapse DEF Linked, SynapsesLinked, DrawnIsListed
    <2>2. list \in Seq(Synapses)
      BY <2>1, ListsOfEdge
    <2>3. Contains(list, s) /\ list # <<>>
      BY <2>1, <2>2, LenProperties DEF Contains, In
    <2>4. i \in 1..Len(list) /\ list[i] = s
      <3> HIDE DEF list
      <3> QED
        BY <2>2, <2>3, FirstPlace DEF SelectInSeq
    <2>5. Sound(a) /\ Edges(a) = Edges(p) /\ Kept(p, a)
      BY <2>1, HideIfLastSound, HideIfLastKept DEF Edges
    <2>6. s = p.edges[e].syns[i] /\ i \in 1..Len(p.edges[e].syns)
      BY <2>4
    <2> HIDE DEF a, i
    <2>7. CASE a.threw
      <3>1. d = a
        BY <2>7
      <3>2. Linked(a, W, L)
        BY <2>5, KeptLinked
      <3>3. a.new = p.new
        BY <2>5 DEF Kept, KeptBut
      <3> QED
        BY <1>1, <1>4, <3>1, <3>2, <3>3
    <2>8. CASE ~a.threw
      <3>1. b = DropAt(a, e, i)
        BY <2>3, <2>8
      <3> HIDE DEF e, list, b
      <3>2. KeptBut(p, a, s)
        BY <2>5, KeptIsKeptBut
      <3>3. RestKept(p, a, s) /\ a.syns = p.syns /\ SameLists(p, a)
        BY <3>2, KeptButIsRest
      <3>4. i \in 1..Len(a.edges[e].syns) /\ e \in 1..Edges(a)
        BY <2>1, <2>5, <2>6, <3>3 DEF SameLists
      <3>5. Sound(b) /\ RestKept(a, b, s) /\ b.syns = a.syns /\ ListsCut(a, b, e, i)
        BY <2>5, <3>1, <3>4, DropAtSound, DropAtCuts
      <3>6. RestKept(p, b, s) /\ b.syns = p.syns
        BY <3>3, <3>5, RestTwice
      <3>7. ListsCut(p, b, e, i)
        BY <2>1, <3>3, <3>5 DEF ListsCut, SameLists
      <3>8. CASE b.threw
        <4>1. b.threw = a.threw
          <5>1. DOMAIN a = Fields
            BY <2>5 DEF Sound
          <5> QED
            BY <3>1, <5>1 DEF DropAt, Fields
        <4> QED
          BY <2>8, <3>8, <4>1
      <3>9. CASE ~b.threw
        <4>1. c = RemoveSynapse(b, s)
          BY <3>9
        <4> HIDE DEF c
        <4>2. DOMAIN b = Fields
          BY <3>5 DEF Sound
        <4>3. Sound(c) /\ RestKept(b, c, s) /\ c.syns = b.syns \ {s} /\ SameLists(b, c)
          BY <3>5, <4>1, <4>2, RemoveSynapseSound, SynapseTakenOff
        <4>4. RestKept(p, c, s) /\ c.syns = p.syns \ {s}
          BY <3>6, <4>3, RestTwice
        <4>5. ListsCut(p, c, e, i)
          BY <2>1, <3>7, <4>3 DEF ListsCut, SameLists
        <4>6. Linked(c, W, L) /\ c.new = p.new
          BY <2>1, <2>6, <4>4, <4>5, SynapseGone DEF RestKept
        <4>7. CASE c.threw
          BY <1>1, <1>4, <4>6, <4>7
        <4>8. CASE ~c.threw
          <5>1. DOMAIN c = Fields
            BY <4>3 DEF Sound
          <5>2. d = RemoveMapping(c, s)
            BY <4>8
          <5> HIDE DEF d
          <5>3. KeptBut(c, d, s)
            BY <5>1, <5>2, MappingRemoved
          <5>4. RestKept(c, d, s) /\ d.syns = c.syns /\ SameLists(c, d)
            BY <5>3, KeptButIsRest
          <5>5. RestKept(p, d, s) /\ d.syns = p.syns \ {s}
            BY <4>4, <5>4, RestTwice
          <5>6. ListsCut(p, d, e, i)
            BY <2>1, <4>5, <5>4 DEF ListsCut, SameLists
          <5>7. Linked(d, W, L) /\ d.new = p.new
            BY <2>1, <2>6, <5>5, <5>6, SynapseGone DEF RestKept
          <5> QED
            BY <1>1, <1>4, <5>7
        <4> QED
          BY <4>7, <4>8
      <3> QED
        BY <3>8, <3>9
    <2> QED
      BY <2>7, <2>8
  <1> HIDE DEF d
  <1> QED
    BY <1>1, <1>3, <1>4

-----------------------------------------------------------------------------
\* A topic leaves the collection, and its node fades out.

TopicCut(p, q, t) ==
    SynapsesSame(p, q, t) /\ NodesSame(p, q) /\ q.topics = p.topics \ {t} /\ q.new = p.new

\* The topic t is taken off the collection and nothing else is.
LEMMA TopicTakenOff ==
    ASSUME NEW p, DOMAIN p = Fields, NEW t
    PROVE  TopicCut(p, RemoveTopic(p, t), t)
  <1> DEFINE r == [p EXCEPT !.topics = @ \ {t}]
  <1>1. /\ DOMAIN r = Fields /\ r.topics = p.topics \ {t} /\ SameGraph(p, r)
        /\ r.syns = p.syns /\ r.new = p.new /\ r.maps = p.maps /\ r.drafts = p.drafts
    BY DEF Fields, SameGraph
  <1>2. RemoveTopic(p, t) = IF t \in p.topics THEN Checks(r) ELSE p
    BY DEF RemoveTopic
  <1> HIDE DEF r
  <1>3. TopicCut(p, r, t)
    BY <1>1 DEF TopicCut, SynapsesSame, NodesSame, SameLists, SameMappings, SameGraph, HasMapping,
                RowsOf, Edges
  <1>4. Kept(r, Checks(r)) /\ Kept(p, p)
    BY <1>1, SimplyKept
  <1>5. KeptBut(r, Checks(r), t) /\ KeptBut(p, p, t)
    BY <1>4, KeptIsKeptBut
  <1>6. TopicCut(p, Checks(r), t)
    BY <1>3, <1>5 DEF TopicCut, KeptBut, SynapsesSame, SameLists, SameMappings, TopicsSame, NodesSame
  <1>7. t \notin p.topics => TopicCut(p, p, t)
    BY <1>5 DEF TopicCut, KeptBut, TopicsSame
  <1> QED
    BY <1>2, <1>6, <1>7

\* A step that keeps everything but t may come before or after the cut.
LEMMA CutTwice ==
    ASSUME NEW p, NEW q, NEW r, NEW t,
           \/ KeptBut(p, q, t) /\ TopicCut(q, r, t)
           \/ TopicCut(p, q, t) /\ KeptBut(q, r, t)
    PROVE  TopicCut(p, r, t)
  BY DEF TopicCut, KeptBut, SynapsesSame, SameLists, SameMappings, TopicsSame, NodesSame

\* Without the topic, its node is only drawn as it fades out.
LEMMA TopicGone ==
    ASSUME NEW p, Sound(p), NEW W, NEW L, Linked(p, W, L), NEW t \in Topics,
           NEW q, TopicCut(p, q, t)
    PROVE  /\ Linked(q, W \cup {t}, L)
           /\ \A key : /\ {key} \in In(q.timers) /\ key[1] = t
                       /\ \/ NodesAt(p, key) # {}
                          \/ p.node[t] # None /\ key = Key(p.node[t])
                       => Linked(q, W, L)
  <1>1. t \notin Synapses
    BY PageAssumption
  <1>2. SynapsesLinked(q, W, L) /\ SynapsesLinked(q, W \cup {t}, L)
    BY <1>1, SynapsesStayLinked DEF Linked, TopicCut
  <1>3. Numbered(q) /\ TopicsAwaited(q, W, L) /\ TopicsAwaited(q, W \cup {t}, L)
    BY DEF Linked, TopicsLinked, Numbered, TopicsAwaited, TopicCut, NodesSame
  <1>4. \A u \in Topics : Unsaved(q, u) <=> (Unsaved(p, u) /\ u # t)
    BY DEF Unsaved, TopicCut, NodesSame
  <1>5. \A n \in p.graph : n \in Topics \X BOOLEAN \X Nat
    BY DEF Sound, GraphSound, NodeObject
  <1>6. UnderCidOnly(q, W) /\ UnderCidOnly(q, W \cup {t})
    BY <1>4, <1>5 DEF Linked, TopicsLinked, UnderCidOnly, TopicCut, NodesSame
  <1>7. UnsavedOrFading(q, W \cup {t})
    BY <1>4, <1>5 DEF Linked, TopicsLinked, UnsavedOrFading, TopicCut, NodesSame
  <1>8. ASSUME NEW key, {key} \in In(q.timers), key[1] = t,
               NodesAt(p, key) # {} \/ (p.node[t] # None /\ key = Key(p.node[t]))
        PROVE  UnsavedOrFading(q, W)
    <2> SUFFICES ASSUME NEW n \in p.graph, n[2] = TRUE, n[1] \notin W
                 PROVE  Unsaved(q, n[1]) \/ {Key(n)} \in In(q.timers)
      BY DEF UnsavedOrFading, TopicCut, NodesSame
    <2>1. Unsaved(p, n[1]) \/ {Key(n)} \in In(q.timers)
      BY DEF Linked, TopicsLinked, UnsavedOrFading, TopicCut, NodesSame
    <2>2. CASE n[1] # t
      BY <1>4, <1>5, <2>1, <2>2
    <2>3. CASE n[1] = t /\ Unsaved(p, t)
      <3>1. Key(n) = <<t, TRUE>>
        BY <2>3 DEF Key
      <3>2. CASE NodesAt(p, key) # {}
        <4>1. PICK m \in p.graph : Key(m) = key
          BY <3>2 DEF NodesAt
        <4>2. m[1] = t
          BY <1>8, <4>1 DEF Key
        <4>3. m[2] = TRUE
          BY <2>3, <4>2 DEF Linked, TopicsLinked, UnderCidOnly
        <4> QED
          BY <1>8, <3>1, <4>1, <4>2, <4>3 DEF Key
      <3>3. CASE p.node[t] # None /\ key = Key(p.node[t])
        <4>1. p.node[t][1] = t /\ p.node[t][2] = TRUE
          BY <2>3, <3>3 DEF Linked, TopicsLinked, Numbered, Unsaved
        <4> QED
          BY <1>8, <3>1, <3>3, <4>1 DEF Key
      <3> QED
        BY <1>8, <3>2, <3>3
    <2> QED
      BY <2>1, <2>2, <2>3
  <1> QED
    BY <1>2, <1>3, <1>6, <1>7, <1>8 DEF Linked, TopicsLinked

\* Cable.topicRemoved: the node fades out before its topic leaves.
LEMMA topicRemovedLinked ==
    ASSUME NEW p, Sound(p), NEW W, NEW L, Linked(p, W, L), NEW t \in Topics
    PROVE  Linked(topicRemoved(p, t), W, L) /\ topicRemoved(p, t).new = p.new
  <1> DEFINE key == Key(p.node[t])
             a == hideNode(p, key)
             b == IF a.threw THEN a ELSE RemoveTopic(a, t)
             c == IF b.threw THEN b ELSE RemoveMapping(b, t)
  <1>1. topicRemoved(p, t) = IF t \notin p.topics THEN p
                             ELSE IF p.node[t] = None THEN Throw(p) ELSE c
    BY DEF topicRemoved, Then
  <1>2. DOMAIN p = Fields
    BY DEF Sound
  <1>3. Linked(Throw(p), W, L) /\ Throw(p).new = p.new
    BY <1>2, SimplyKept, KeptLinked DEF Kept, KeptBut
  <1>4. Sound(a) /\ Kept(p, a) /\ (a.threw \/ {key} \in In(a.timers))
    BY hideNodeSound, hideNodeKept
  <1>5. key[1] = p.node[t][1]
    BY DEF Key
  <1> HIDE DEF a
  <1>6. Linked(a, W, L) /\ a.new = p.new /\ DOMAIN a = Fields
    <2>1. Linked(a, W, L)
      BY <1>4, KeptLinked
    <2> QED
      BY <1>4, <2>1 DEF Kept, KeptBut, Sound
  <1>7. CASE p.node[t] # None /\ ~a.threw
    <2>1. b = RemoveTopic(a, t)
      BY <1>7
    <2> HIDE DEF b
    <2>2. Sound(b) /\ TopicCut(a, b, t) /\ DOMAIN b = Fields
      <3>1. Sound(b)
        BY <1>4, <2>1, RemoveTopicSound
      <3> QED
        BY <1>6, <2>1, <3>1, TopicTakenOff DEF Sound
    <2>3. key[1] = t /\ a.node = p.node
      BY <1>4, <1>5, <1>7 DEF Linked, TopicsLinked, Numbered, Kept, KeptBut, TopicsSame, NodesSame
    <2>4. a.node[t] # None /\ key = Key(a.node[t])
      BY <1>7, <2>3
    <2> HIDE DEF key
    <2>5. \A q : TopicCut(a, q, t) => Linked(q, W, L) /\ q.new = p.new
      <3> SUFFICES ASSUME NEW q, TopicCut(a, q, t) PROVE Linked(q, W, L) /\ q.new = p.new
        OBVIOUS
      <3>1. {key} \in In(q.timers)
        BY <1>4, <1>7 DEF TopicCut, NodesSame
      <3>2. Linked(q, W, L)
        BY <1>4, <1>6, <2>3, <2>4, <3>1, TopicGone
      <3> QED
        BY <1>6, <3>2 DEF TopicCut
    <2>6. CASE b.threw
      <3>1. c = b
        BY <2>6
      <3> HIDE DEF c
      <3> QED
        BY <1>1, <1>3, <2>2, <2>5, <3>1
    <2>7. CASE ~b.threw
      <3>1. c = RemoveMapping(b, t)
        BY <2>7
      <3> HIDE DEF c
      <3>2. KeptBut(b, c, t)
        BY <2>2, <3>1, MappingRemoved
      <3>3. TopicCut(a, c, t)
        BY <2>2, <3>2, CutTwice
      <3> QED
        BY <1>1, <1>3, <2>5, <3>3
    <2> QED
      BY <2>6, <2>7
  <1>8. CASE a.threw
    <2>1. c = a
      BY <1>8
    <2> HIDE DEF c
    <2> QED
      BY <1>1, <1>3, <1>6, <2>1
  <1> HIDE DEF c
  <1> QED
    BY <1>1, <1>3, <1>7, <1>8

\* After the topic is taken off nothing slips, if its node is about to go or the handler threw.
LEMMA CutSlips ==
    ASSUME NEW p, Sound(p), NEW W, NEW L, Linked(p, W, L), NEW t \in Topics,
           NEW q, Sound(q), TopicCut(p, q, t), NEW key, key[1] = t, NodesAt(p, key) # {},
           q.threw \/ {key} \in In(q.timers)
    PROVE  Slips(p, q, W, L)
  <1>1. t \notin Synapses
    BY PageAssumption
  <1>2. Mine(q) \subseteq Mine(p) /\ q.new = p.new
    BY DEF TopicCut, SynapsesSame, Mine
  <1>3. CASE {key} \in In(q.timers)
    <2>1. Linked(q, W, L)
      BY <1>3, TopicGone
    <2> QED
      BY <1>2, <2>1, LinkedSlips
  <1>4. CASE q.threw /\ t \in p.topics
    <2>1. Linked(q, W \cup {t}, L)
      BY TopicGone
    <2>2. DOMAIN q = Fields
      BY DEF Sound
    <2>3. Kept(q, q)
      BY <2>2, SimplyKept
    <2>4. W \cup {t} \subseteq W \cup Mine(p)
      BY <1>4 DEF Mine
    <2>5. Linked(q, W \cup Mine(p), L)
      BY <2>1, <2>3, <2>4, KeptLinked
    <2> QED
      BY <1>2, <1>4, <2>5 DEF Slips
  <1>5. CASE t \notin p.topics
    <2>1. KeptBut(p, q, t)
      BY <1>5 DEF TopicCut, KeptBut, TopicsSame
    <2> QED
      BY <1>1, <2>1, KeptSlips
  <1> QED
    BY <1>3, <1>4, <1>5

\* Control.removeNode, wherever it throws.
LEMMA removeNodeFromMapLinked ==
    ASSUME NEW p, Sound(p), NEW W, NEW L, Linked(p, W, L), NEW n \in NodeObject
    PROVE  Slips(p, removeNodeFromMap(p, n), W, L)
  <1> DEFINE t == n[1]
             key == Key(n)
             a == DestroyMapping(p, t)
             b == IF a.threw THEN a ELSE RemoveTopic(a, t)
             c == IF b.threw THEN b ELSE hideNode(b, key)
  <1>1. removeNodeFromMap(p, n) = IF NodesAt(p, Key(n)) = {} THEN Throw(p) ELSE c
    BY DEF removeNodeFromMap, Then
  <1>2. t \in Topics /\ key[1] = t /\ t \notin Synapses
    BY PageAssumption DEF NodeObject, Key
  <1>3. DOMAIN p = Fields
    BY DEF Sound
  <1>4. Slips(p, Throw(p), W, L)
    BY <1>3, SimplyKept, AllKeptSlips
  <1>5. Sound(a) /\ KeptBut(p, a, t)
    BY <1>3, DestroyMappingSound, MappingRemoved
  <1> HIDE DEF t, key, a
  <1>6. Slips(p, a, W, L)
    BY <1>2, <1>5, KeptSlips
  <1>7. CASE a.threw
    <2>1. c = a
      BY <1>7
    <2> HIDE DEF c
    <2> QED
      BY <1>1, <1>4, <1>6, <2>1
  <1>8. CASE ~a.threw /\ NodesAt(p, key) # {}
    <2>1. b = RemoveTopic(a, t)
      BY <1>8
    <2> HIDE DEF b
    <2>2. DOMAIN a = Fields
      BY <1>5 DEF Sound
    <2>3. Sound(b) /\ TopicCut(a, b, t)
      BY <1>5, <2>1, <2>2, RemoveTopicSound, TopicTakenOff
    <2>4. TopicCut(p, b, t)
      BY <1>5, <2>3, CutTwice
    <2>5. CASE b.threw
      <3>1. c = b
        BY <2>5
      <3> HIDE DEF c
      <3>2. Slips(p, b, W, L)
        BY <1>2, <1>8, <2>3, <2>4, <2>5, CutSlips
      <3> QED
        BY <1>1, <1>4, <3>1, <3>2
    <2>6. CASE ~b.threw
      <3>1. c = hideNode(b, key)
        BY <2>6
      <3> HIDE DEF c
      <3>2. Sound(c) /\ Kept(b, c) /\ (c.threw \/ {key} \in In(c.timers))
        BY <2>3, <3>1, hideNodeSound, hideNodeKept
      <3>3. TopicCut(p, c, t)
        BY <2>4, <3>2, KeptIsKeptBut, CutTwice
      <3>4. Slips(p, c, W, L)
        BY <1>2, <1>8, <3>2, <3>3, CutSlips
      <3> QED
        BY <1>1, <1>4, <3>4
    <2> QED
      BY <2>5, <2>6
  <1> HIDE DEF c
  <1> QED
    BY <1>1, <1>4, <1>7, <1>8 DEF key

\* Control.deleteNode, wherever it throws.
LEMMA deleteNodeLinked ==
    ASSUME NEW p, Sound(p), NEW W, NEW L, Linked(p, W, L), NEW n \in NodeObject
    PROVE  Slips(p, deleteNode(p, n), W, L)
  <1> DEFINE t == n[1]
             key == Key(n)
             o == Destroyed(p, t)
             a == RemoveTopic(o, t)
             b == IF a.threw THEN a ELSE RemoveMapping(a, t)
             c == IF b.threw THEN b ELSE hideNode(b, key)
  <1>1. deleteNode(p, n) = IF NodesAt(p, Key(n)) = {} THEN Throw(p)
                           ELSE IF n[1] \notin Own THEN p ELSE c
    BY DEF deleteNode, Then
  <1>2. t \in Topics /\ key[1] = t
    BY DEF NodeObject, Key
  <1>3. DOMAIN p = Fields
    BY DEF Sound
  <1>4. Slips(p, Throw(p), W, L) /\ Slips(p, p, W, L)
    BY <1>3, SimplyKept, AllKeptSlips
  <1>5. Sound(o) /\ KeptBut(p, o, t)
    BY <1>3, DestroyedSound, SimplyKept, KeptIsKeptBut
  <1> HIDE DEF t, key, o
  <1>6. Sound(a) /\ TopicCut(p, a, t)
    <2>1. DOMAIN o = Fields
      BY <1>5 DEF Sound
    <2>2. Sound(a) /\ TopicCut(o, a, t)
      BY <1>5, <2>1, RemoveTopicSound, TopicTakenOff
    <2> QED
      BY <1>5, <2>2, CutTwice
  <1> HIDE DEF a
  <1>7. CASE NodesAt(p, key) # {}
    <2>1. CASE a.threw
      <3>1. c = a
        BY <2>1
      <3> HIDE DEF c
      <3>2. Slips(p, a, W, L)
        BY <1>2, <1>6, <1>7, <2>1, CutSlips
      <3> QED
        BY <1>1, <1>4, <3>1, <3>2
    <2>2. CASE ~a.threw
      <3>1. b = RemoveMapping(a, t)
        BY <2>2
      <3> HIDE DEF b
      <3>2. DOMAIN a = Fields
        BY <1>6 DEF Sound
      <3>3. Sound(b) /\ KeptBut(a, b, t)
        BY <1>6, <3>1, <3>2, RemoveMappingSound, MappingRemoved
      <3>4. TopicCut(p, b, t)
        BY <1>6, <3>3, CutTwice
      <3>5. CASE b.threw
        <4>1. c = b
          BY <3>5
        <4> HIDE DEF c
        <4>2. Slips(p, b, W, L)
          BY <1>2, <1>7, <3>3, <3>4, <3>5, CutSlips
        <4> QED
          BY <1>1, <1>4, <4>1, <4>2
      <3>6. CASE ~b.threw
        <4>1. c = hideNode(b, key)
          BY <3>6
        <4> HIDE DEF c
        <4>2. Sound(c) /\ Kept(b, c) /\ (c.threw \/ {key} \in In(c.timers))
          BY <3>3, <4>1, hideNodeSound, hideNodeKept
        <4>3. TopicCut(p, c, t)
          BY <3>4, <4>2, KeptIsKeptBut, CutTwice
        <4>4. Slips(p, c, W, L)
          BY <1>2, <1>7, <4>2, <4>3, CutSlips
        <4> QED
          BY <1>1, <1>4, <4>4
      <3> QED
        BY <3>5, <3>6
    <2> QED
      BY <2>1, <2>2
  <1> HIDE DEF c
  <1> QED
    BY <1>1, <1>4, <1>7 DEF key

-----------------------------------------------------------------------------
\* A model comes into its collection, not drawn yet.

\* A new topic has no node yet and is linked; synapses are left alone.
LEMMA AddTopicLinked ==
    ASSUME NEW p, Sound(p), NEW W, NEW L, Linked(p, W, L), NEW t \in Topics
    PROVE  LET q == AddTopic(p, t)
           IN  /\ Linked(q, W, L) /\ SynapsesSame(p, q, None) /\ q.new = p.new
               /\ q.made = p.made /\ q.topics = p.topics \cup {t}
               /\ t \notin p.topics => q.node[t] = None
  <1> DEFINE q == [p EXCEPT !.topics = @ \cup {t}, !.node[t] = None]
  <1>1. DOMAIN p = Fields /\ p.node \in [Topics -> NodeObject \cup {None}]
    BY DEF Sound, GraphSound
  <1>2. /\ DOMAIN q = Fields
        /\ q.topics = p.topics \cup {t} /\ q.node = [p.node EXCEPT ![t] = None]
        /\ q.syns = p.syns /\ q.maps = p.maps /\ q.drafts = p.drafts /\ q.new = p.new
        /\ q.graph = p.graph /\ q.made = p.made
        /\ q.edges = p.edges /\ q.edge = p.edge /\ q.timers = p.timers
    BY <1>1 DEF Fields
  <1>3. AddTopic(p, t) = IF t \in p.topics THEN p ELSE Checks(q)
    BY DEF AddTopic
  <1> HIDE DEF q
  <1>4. CASE t \in p.topics
    <2>1. Kept(p, p)
      BY <1>1, SimplyKept
    <2>2. p.topics = p.topics \cup {t}
      BY <1>4
    <2> QED
      BY <1>3, <1>4, <2>1, <2>2 DEF Kept, KeptBut
  <1>5. CASE t \notin p.topics
    <2>1. q.node[t] = None /\ \A u \in Topics \ {t} : q.node[u] = p.node[u]
      BY <1>1, <1>2
    <2>2. SynapsesSame(p, q, None)
      BY <1>2 DEF SynapsesSame, SameLists, SameMappings, HasMapping, RowsOf, Edges
    <2>3. None \notin Synapses
      BY PageAssumption DEF Items
    <2>4. SynapsesLinked(q, W, L)
      BY <2>2, <2>3, SynapsesStayLinked DEF Linked
    <2>5. Numbered(q)
      BY <1>2, <2>1 DEF Linked, TopicsLinked, Numbered
    <2>6. \A u \in Topics : Unsaved(q, u) <=> Unsaved(p, u)
      BY <1>2, <1>5, <2>1 DEF Unsaved
    <2>7. \A n \in p.graph : n[1] \in Topics
      BY DEF Sound, GraphSound, NodeObject
    <2>8. UnsavedOrFading(q, W) /\ UnderCidOnly(q, W)
      BY <1>2, <2>6, <2>7 DEF Linked, TopicsLinked, UnsavedOrFading, UnderCidOnly
    <2>9. p.topics \subseteq Topics
      BY DEF Sound, DataSound
    <2>10. TopicsAwaited(q, W, L)
      BY <1>2, <2>1, <2>9 DEF Linked, TopicsLinked, TopicsAwaited
    <2>11. Linked(q, W, L)
      BY <2>4, <2>5, <2>8, <2>10 DEF Linked, TopicsLinked
    <2>12. Kept(q, Checks(q))
      BY <1>2, SimplyKept
    <2>13. Checks(q) = AddTopic(p, t)
      BY <1>3, <1>5
    <2>14. SynapsesSame(p, Checks(q), None)
      BY <2>2, <2>12 DEF Kept, KeptBut, SynapsesSame, SameLists, SameMappings
    <2>15. Linked(Checks(q), W, L)
      <3>1. SynapsesLinked(Checks(q), W, L)
        BY <2>3, <2>14, SynapsesStayLinked DEF Linked
      <3>2. TopicsLinked(Checks(q), W, L)
        BY <2>11, <2>12, TopicsStayLinked DEF Linked, Kept, KeptBut
      <3> QED
        BY <3>1, <3>2 DEF Linked
    <2> QED
      BY <1>2, <2>1, <2>12, <2>13, <2>14, <2>15 DEF Kept, KeptBut, TopicsSame, NodesSame
  <1> QED
    BY <1>4, <1>5

\* A new synapse has no edge yet and is linked; topics are left alone.
LEMMA AddSynapseLinked ==
    ASSUME NEW p, Sound(p), NEW W, NEW L, Linked(p, W, L), NEW s \in Synapses
    PROVE  LET q == AddSynapse(p, s)
           IN  /\ Linked(q, W, L) /\ TopicsSame(p, q) /\ q.new = p.new
               /\ q.syns = p.syns \cup {s}
               /\ q.edge[s] = IF s \in p.syns THEN p.edge[s] ELSE None
  <1> DEFINE r == [p EXCEPT !.syns = @ \cup {s}, !.edge[s] = None]
             q == checkMappers(r)
  <1>1. DOMAIN p = Fields /\ p.edge \in [Synapses -> 1..Len(p.edges) \cup {None}]
    BY DEF Sound, GraphSound
  <1>2. /\ q.syns = p.syns \cup {s} /\ q.edge = [p.edge EXCEPT ![s] = None]
        /\ q.topics = p.topics /\ q.maps = p.maps /\ q.drafts = p.drafts
        /\ q.new = p.new /\ q.graph = p.graph /\ q.made = p.made /\ q.node = p.node
        /\ q.edges = p.edges /\ q.timers = p.timers
    <2>1. /\ DOMAIN r = Fields
          /\ r.syns = p.syns \cup {s} /\ r.edge = [p.edge EXCEPT ![s] = None]
          /\ r.topics = p.topics /\ r.maps = p.maps /\ r.drafts = p.drafts
          /\ r.new = p.new /\ r.graph = p.graph /\ r.made = p.made /\ r.node = p.node
          /\ r.edges = p.edges /\ r.timers = p.timers
      BY <1>1 DEF Fields
    <2> HIDE DEF r
    <2> QED
      BY <2>1 DEF checkMappers, Throw, Fields
  <1>3. AddSynapse(p, s) = IF s \in p.syns THEN p ELSE q
    BY DEF AddSynapse
  <1> HIDE DEF q
  <1>4. CASE s \in p.syns
    <2>1. Kept(p, p)
      BY <1>1, SimplyKept
    <2>2. p.syns = p.syns \cup {s}
      BY <1>4
    <2> QED
      BY <1>3, <1>4, <2>1, <2>2 DEF Kept, KeptBut
  <1>5. CASE s \notin p.syns
    <2>1. q.edge[s] = None /\ \A u \in Synapses \ {s} : q.edge[u] = p.edge[u]
      BY <1>1, <1>2
    <2>2. TopicsSame(p, q)
      BY <1>2 DEF TopicsSame, NodesSame
    <2>3. TopicsLinked(q, W, L)
      BY <2>2, TopicsStayLinked DEF Linked
    <2>4. p.syns \subseteq Synapses
      BY DEF Sound, DataSound
    <2>5. DrawnIsListed(q)
      BY <1>2, <2>1, <2>4 DEF Linked, SynapsesLinked, DrawnIsListed
    <2>6. ListedIsDrawn(q, W)
      <3> SUFFICES ASSUME NEW e \in 1..Edges(p), NEW i \in 1..Len(p.edges[e].syns)
                   PROVE  ListedWell(q, W, e, i, p.edges[e].syns[i])
        BY <1>2 DEF ListedIsDrawn, Edges
      <3>1. ListedWell(p, W, e, i, p.edges[e].syns[i])
        BY DEF Linked, SynapsesLinked, ListedIsDrawn
      <3> QED
        BY <1>2, <1>5, <2>1, <2>4, <3>1 DEF ListedWell
    <2>7. SynapsesAwaited(q, W, L)
      BY <1>2, <2>1 DEF Linked, SynapsesLinked, SynapsesAwaited, HasMapping, RowsOf
    <2>8. Linked(q, W, L)
      BY <2>3, <2>5, <2>6, <2>7 DEF Linked, SynapsesLinked
    <2> QED
      BY <1>2, <1>3, <1>5, <2>1, <2>2, <2>8
  <1> QED
    BY <1>4, <1>5

\* A timer ends: the node that fades out is the only one to go.
LEMMA ElapseLinked ==
    ASSUME NEW p, Sound(p), NEW W, NEW L, Linked(p, W, L), p.timers # <<>>
    PROVE  Linked(Elapse(p), W, L) /\ Elapse(p).new = p.new
  <1> DEFINE keys == Head(p.timers)
             q == [p EXCEPT !.timers = Tail(@)]
             r == Elapse(p)
  <1>1. DOMAIN p = Fields /\ p.timers \in Seq(SUBSET PageKey)
    BY DEF Sound, GraphSound
  <1>2. /\ DOMAIN q = Fields /\ q.graph = p.graph /\ q.timers = Tail(p.timers)
        /\ q.topics = p.topics /\ q.syns = p.syns /\ q.maps = p.maps /\ q.drafts = p.drafts
        /\ q.new = p.new /\ q.node = p.node /\ q.made = p.made
        /\ q.edges = p.edges /\ q.edge = p.edge
    BY <1>1 DEF Fields
  <1>3. r = IF \E key \in keys : keys = {key}
            THEN removeNode(q, CHOOSE key \in keys : TRUE) ELSE removeAdjacence(q, keys)
    BY DEF Elapse
  <1>4. In(p.timers) \subseteq In(q.timers) \cup {keys}
    <2> DEFINE s == p.timers
    <2>1. s \in Seq(SUBSET PageKey) /\ s # <<>>
      BY <1>1
    <2> HIDE DEF s
    <2>2. Len(Tail(s)) = Len(s) - 1 /\ \A i \in 1..Len(s) - 1 : Tail(s)[i] = s[i + 1]
      BY <2>1, HeadTailProperties
    <2>3. In(s) \subseteq In(Tail(s)) \cup {Head(s)}
      <3> SUFFICES ASSUME NEW i \in 1..Len(s), i # 1 PROVE s[i] \in In(Tail(s))
        BY <2>1 DEF In
      <3>1. i - 1 \in 1..Len(s) - 1 /\ Len(s) \in Nat
        BY <2>1, LenProperties
      <3>2. i - 1 \in 1..Len(Tail(s)) /\ Tail(s)[i - 1] = s[i]
        BY <2>2, <3>1
      <3> QED
        BY <3>2 DEF In
    <2> QED
      BY <1>2, <2>3 DEF s
  <1> HIDE DEF q, keys, r
  <1>5. /\ r.topics = p.topics /\ r.syns = p.syns /\ r.maps = p.maps /\ r.drafts = p.drafts
        /\ r.new = p.new /\ r.node = p.node /\ r.made = p.made
        /\ r.edges = p.edges /\ r.edge = p.edge /\ r.timers = q.timers
        /\ r.graph \subseteq p.graph
    BY <1>2, <1>3 DEF removeNode, removeAdjacence, Fields
  <1>6. \A n \in r.graph : {Key(n)} # keys
    <2> SUFFICES ASSUME NEW n \in r.graph, keys = {Key(n)} PROVE FALSE
      OBVIOUS
    <2>1. r = removeNode(q, Key(n))
      BY <1>3
    <2>2. r.graph = q.graph \ NodesAt(q, Key(n))
      BY <1>2, <2>1 DEF removeNode, Fields
    <2> QED
      BY <2>2 DEF NodesAt
  <1>7. SynapsesLinked(r, W, L)
    <2>1. SynapsesSame(p, r, None) /\ None \notin Synapses
      BY <1>5, PageAssumption DEF SynapsesSame, SameLists, SameMappings, HasMapping, RowsOf, Edges, Items
    <2> QED
      BY <2>1, SynapsesStayLinked DEF Linked
  <1>8. Numbered(r) /\ UnderCidOnly(r, W) /\ TopicsAwaited(r, W, L)
    BY <1>5 DEF Linked, TopicsLinked, Numbered, UnderCidOnly, TopicsAwaited, Unsaved
  <1>9. UnsavedOrFading(r, W)
    BY <1>4, <1>5, <1>6 DEF Linked, TopicsLinked, UnsavedOrFading, Unsaved
  <1> QED
    BY <1>5, <1>7, <1>8, <1>9 DEF Linked, TopicsLinked, r

-----------------------------------------------------------------------------
\* What is drawn anew.

NodeAdded(p, q, key) ==
    /\ SynapsesSame(p, q, None)
    /\ q.topics = p.topics /\ q.new = p.new /\ q.node = p.node /\ q.timers = p.timers
    /\ Numbered(q)
    /\ \A n \in q.graph \ p.graph : Key(n) = key

\* addNode on a page whose nodes are numbered: a node with the key, and the rest as before.
LEMMA NodeIsAdded ==
    ASSUME NEW p, Sound(p), NEW key \in PageKey, Numbered(p)
    PROVE  NodeAdded(p, addNode(p, key), key)
  <1> DEFINE n == p.made[key[1]] + 1
             o == <<key[1], key[2], n>>
             q == [p EXCEPT !.made[key[1]] = n, !.graph = @ \cup {o}]
  <1>1. DOMAIN p = Fields /\ p.made \in [Topics -> Nat] /\ p.graph \subseteq NodeObject
    BY DEF Sound, GraphSound
  <1>2. CASE NodesAt(p, key) # {}
    <2>1. Kept(p, p)
      BY <1>1, SimplyKept
    <2> QED
      BY <1>2, <2>1 DEF addNode, NodeAdded, Kept, KeptBut
  <1>3. CASE NodesAt(p, key) = {}
    <2>1. key[1] \in Topics /\ key = <<key[1], key[2]>>
      BY DEF PageKey
    <2>2. /\ q.graph = p.graph \cup {o} /\ q.made = [p.made EXCEPT ![key[1]] = n]
          /\ q.topics = p.topics /\ q.syns = p.syns /\ q.maps = p.maps /\ q.drafts = p.drafts
          /\ q.new = p.new /\ q.node = p.node
          /\ q.edges = p.edges /\ q.edge = p.edge /\ q.timers = p.timers
      BY <1>1, <2>1 DEF Fields
    <2>3. n # 0 /\ n \in Nat /\ Key(o) = key /\ o[1] = key[1]
      BY <1>1, <2>1 DEF Key
    <2>4. addNode(p, key) = q
      BY <1>3 DEF addNode
    <2> HIDE DEF q, o, n
    <2>5. \A t \in Topics : q.made[t] = IF t = key[1] THEN n ELSE p.made[t]
      BY <1>1, <2>1, <2>2
    <2>6. \A m \in p.graph : Key(m) # key /\ m[1] \in Topics
      BY <1>1, <1>3 DEF NodesAt, NodeObject
    <2>7. Numbered(q)
      <3>1. \A m \in q.graph : q.made[m[1]] # 0
        BY <2>1, <2>2, <2>3, <2>5, <2>6 DEF Numbered
      <3>2. \A m, k \in q.graph : Key(m) = Key(k) => m = k
        BY <2>2, <2>3, <2>6 DEF Numbered
      <3> QED
        BY <2>2, <3>1, <3>2 DEF Numbered
    <2>8. SynapsesSame(p, q, None)
      BY <2>2 DEF SynapsesSame, SameLists, SameMappings, HasMapping, RowsOf, Edges
    <2> QED
      BY <2>2, <2>3, <2>4, <2>7, <2>8 DEF NodeAdded
  <1> QED
    BY <1>2, <1>3

\* A node drawn under the id its topic is to be drawn under.
AsIs(p, W, key) == key[1] \in W \/ (key[2] = TRUE <=> Unsaved(p, key[1]))

\* A node added for a topic that is drawn as it is keeps the links.
LEMMA addNodeLinked ==
    ASSUME NEW p, Sound(p), NEW W, NEW L, Linked(p, W, L), NEW key \in PageKey, AsIs(p, W, key)
    PROVE  NodeAdded(p, addNode(p, key), key) /\ Linked(addNode(p, key), W, L)
  <1> DEFINE q == addNode(p, key)
  <1>1. NodeAdded(p, q, key)
    BY NodeIsAdded DEF Linked, TopicsLinked
  <1> HIDE DEF q
  <1>2. SynapsesLinked(q, W, L)
    <2>1. None \notin Synapses
      BY PageAssumption DEF Items
    <2> QED
      BY <1>1, <2>1, SynapsesStayLinked DEF Linked, NodeAdded
  <1>3. \A n \in q.graph : n \in p.graph \/ (n[1] = key[1] /\ n[2] = key[2])
    BY <1>1 DEF NodeAdded, Key
  <1>4. \A t : Unsaved(q, t) <=> Unsaved(p, t)
    BY <1>1 DEF NodeAdded, Unsaved
  <1>5. UnsavedOrFading(q, W) /\ UnderCidOnly(q, W)
    BY <1>1, <1>3, <1>4 DEF Linked, TopicsLinked, UnsavedOrFading, UnderCidOnly, AsIs, NodeAdded
  <1>6. TopicsAwaited(q, W, L)
    BY <1>1 DEF Linked, TopicsLinked, TopicsAwaited, NodeAdded
  <1> QED
    BY <1>1, <1>2, <1>5, <1>6 DEF Linked, TopicsLinked, NodeAdded, q

\* Nothing else waits for a topic that is to be drawn, and it has never been drawn under its cid.
TopicToDraw(p, W, K, t) ==
    \/ t \in W
    \/ /\ \A l \in K : l.of # t
       /\ t \in p.new => t \in p.topics /\ p.made[t] = 0
       /\ t \notin p.new => ~Unsaved(p, t)

\* Topic.renderTopic of a topic that has never been drawn, or has come from the server.
LEMMA renderTopicLinked ==
    ASSUME NEW p, Sound(p), NEW W, NEW L, NEW K, K \subseteq L, Linked(p, W, L), NEW t \in Topics,
           TopicToDraw(p, W, K, t)
    PROVE  Linked(renderTopic(p, t), W, K) /\ renderTopic(p, t).new = p.new
  <1> DEFINE key == <<t, t \in p.new>>
             q == addNode(p, key)
             o == NodeAt(q, key)
             r == [q EXCEPT !.node[t] = o]
  <1>1. key \in PageKey
    <2>1. (t \in p.new) \in BOOLEAN
      OBVIOUS
    <2> QED
      BY <2>1, Zenon DEF PageKey
  <1>2. renderTopic(p, t) = IF ~HasMapping(p, t) THEN Throw(p) ELSE r
    BY DEF renderTopic
  <1>3. key[1] = t /\ (key[2] = TRUE <=> t \in p.new)
    <2>1. key[1] = t /\ key[2] = (t \in p.new)
      BY Zenon
    <2> HIDE DEF key
    <2> QED
      BY <2>1
  <1> HIDE DEF key
  <1>4. NodeAdded(p, q, key) /\ Sound(q) /\ NodesAt(q, key) # {}
    BY <1>1, NodeIsAdded, addNodeSound DEF Linked, TopicsLinked
  <1> HIDE DEF q
  <1>5. o \in q.graph /\ Key(o) = key
    BY <1>4 DEF NodesAt, NodeAt
  <1> HIDE DEF o
  <1>6. o[1] = t /\ (o[2] = TRUE <=> t \in p.new)
    BY <1>3, <1>5 DEF Key
  <1>7. DOMAIN q = Fields /\ q.node \in [Topics -> NodeObject \cup {None}] /\ o # None
    <2>1. o \in NodeObject /\ q.node \in [Topics -> NodeObject \cup {None}] /\ DOMAIN q = Fields
      BY <1>4, <1>5 DEF Sound, GraphSound
    <2> QED
      BY <2>1, PageAssumption DEF NodeObject
  <1>8. /\ r.node = [q.node EXCEPT ![t] = o]
        /\ r.topics = q.topics /\ r.syns = q.syns /\ r.maps = q.maps /\ r.drafts = q.drafts
        /\ r.new = q.new /\ r.graph = q.graph /\ r.made = q.made
        /\ r.edges = q.edges /\ r.edge = q.edge /\ r.timers = q.timers
    BY <1>7 DEF Fields
  <1> HIDE DEF r
  <1>9. r.node[t] = o /\ \A u \in Topics \ {t} : r.node[u] = p.node[u]
    BY <1>4, <1>7, <1>8 DEF NodeAdded
  <1>10. SynapsesLinked(r, W, K)
    <2>1. SynapsesSame(p, r, None)
      BY <1>4, <1>8 DEF NodeAdded, SynapsesSame, SameLists, SameMappings, HasMapping, RowsOf, Edges
    <2>2. None \notin Synapses
      BY PageAssumption DEF Items
    <2> QED
      BY <2>1, <2>2, SynapsesStayLinked DEF Linked
  <1>11. Numbered(r)
    BY <1>4, <1>6, <1>8, <1>9 DEF NodeAdded, Linked, TopicsLinked, Numbered
  <1>12. \A n \in r.graph : n[1] \in Topics /\ (n \in p.graph \/ Key(n) = key)
    BY <1>4, <1>8 DEF NodeAdded, Sound, GraphSound, NodeObject
  <1>13. \A u \in Topics \ {t} : Unsaved(r, u) <=> Unsaved(p, u)
    BY <1>4, <1>8, <1>9 DEF Unsaved, NodeAdded
  <1>14. Unsaved(r, t) <=> (t \in p.topics /\ t \in p.new)
    BY <1>4, <1>6, <1>7, <1>8, <1>9 DEF Unsaved, NodeAdded
  <1>15. r.timers = p.timers /\ r.topics = p.topics /\ r.new = p.new
    BY <1>4, <1>8 DEF NodeAdded
  <1> USE DEF TopicToDraw
  <1>16. UnsavedOrFading(r, W)
    <2> SUFFICES ASSUME NEW n \in r.graph, n[2] = TRUE, n[1] \notin W
                 PROVE  Unsaved(r, n[1]) \/ {Key(n)} \in In(p.timers)
      BY <1>15 DEF UnsavedOrFading
    <2>1. CASE n \in p.graph
      <3>1. Unsaved(p, n[1]) \/ {Key(n)} \in In(p.timers)
        BY <2>1 DEF Linked, TopicsLinked, UnsavedOrFading
      <3> QED
        BY <1>12, <1>13, <1>14, <3>1 DEF Unsaved
    <2>2. CASE Key(n) = key
      <3>1. n[1] = t /\ t \in p.new
        BY <1>3, <2>2 DEF Key
      <3> QED
        BY <1>14, <3>1
    <2> QED
      BY <1>12, <2>1, <2>2
  <1>17. UnderCidOnly(r, W)
    <2> SUFFICES ASSUME NEW n \in r.graph, Unsaved(r, n[1]), n[1] \notin W
                 PROVE  n[2] = TRUE
      BY DEF UnderCidOnly
    <2>1. CASE n \in p.graph /\ n[1] # t
      BY <1>12, <1>13, <2>1 DEF Linked, TopicsLinked, UnderCidOnly
    <2>2. CASE n \in p.graph /\ n[1] = t
      BY <1>14, <2>2 DEF Linked, TopicsLinked, Numbered
    <2>3. CASE Key(n) = key
      <3>1. n[1] = t /\ n[2] = key[2]
        BY <1>3, <2>3 DEF Key
      <3> QED
        BY <1>3, <1>14, <3>1
    <2> QED
      BY <1>12, <2>1, <2>2, <2>3
  <1>18. TopicsAwaited(r, W, K)
    <2>1. p.topics \subseteq Topics
      BY DEF Sound, DataSound
    <2> QED
      BY <1>9, <1>15, <2>1 DEF Linked, TopicsLinked, TopicsAwaited
  <1>19. Linked(Throw(p), W, K) /\ Throw(p).new = p.new
    <2>1. DOMAIN p = Fields
      BY DEF Sound
    <2>2. Kept(p, Throw(p))
      BY <2>1, SimplyKept
    <2> QED
      BY <2>2, KeptLinked DEF Kept, KeptBut
  <1> QED
    BY <1>2, <1>10, <1>11, <1>15, <1>16, <1>17, <1>18, <1>19 DEF Linked, TopicsLinked

\* Graph.addAdjacence: a new edge lists nothing yet.
LEMMA addAdjacenceLinked ==
    ASSUME NEW p, Sound(p), NEW W, NEW L, Linked(p, W, L),
           NEW k1 \in PageKey, AsIs(p, W, k1), NEW k2 \in PageKey, AsIs(p, W, k2)
    PROVE  LET q == addAdjacence(p, k1, k2)
           IN  /\ Linked(q, W, L) /\ q.syns = p.syns /\ q.edge = p.edge
               /\ q.topics = p.topics /\ q.new = p.new /\ SameMappings(p, q, None)
  <1> DEFINE a == addNode(p, k1)
             q == addNode(a, k2)
             new == [ends |-> {k1, k2}, syns |-> <<>>, maps |-> <<>>, shown |-> 0]
             r == [q EXCEPT !.edges = Append(@, new), !.adj = @ \cup {Len(q.edges) + 1}]
  <1>1. addAdjacence(p, k1, k2) = IF EdgesAt(q, {k1, k2}) # {} THEN q ELSE r
    BY DEF addAdjacence
  <1>2. Sound(a) /\ NodeAdded(p, a, k1) /\ Linked(a, W, L)
    BY addNodeSound, addNodeLinked
  <1>3. AsIs(a, W, k2)
    BY <1>2 DEF AsIs, Unsaved, NodeAdded
  <1> HIDE DEF a
  <1>4. Sound(q) /\ NodeAdded(a, q, k2) /\ Linked(q, W, L)
    BY <1>2, <1>3, addNodeSound, addNodeLinked
  <1> HIDE DEF q
  <1>5. /\ q.syns = p.syns /\ q.edge = p.edge /\ SameMappings(p, q, None)
        /\ q.topics = p.topics /\ q.new = p.new
    BY <1>2, <1>4 DEF NodeAdded, SynapsesSame, SameMappings
  <1>6. DOMAIN q = Fields /\ q.edges \in Seq(Edge) /\ Edges(q) \in Nat
    BY <1>4, LenProperties DEF Sound, GraphSound, Edges
  <1>7. /\ r.edges = Append(q.edges, new) /\ r.topics = q.topics /\ r.syns = q.syns
        /\ r.maps = q.maps /\ r.drafts = q.drafts /\ r.new = q.new /\ r.graph = q.graph
        /\ r.node = q.node /\ r.made = q.made /\ r.edge = q.edge /\ r.timers = q.timers
    BY <1>6 DEF Fields
  <1>8. new.syns = <<>>
    OBVIOUS
  <1>9. new \in Edge
    BY EmptySeq DEF Edge, PageKey
  <1> HIDE DEF r, new
  <1>10. /\ Edges(r) = Edges(q) + 1 /\ r.edges[Edges(q) + 1] = new
         /\ \A e \in 1..Edges(q) : r.edges[e] = q.edges[e]
    BY <1>6, <1>7, <1>9, AppendProperties DEF Edges
  <1>11. TopicsLinked(r, W, L)
    BY <1>4, <1>7, TopicsStayLinked DEF Linked, TopicsSame, NodesSame
  <1>12. DrawnIsListed(r)
    <2> SUFFICES ASSUME NEW s \in q.syns, q.edge[s] # None
                 PROVE  s \in In(r.edges[q.edge[s]].syns)
      BY <1>7 DEF DrawnIsListed
    <2>1. q.edge[s] \in 1..Edges(q)
      BY <1>4, EdgeOfSynapse
    <2> QED
      BY <1>4, <1>10, <2>1 DEF Linked, SynapsesLinked, DrawnIsListed
  <1>13. ListedIsDrawn(r, W)
    <2> SUFFICES ASSUME NEW e \in 1..Edges(q) + 1, NEW i \in 1..Len(r.edges[e].syns)
                 PROVE  ListedWell(r, W, e, i, r.edges[e].syns[i])
      BY <1>10 DEF ListedIsDrawn
    <2>1. CASE e \in 1..Edges(q)
      <3>1. ListedWell(q, W, e, i, q.edges[e].syns[i])
        BY <1>4, <1>10, <2>1 DEF Linked, SynapsesLinked, ListedIsDrawn
      <3> QED
        BY <1>7, <1>10, <2>1, <3>1 DEF ListedWell
    <2>2. CASE e = Edges(q) + 1
      <3>1. Len(r.edges[e].syns) = 0
        BY <1>8, <1>10, <2>2, EmptySeq
      <3> QED
        BY <3>1
    <2> QED
      BY <1>6, <2>1, <2>2
  <1>14. SynapsesAwaited(r, W, L)
    BY <1>4, <1>7 DEF Linked, SynapsesLinked, SynapsesAwaited, HasMapping, RowsOf
  <1>15. Linked(r, W, L)
    BY <1>11, <1>12, <1>13, <1>14 DEF Linked, SynapsesLinked
  <1>16. SameMappings(p, r, None)
    BY <1>5, <1>7 DEF SameMappings, HasMapping, RowsOf
  <1> QED
    BY <1>1, <1>4, <1>5, <1>7, <1>15, <1>16

\* A synapse is drawn as an edge, which lists it.
SynapseListed(q, r, s, e, m) ==
    /\ Edges(r) = Edges(q)
    /\ r.edge = [q.edge EXCEPT ![s] = e]
    /\ r.edges[e].syns = Append(q.edges[e].syns, s)
    /\ r.edges[e].maps = Append(q.edges[e].maps, m)
    /\ \A f \in 1..Edges(q) \ {e} : /\ r.edges[f].syns = q.edges[f].syns
                                    /\ r.edges[f].maps = q.edges[f].maps
    /\ r.syns = q.syns /\ SameMappings(q, r, None) /\ TopicsSame(q, r) /\ r.new = q.new

\* A synapse entered in an edge's list keeps the links, if it is wronged or was not yet drawn.
LEMMA ListedLinked ==
    ASSUME NEW q, Sound(q), NEW W, NEW L, NEW K, K \subseteq L, Linked(q, W, L),
           NEW s \in Synapses, NEW e \in 1..Edges(q), NEW m \in Synapses \cup {None},
           NEW r, SynapseListed(q, r, s, e, m),
           \/ s \in W
           \/ s \in q.syns /\ q.edge[s] = None /\ m = s /\ \A l \in K : l.of # s
    PROVE  Linked(r, W, K)
  <1> DEFINE list == q.edges[e].syns
             maps == q.edges[e].maps
  <1>1. /\ list \in Seq(Synapses) /\ maps \in Seq(Synapses \cup {None})
        /\ Len(maps) = Len(list) /\ Len(list) \in Nat
    BY ListsOfEdge, LenProperties
  <1>2. r.edges[e].syns = Append(list, s) /\ r.edges[e].maps = Append(maps, m)
    BY DEF SynapseListed
  <1> HIDE DEF list, maps
  <1>3. /\ Len(Append(list, s)) = Len(list) + 1
        /\ Append(list, s)[Len(list) + 1] = s /\ Append(maps, m)[Len(list) + 1] = m
        /\ \A j \in 1..Len(list) : Append(list, s)[j] = list[j] /\ Append(maps, m)[j] = maps[j]
    BY <1>1, AppendProperties
  <1>4. In(list) \cup {s} \subseteq In(Append(list, s))
    BY <1>1, <1>3 DEF In
  <1>5. q.edge \in [Synapses -> 1..Len(q.edges) \cup {None}] /\ q.syns \subseteq Synapses
    BY DEF Sound, GraphSound, DataSound
  <1>6. r.edge[s] = e /\ \A u \in Synapses \ {s} : r.edge[u] = q.edge[u]
    BY <1>5 DEF SynapseListed
  <1>7. e # None
    <2>1. Edges(q) \in Nat
      BY LenProperties DEF Sound, GraphSound, Edges
    <2> QED
      BY <2>1, PageAssumption
  <1>8. TopicsLinked(r, W, K)
    BY TopicsStayLinked DEF Linked, SynapseListed
  <1>9. DrawnIsListed(r)
    <2> SUFFICES ASSUME NEW u \in q.syns, r.edge[u] # None
                 PROVE  u \in In(r.edges[r.edge[u]].syns)
      BY DEF DrawnIsListed, SynapseListed
    <2>1. CASE u = s
      BY <1>2, <1>4, <1>6, <2>1
    <2>2. CASE u # s
      <3>1. r.edge[u] = q.edge[u] /\ q.edge[u] \in 1..Edges(q)
        BY <1>5, <1>6, <2>2, EdgeOfSynapse
      <3>2. u \in In(q.edges[q.edge[u]].syns)
        BY <3>1 DEF Linked, SynapsesLinked, DrawnIsListed
      <3>3. CASE q.edge[u] = e
        BY <1>2, <1>4, <3>1, <3>2, <3>3 DEF list
      <3>4. CASE q.edge[u] # e
        BY <3>1, <3>2, <3>4 DEF SynapseListed
      <3> QED
        BY <3>3, <3>4
    <2> QED
      BY <2>1, <2>2
  <1>10. \A f \in 1..Edges(q) : \A j \in 1..Len(q.edges[f].syns) :
            ListedWell(q, W, f, j, q.edges[f].syns[j])
    BY DEF Linked, SynapsesLinked, ListedIsDrawn
  <1>11. ListedIsDrawn(r, W)
    <2> SUFFICES ASSUME NEW f \in 1..Edges(q), NEW j \in 1..Len(r.edges[f].syns),
                        r.edges[f].syns[j] \notin W
                 PROVE  ListedWell(r, W, f, j, r.edges[f].syns[j])
      BY DEF ListedIsDrawn, SynapseListed, ListedWell
    <2> DEFINE u == r.edges[f].syns[j]
    <2>1. CASE f # e
      <3>1. ListedWell(q, W, f, j, u) /\ u \notin W
        BY <1>10, <2>1 DEF SynapseListed
      <3>2. u # s
        <4>1. f # None
          <5>1. Edges(q) \in Nat
            BY LenProperties DEF Sound, GraphSound, Edges
          <5> QED
            BY <5>1, PageAssumption
        <4>2. q.edge[u] = f
          BY <3>1 DEF ListedWell
        <4> QED
          BY <2>1, <3>1, <4>1, <4>2
      <3>3. u \in q.syns /\ r.edge[u] = f
        BY <1>5, <1>6, <3>1, <3>2 DEF ListedWell
      <3> QED
        BY <2>1, <3>1, <3>3 DEF ListedWell, SynapseListed
    <2>2. CASE f = e /\ j \in 1..Len(list)
      <3>1. u = list[j] /\ u \notin W
        BY <1>2, <1>3, <2>2
      <3>2. ListedWell(q, W, e, j, list[j])
        BY <1>10, <2>2 DEF list
      <3>3. /\ maps[j] = u /\ u \in q.syns /\ q.edge[u] = e
            /\ \A k \in 1..Len(list) : list[k] = u => k = j
        BY <3>1, <3>2 DEF ListedWell, list, maps
      <3>4. u # s
        BY <1>7, <3>1, <3>3
      <3>5. r.edge[u] = e
        BY <1>5, <1>6, <3>3, <3>4
      <3>6. \A k \in 1..Len(list) + 1 : Append(list, s)[k] = u => k = j
        BY <1>1, <1>3, <3>3, <3>4
      <3> QED
        BY <1>2, <1>3, <2>2, <3>3, <3>5, <3>6 DEF ListedWell, SynapseListed
    <2>3. CASE f = e /\ j = Len(list) + 1
      <3>1. u = s
        BY <1>2, <1>3, <2>3
      <3>2. s \in q.syns /\ q.edge[s] = None /\ m = s
        BY <3>1
      <3>3. \A k \in 1..Len(list) : list[k] # s
        <4> SUFFICES ASSUME NEW k \in 1..Len(list), list[k] = s PROVE FALSE
          OBVIOUS
        <4>1. ListedWell(q, W, e, k, s)
          BY <1>10 DEF list
        <4> QED
          BY <1>7, <3>1, <3>2, <4>1 DEF ListedWell
      <3>4. \A k \in 1..Len(list) + 1 : Append(list, s)[k] = s => k = j
        BY <1>1, <1>3, <2>3, <3>3
      <3> QED
        BY <1>2, <1>3, <1>6, <2>3, <3>1, <3>2, <3>4 DEF ListedWell, SynapseListed
    <2>4. f = e => j \in 1..Len(list) \/ j = Len(list) + 1
      BY <1>1, <1>2, <1>3
    <2> QED
      BY <2>1, <2>2, <2>3, <2>4
  <1>12. SynapsesAwaited(r, W, K)
    <2> SUFFICES ASSUME NEW l \in K, l.of \in Synapses \ W
                 PROVE  /\ "mapping" \in l.got => HasMapping(r, l.of)
                        /\ "model" \in l.got => l.of \in r.syns
                        /\ l.of \in r.syns => r.edge[l.of] = None
      BY DEF SynapsesAwaited
    <2>1. l.of # s
      OBVIOUS
    <2>2. /\ "mapping" \in l.got => HasMapping(q, l.of)
          /\ "model" \in l.got => l.of \in q.syns
          /\ l.of \in q.syns => q.edge[l.of] = None
      BY DEF Linked, SynapsesLinked, SynapsesAwaited
    <2>3. None \notin Synapses
      BY PageAssumption DEF Items
    <2> QED
      BY <1>6, <2>1, <2>2, <2>3 DEF SynapseListed, SameMappings
  <1> QED
    BY <1>8, <1>9, <1>11, <1>12 DEF Linked, SynapsesLinked

\* A topic the page has is drawn under the id its node has.
Drawable(p, W, n) ==
    n \in NodeObject \cup {None} /\ (n # None => AsIs(p, W, Key(n)))

\* The node of a topic of a linked page may be drawn again.
LEMMA DrawnAsIs ==
    ASSUME NEW p, Sound(p), NEW W, NEW L, Linked(p, W, L), NEW t \in p.topics
    PROVE  Drawable(p, W, p.node[t])
  <1>1. t \in Topics /\ p.node[t] \in NodeObject \cup {None}
    BY DEF Sound, DataSound, GraphSound
  <1>2. p.node[t] # None => p.node[t][1] = t
    BY <1>1 DEF Linked, TopicsLinked, Numbered
  <1> QED
    BY <1>1, <1>2 DEF Drawable, AsIs, Key, Unsaved

SynapseToDraw(p, W, K, s) ==
    \/ s \in W
    \/ s \in p.syns /\ p.edge[s] = None /\ HasMapping(p, s) /\ \A l \in K : l.of # s

\* Synapse.renderSynapse of a synapse that is not drawn yet.
LEMMA renderSynapseLinked ==
    ASSUME NEW p, Sound(p), NEW W, NEW L, NEW K, K \subseteq L, Linked(p, W, L),
           NEW s \in Synapses,
           NEW n1, Drawable(p, W, n1), NEW n2, Drawable(p, W, n2),
           SynapseToDraw(p, W, K, s)
    PROVE  Linked(renderSynapse(p, s, n1, n2), W, K) /\ renderSynapse(p, s, n1, n2).new = p.new
  <1> DEFINE k1 == Key(n1)
             k2 == Key(n2)
             q == addAdjacence(p, k1, k2)
             e == TheEdge(q, {k1, k2})
             m == IF HasMapping(p, s) THEN s ELSE None
             old == q.edges[e]
             new == [old EXCEPT !.syns = Append(@, s), !.maps = Append(@, m)]
             r == [q EXCEPT !.edge[s] = e,
                            !.edges[e].syns = Append(@, s), !.edges[e].maps = Append(@, m)]
  <1>1. CASE n1 = None \/ n2 = None
    <2>1. DOMAIN p = Fields
      BY DEF Sound
    <2>2. Kept(p, Throw(p))
      BY <2>1, SimplyKept
    <2>3. renderSynapse(p, s, n1, n2) = Throw(p)
      BY <1>1 DEF renderSynapse
    <2>4. Linked(Throw(p), W, K) /\ Throw(p).new = p.new
      BY <2>2, KeptLinked DEF Kept, KeptBut
    <2> QED
      BY <2>3, <2>4
  <1>2. CASE ~(n1 = None \/ n2 = None)
    <2>1. k1 \in PageKey /\ k2 \in PageKey
      BY <1>2 DEF Drawable, NodeObject, Key, PageKey
    <2>2. renderSynapse(p, s, n1, n2) = selectEdge(r, e)
      BY <1>2 DEF renderSynapse
    <2>3. m \in Synapses \cup {None} /\ (HasMapping(p, s) => m = s)
      OBVIOUS
    <2>4. AsIs(p, W, k1) /\ AsIs(p, W, k2)
      BY <1>2 DEF Drawable
    <2> HIDE DEF k1, k2, m
    <2>5. /\ Sound(q) /\ EdgesAt(q, {k1, k2}) # {} /\ Linked(q, W, L)
          /\ q.syns = p.syns /\ q.edge = p.edge /\ q.topics = p.topics /\ q.new = p.new
      BY <2>1, <2>4, addAdjacenceSound, addAdjacenceLinked
    <2> HIDE DEF q
    <2>6. e \in q.adj
      BY <2>5 DEF EdgesAt, TheEdge
    <2>7. DOMAIN q = Fields /\ q.edges \in Seq(Edge) /\ e \in 1..Edges(q)
      BY <2>5, <2>6 DEF Sound, GraphSound, Edges
    <2> HIDE DEF e
    <2>8. old \in Edge /\ e \in DOMAIN q.edges /\ DOMAIN q.edges = 1..Edges(q)
      BY <2>7 DEF Edges
    <2>9. r.edges = [q.edges EXCEPT ![e] = new] /\ r.edge = [q.edge EXCEPT ![s] = e]
      BY <2>7, <2>8 DEF Fields, Edge
    <2>10. /\ DOMAIN r = Fields /\ r.topics = q.topics /\ r.syns = q.syns /\ r.maps = q.maps
           /\ r.drafts = q.drafts /\ r.new = q.new /\ r.graph = q.graph /\ r.node = q.node
           /\ r.made = q.made /\ r.timers = q.timers
      BY <2>7 DEF Fields
    <2>11. new.syns = Append(old.syns, s) /\ new.maps = Append(old.maps, m)
      BY <2>8 DEF Edge
    <2> HIDE DEF r, new
    <2>12. /\ Edges(r) = Edges(q) /\ r.edges[e] = new
           /\ \A f \in 1..Edges(q) \ {e} : r.edges[f] = q.edges[f]
      BY <2>7, <2>8, <2>9 DEF Edges
    <2>13. SameMappings(q, r, None) /\ TopicsSame(q, r)
      BY <2>10 DEF SameMappings, TopicsSame, NodesSame, HasMapping, RowsOf
    <2>14. SynapseListed(q, r, s, e, m)
      BY <2>9, <2>10, <2>11, <2>12, <2>13 DEF SynapseListed
    <2>15. Kept(r, selectEdge(r, e))
      BY <2>10, SimplyKept
    <2>16. SynapseListed(q, selectEdge(r, e), s, e, m)
      BY ZenonT(30), <2>7, <2>14, <2>15 DEF SynapseListed, Kept, KeptBut, SynapsesSame, SameLists, SameMappings,
                                TopicsSame, NodesSame
    <2>17. Linked(selectEdge(r, e), W, K)
      BY <2>3, <2>5, <2>7, <2>16, ListedLinked DEF SynapseToDraw
    <2> QED
      BY <2>2, <2>5, <2>10, <2>15, <2>17 DEF Kept, KeptBut
  <1> QED
    BY <1>1, <1>2

\* Nothing else is on its way for an item about to be drawn: a topic is not drawn
\* under its cid, and a synapse has all it needs.
ToDraw(p, W, K, x) ==
    \/ x \in W
    \/ /\ \A l \in K : l.of # x
       /\ x \in Topics => x \notin p.new /\ ~Unsaved(p, x)
       /\ x \in Synapses => x \in p.syns /\ p.edge[x] = None /\ HasMapping(p, x)

\* What has been waited for is drawn.
LEMMA DrawnLinked ==
    ASSUME NEW p, Sound(p), NEW W, NEW L, NEW K, K \subseteq L, Linked(p, W, L), NEW x \in Items,
           ToDraw(p, W, K, x)
    PROVE  Linked(Drawn(p, x), W, K) /\ Drawn(p, x).new = p.new
  <1>1. CASE IsTopic(x)
    <2>1. x \in Topics /\ Drawn(p, x) = renderTopic(p, x)
      BY <1>1 DEF IsTopic, Drawn
    <2>2. TopicToDraw(p, W, K, x)
      BY <2>1 DEF ToDraw, TopicToDraw
    <2> QED
      BY <2>1, <2>2, renderTopicLinked
  <1>2. CASE ~IsTopic(x)
    <2>1. x \in Synapses
      BY <1>2 DEF Items, IsTopic
    <2> DEFINE n1 == p.node[Ends[x][1]]
               n2 == p.node[Ends[x][2]]
    <2>2. Drawn(p, x) = IF {Ends[x][1], Ends[x][2]} \subseteq p.topics
                        THEN renderSynapse(p, x, n1, n2) ELSE Throw(p)
      BY <1>2 DEF Drawn
    <2>3. CASE ~({Ends[x][1], Ends[x][2]} \subseteq p.topics)
      <3>1. DOMAIN p = Fields
        BY DEF Sound
      <3>2. Kept(p, Throw(p))
        BY <3>1, SimplyKept
      <3>3. Linked(Throw(p), W, K) /\ Throw(p).new = p.new
        BY <3>2, KeptLinked DEF Kept, KeptBut
      <3> QED
        BY <2>2, <2>3, <3>3
    <2>4. CASE {Ends[x][1], Ends[x][2]} \subseteq p.topics
      <3>1. Drawable(p, W, n1) /\ Drawable(p, W, n2)
        BY <2>1, <2>4, PageAssumption, DrawnAsIs
      <3> HIDE DEF n1, n2
      <3>3. SynapseToDraw(p, W, K, x)
        BY <2>1 DEF ToDraw, SynapseToDraw
      <3>2. Linked(renderSynapse(p, x, n1, n2), W, K) /\ renderSynapse(p, x, n1, n2).new = p.new
        BY <2>1, <3>1, <3>3, renderSynapseLinked
      <3> QED
        BY <2>2, <2>4, <3>2
    <2> QED
      BY <2>3, <2>4
  <1> QED
    BY <1>1, <1>2

-----------------------------------------------------------------------------
\* The turns over the selection, the neighbours and the filtered topics.  Each
\* is a fold over steps, one for each element.  The steps of most keep the page
\* sound and all that matters to the links; those that remove or delete may slip,
\* and the first that throws is the last.

Stays(f, s, v) == Sound(v) /\ Kept(f, v)

Turned(f, v) ==
    /\ Sound(v) /\ Edges(v) = Edges(f)
    /\ f.threw => v = f
    /\ ~f.threw => \A W, L : Linked(f, W, L) => Slips(f, v, W, L)
Turns(f, s, v) == Turned(f, v)

\* A page that has not changed, and one change after another.
LEMMA StaysAsIs ==
    ASSUME NEW p, Sound(p)
    PROVE  Stays(p, {}, p) /\ Turned(p, p)
  <1>1. Kept(p, p)
    BY SimplyKept DEF Sound
  <1>2. \A W, L : Linked(p, W, L) => Slips(p, p, W, L)
    BY <1>1, AllKeptSlips
  <1> QED
    BY <1>1, <1>2 DEF Stays, Turned

\* Keeping everything is transitive.
LEMMA KeptOn ==
    ASSUME NEW p, NEW q, NEW r, Kept(p, q), Kept(q, r)
    PROVE  Kept(p, r)
  BY KeptTwice DEF Kept

\* Turned is transitive: a turn may be made of several.
LEMMA TurnedOn ==
    ASSUME NEW p, NEW q, NEW r, Turned(p, q), Turned(q, r)
    PROVE  Turned(p, r)
  <1>1. ASSUME ~p.threw, ~q.threw, NEW W, NEW L, Linked(p, W, L)
        PROVE  Slips(p, r, W, L)
    <2>1. Slips(p, q, W, L) /\ Linked(q, W, L)
      BY <1>1 DEF Turned, Slips
    <2>2. Slips(q, r, W, L)
      BY <1>1, <2>1 DEF Turned
    <2>3. Mine(q) \subseteq Mine(p) /\ Mine(r) \subseteq Mine(p) /\ r.new = p.new
      BY <2>1, <2>2 DEF Slips
    <2>4. CASE ~r.threw
      BY <2>2, <2>3, <2>4 DEF Slips
    <2>5. CASE r.threw
      <3>1. Linked(r, W \cup Mine(q), L)
        BY <2>2, <2>5 DEF Slips
      <3>2. Sound(r) /\ Kept(r, r)
        <4>1. Sound(r)
          BY DEF Turned
        <4> QED
          BY <4>1, SimplyKept DEF Sound
      <3>3. W \cup Mine(q) \subseteq W \cup Mine(p)
        BY <2>3
      <3>4. Linked(r, W \cup Mine(p), L)
        BY <3>1, <3>2, <3>3, KeptLinked
      <3> QED
        BY <2>3, <2>5, <3>4 DEF Slips
    <2> QED
      BY <2>4, <2>5
  <1> QED
    BY <1>1 DEF Turned

\* A step of such a turn: nothing is done after a throw.
LEMMA TurnedStep ==
    ASSUME NEW p, NEW v, Turned(p, v), NEW w, Sound(w), Edges(w) = Edges(v),
           \A W, L : Linked(v, W, L) => Slips(v, w, W, L)
    PROVE  Turned(p, IF v.threw THEN v ELSE w)
  <1>1. Sound(v)
    BY DEF Turned
  <1>2. CASE v.threw
    BY <1>2
  <1>3. CASE ~v.threw
    <2>1. Turned(v, w)
      BY <1>3 DEF Turned
    <2>2. Turned(p, w)
      BY <2>1, TurnedOn
    <2> QED
      BY <1>3, <2>2
  <1> QED
    BY <1>2, <1>3

\* A turn that keeps everything is a turn.
LEMMA KeptTurned ==
    ASSUME NEW p, Sound(p), ~p.threw, NEW q, Sound(q), Kept(p, q)
    PROVE  Turned(p, q)
  <1>1. \A W, L : Linked(p, W, L) => Slips(p, q, W, L)
    BY AllKeptSlips
  <1>2. Edges(q) = Edges(p)
    BY DEF Kept, KeptBut, SynapsesSame, SameLists
  <1> QED
    BY <1>1, <1>2 DEF Turned

\* Nor is there more to a turn that throws.
LEMMA ThrowTurned ==
    ASSUME NEW p, NEW v, Turned(p, v)
    PROVE  Turned(p, IF v.threw THEN v ELSE Throw(v))
  <1> DEFINE w == Throw(v)
  <1>1. Sound(v) /\ DOMAIN v = Fields
    BY DEF Turned, Sound
  <1>2. Sound(w) /\ Kept(v, w)
    BY <1>1, ThrowSound, SimplyKept
  <1> HIDE DEF w
  <1>3. Edges(w) = Edges(v) /\ \A W, L : Linked(v, W, L) => Slips(v, w, W, L)
    BY <1>1, <1>2, AllKeptSlips DEF Kept, KeptBut, SynapsesSame, SameLists
  <1>4. Turned(p, IF v.threw THEN v ELSE w)
    BY <1>2, <1>3, TurnedStep
  <1> QED
    BY <1>4 DEF w

\* There are finitely many places in a list.
LEMMA FirstOnesFinite ==
    ASSUME NEW n \in Nat
    PROVE  IsFiniteSet(1..n)
  BY FS_Interval

\* The loops over the selected nodes are finite, from the end or from the start.
LEMMA SelectedNodes ==
    ASSUME NEW p, Sound(p)
    PROVE  /\ IsFiniteSet(DOMAIN p.selN)
           /\ \A I \in SUBSET DOMAIN p.selN : I # {} => Min(I) \in I /\ Max(I) \in I
           /\ \A i \in DOMAIN p.selN : p.selN[i] \in NodeObject
  <1>1. p.selN \in Seq(NodeObject)
    BY DEF Sound, SelectionSound
  <1>2. Len(p.selN) \in Nat /\ DOMAIN p.selN = 1..Len(p.selN)
    BY <1>1, LenProperties
  <1>3. \A I \in SUBSET DOMAIN p.selN : I # {} => Min(I) \in I /\ Max(I) \in I
    BY <1>2, FirstAndLast
  <1> QED
    <2>1. IsFiniteSet(1..Len(p.selN))
      BY <1>2, FirstOnesFinite
    <2>2. \A i \in 1..Len(p.selN) : p.selN[i] \in NodeObject
      BY <1>1, ElementOfSeq
    <2> QED
      BY <1>2, <1>3, <2>1, <2>2

\* A place is itself.
LEMMA PlacesAre ==
    ASSUME NEW p
    PROVE  DOMAIN Places(p) = DOMAIN p.selN /\ \A i \in DOMAIN p.selN : Places(p)[i] = i
  BY DEF Places

\* So are those over the selected edges.
LEMMA SelectedEdges ==
    ASSUME NEW p, Sound(p)
    PROVE  /\ IsFiniteSet(DOMAIN p.selE)
           /\ \A I \in SUBSET DOMAIN p.selE : I # {} => Min(I) \in I
           /\ \A i \in DOMAIN p.selE : p.selE[i] \in 1..Edges(p)
  <1>1. p.selE \in Seq(Nat) /\ In(p.selE) \subseteq 1..Edges(p)
    BY DEF Sound, SelectionSound, Edges
  <1>2. Len(p.selE) \in Nat /\ DOMAIN p.selE = 1..Len(p.selE)
    BY <1>1, LenProperties
  <1>3. \A I \in SUBSET DOMAIN p.selE : I # {} => Min(I) \in I
    BY <1>2, FirstAndLast
  <1> QED
    <2>1. IsFiniteSet(1..Len(p.selE))
      BY <1>2, FirstOnesFinite
    <2>2. \A i \in 1..Len(p.selE) : p.selE[i] \in 1..Edges(p)
      BY <1>1 DEF In
    <2> QED
      BY <1>2, <1>3, <2>1, <2>2


StepDeselectNode(f, i, v) == deselectNode(v, f.selN[i])
DeselectingNodes == INSTANCE Folding WITH Op <- StepDeselectNode, Pick <- Min, Good <- Stays

\* Control.deselectAllNodes.
LEMMA DeselectedNodes ==
    ASSUME NEW p, Sound(p)
    PROVE  Stays(p, {}, DeselectingNodes!Folded(p, p, DOMAIN p.selN))
  <1> DEFINE S == DOMAIN p.selN
  <1>1. /\ IsFiniteSet(S)
        /\ \A I \in SUBSET S : I # {} => Min(I) \in I
    BY SelectedNodes
  <1>2. Stays(p, {}, p)
    BY StaysAsIs
  <1>3. \A I \in SUBSET S : I # {} =>
           \A v : Stays(p, I \ {Min(I)}, v) => Stays(p, I, StepDeselectNode(p, Min(I), v))
    <2> SUFFICES ASSUME NEW i \in S, NEW v, Sound(v), Kept(p, v)
                 PROVE  Sound(StepDeselectNode(p, i, v)) /\ Kept(p, StepDeselectNode(p, i, v))
      BY <1>1 DEF Stays
    <2>3. DOMAIN v = Fields
      BY DEF Sound
    <2>1. Sound(deselectNode(v, p.selN[i])) /\ Kept(v, deselectNode(v, p.selN[i]))
      BY <2>3, deselectNodeSound, SimplyKept
    <2>2. Kept(p, deselectNode(v, p.selN[i]))
      BY <2>1, KeptOn
    <2> QED
      BY <2>1, <2>2 DEF StepDeselectNode
  <1> HIDE DEF S
  <1>4. Stays(p, S, DeselectingNodes!Folded(p, p, S))
    BY <1>1, <1>2, <1>3, DeselectingNodes!FoldKeeps DEF IsFiniteSet, DeselectingNodes!IsFiniteSet
  <1> QED
    BY <1>4 DEF Stays, S

StepDeselectEdge(f, i, v) == deselectEdge(v, f.selE[i])
DeselectingEdges == INSTANCE Folding WITH Op <- StepDeselectEdge, Pick <- Min, Good <- Stays

\* Control.deselectAllEdges.
LEMMA DeselectedEdges ==
    ASSUME NEW p, Sound(p)
    PROVE  Stays(p, {}, DeselectingEdges!Folded(p, p, DOMAIN p.selE))
  <1> DEFINE S == DOMAIN p.selE
  <1>1. /\ IsFiniteSet(S)
        /\ \A I \in SUBSET S : I # {} => Min(I) \in I
    BY SelectedEdges
  <1>2. Stays(p, {}, p)
    BY StaysAsIs
  <1>3. \A I \in SUBSET S : I # {} =>
           \A v : Stays(p, I \ {Min(I)}, v) => Stays(p, I, StepDeselectEdge(p, Min(I), v))
    <2> SUFFICES ASSUME NEW i \in S, NEW v, Sound(v), Kept(p, v)
                 PROVE  Sound(StepDeselectEdge(p, i, v)) /\ Kept(p, StepDeselectEdge(p, i, v))
      BY <1>1 DEF Stays
    <2>3. DOMAIN v = Fields
      BY DEF Sound
    <2>1. Sound(deselectEdge(v, p.selE[i])) /\ Kept(v, deselectEdge(v, p.selE[i]))
      BY <2>3, deselectEdgeSound, SimplyKept
    <2>2. Kept(p, deselectEdge(v, p.selE[i]))
      BY <2>1, KeptOn
    <2> QED
      BY <2>1, <2>2 DEF StepDeselectEdge
  <1> HIDE DEF S
  <1>4. Stays(p, S, DeselectingEdges!Folded(p, p, S))
    BY <1>1, <1>2, <1>3, DeselectingEdges!FoldKeeps DEF IsFiniteSet, DeselectingEdges!IsFiniteSet
  <1> QED
    BY <1>4 DEF Stays, S

StepRemoveEdge(f, i, v) == IF v.threw THEN v ELSE removeEdge(v, f.selE[i])
RemovingEdges == INSTANCE Folding WITH Op <- StepRemoveEdge, Pick <- Min, Good <- Turns

\* The loop of Control.removeSelectedEdges.
LEMMA RemovedEdges ==
    ASSUME NEW p, Sound(p)
    PROVE  Turns(p, {}, RemovingEdges!Folded(p, p, DOMAIN p.selE))
  <1> DEFINE S == DOMAIN p.selE
  <1>1. /\ IsFiniteSet(S)
        /\ \A I \in SUBSET S : I # {} => Min(I) \in I
    BY SelectedEdges
  <1>2. Turns(p, {}, p)
    BY StaysAsIs DEF Turns
  <1>3. \A I \in SUBSET S : I # {} =>
           \A v : Turns(p, I \ {Min(I)}, v) => Turns(p, I, StepRemoveEdge(p, Min(I), v))
    <2> SUFFICES ASSUME NEW i \in S, NEW v, Turned(p, v)
                 PROVE  Turned(p, StepRemoveEdge(p, i, v))
      BY <1>1 DEF Turns
    <2>1. p.selE[i] \in 1..Edges(v)
      BY SelectedEdges DEF Turned
    <2> DEFINE w == removeEdge(v, p.selE[i])
    <2>2. Sound(v)
      BY DEF Turned
    <2>3. Sound(w) /\ Edges(w) = Edges(v)
      BY <2>1, <2>2, removeEdgeSound
    <2>4. \A W, L : Linked(v, W, L) => Slips(v, w, W, L)
      BY <2>1, <2>2, removeEdgeLinked
    <2> HIDE DEF w
    <2>5. Turned(p, IF v.threw THEN v ELSE w)
      BY <2>3, <2>4, TurnedStep
    <2> QED
      BY <2>5 DEF StepRemoveEdge, w
  <1> HIDE DEF S
  <1>4. Turns(p, S, RemovingEdges!Folded(p, p, S))
    BY <1>1, <1>2, <1>3, RemovingEdges!FoldKeeps DEF IsFiniteSet, RemovingEdges!IsFiniteSet
  <1> QED
    BY <1>4 DEF Turns, S

StepRemoveNode(f, i, v) ==
    IF v.threw THEN v
    ELSE IF Places(f)[i] \in DOMAIN v.selN THEN removeNodeFromMap(v, v.selN[Places(f)[i]]) ELSE Throw(v)
RemovingNodes == INSTANCE Folding WITH Op <- StepRemoveNode, Pick <- Min, Good <- Turns

\* The loop of Control.removeSelectedNodes.
LEMMA RemovedNodes ==
    ASSUME NEW p, Sound(p)
    PROVE  Turns(p, {}, RemovingNodes!Folded(p, p, DOMAIN p.selN))
  <1> DEFINE S == DOMAIN p.selN
  <1>1. /\ IsFiniteSet(S)
        /\ \A I \in SUBSET S : I # {} => Min(I) \in I
    BY SelectedNodes
  <1>2. Turns(p, {}, p)
    BY StaysAsIs DEF Turns
  <1>3. \A I \in SUBSET S : I # {} =>
           \A v : Turns(p, I \ {Min(I)}, v) => Turns(p, I, StepRemoveNode(p, Min(I), v))
    <2> SUFFICES ASSUME NEW i \in S, NEW v, Turned(p, v)
                 PROVE  Turned(p, StepRemoveNode(p, i, v))
      BY <1>1 DEF Turns
    <2>1. Sound(v)
      BY DEF Turned
    <2> DEFINE w == removeNodeFromMap(v, v.selN[i])
               x == Throw(v)
    <2>2. StepRemoveNode(p, i, v) =
            IF v.threw THEN v ELSE IF i \in DOMAIN v.selN THEN w ELSE x
      BY PlacesAre DEF StepRemoveNode
    <2>3. CASE i \in DOMAIN v.selN
      <3>1. v.selN[i] \in NodeObject
        BY <2>1, <2>3, SelectedNodes
      <3>2. Sound(w) /\ Edges(w) = Edges(v)
        BY <2>1, <3>1, removeNodeFromMapSound
      <3>3. \A W, L : Linked(v, W, L) => Slips(v, w, W, L)
        BY <2>1, <3>1, removeNodeFromMapLinked
      <3> HIDE DEF w
      <3>4. Turned(p, IF v.threw THEN v ELSE w)
        BY <3>2, <3>3, TurnedStep
      <3> QED
        BY <2>2, <2>3, <3>4
    <2>4. CASE i \notin DOMAIN v.selN
      <3>1. Turned(p, IF v.threw THEN v ELSE x)
        BY <2>1, ThrowTurned
      <3> QED
        BY <2>2, <2>4, <3>1
    <2> QED
      BY <2>3, <2>4
  <1> HIDE DEF S
  <1>4. Turns(p, S, RemovingNodes!Folded(p, p, S))
    BY <1>1, <1>2, <1>3, RemovingNodes!FoldKeeps DEF IsFiniteSet, RemovingNodes!IsFiniteSet
  <1> QED
    BY <1>4 DEF Turns, S

StepDeleteEdge(f, i, v) == IF v.threw THEN v ELSE deleteEdge(v, f.selE[i])
DeletingEdges == INSTANCE Folding WITH Op <- StepDeleteEdge, Pick <- Min, Good <- Turns

\* The loop of Control.deleteSelectedEdges.
LEMMA DeletedEdges ==
    ASSUME NEW p, Sound(p)
    PROVE  Turns(p, {}, DeletingEdges!Folded(p, p, DOMAIN p.selE))
  <1> DEFINE S == DOMAIN p.selE
  <1>1. /\ IsFiniteSet(S)
        /\ \A I \in SUBSET S : I # {} => Min(I) \in I
    BY SelectedEdges
  <1>2. Turns(p, {}, p)
    BY StaysAsIs DEF Turns
  <1>3. \A I \in SUBSET S : I # {} =>
           \A v : Turns(p, I \ {Min(I)}, v) => Turns(p, I, StepDeleteEdge(p, Min(I), v))
    <2> SUFFICES ASSUME NEW i \in S, NEW v, Turned(p, v)
                 PROVE  Turned(p, StepDeleteEdge(p, i, v))
      BY <1>1 DEF Turns
    <2>1. p.selE[i] \in 1..Edges(v)
      BY SelectedEdges DEF Turned
    <2> DEFINE w == deleteEdge(v, p.selE[i])
    <2>2. Sound(v)
      BY DEF Turned
    <2>3. Sound(w) /\ Edges(w) = Edges(v)
      BY <2>1, <2>2, deleteEdgeSound
    <2>4. \A W, L : Linked(v, W, L) => Slips(v, w, W, L)
      BY <2>1, <2>2, deleteEdgeLinked
    <2> HIDE DEF w
    <2>5. Turned(p, IF v.threw THEN v ELSE w)
      BY <2>3, <2>4, TurnedStep
    <2> QED
      BY <2>5 DEF StepDeleteEdge, w
  <1> HIDE DEF S
  <1>4. Turns(p, S, DeletingEdges!Folded(p, p, S))
    BY <1>1, <1>2, <1>3, DeletingEdges!FoldKeeps DEF IsFiniteSet, DeletingEdges!IsFiniteSet
  <1> QED
    BY <1>4 DEF Turns, S

StepDeleteNode(f, i, v) ==
    IF v.threw THEN v
    ELSE IF Places(f)[i] \in DOMAIN v.selN THEN deleteNode(v, v.selN[Places(f)[i]]) ELSE Throw(v)
DeletingNodes == INSTANCE Folding WITH Op <- StepDeleteNode, Pick <- Min, Good <- Turns

\* The loop of Control.deleteSelectedNodes.
LEMMA DeletedNodes ==
    ASSUME NEW p, Sound(p)
    PROVE  Turns(p, {}, DeletingNodes!Folded(p, p, DOMAIN p.selN))
  <1> DEFINE S == DOMAIN p.selN
  <1>1. /\ IsFiniteSet(S)
        /\ \A I \in SUBSET S : I # {} => Min(I) \in I
    BY SelectedNodes
  <1>2. Turns(p, {}, p)
    BY StaysAsIs DEF Turns
  <1>3. \A I \in SUBSET S : I # {} =>
           \A v : Turns(p, I \ {Min(I)}, v) => Turns(p, I, StepDeleteNode(p, Min(I), v))
    <2> SUFFICES ASSUME NEW i \in S, NEW v, Turned(p, v)
                 PROVE  Turned(p, StepDeleteNode(p, i, v))
      BY <1>1 DEF Turns
    <2>1. Sound(v)
      BY DEF Turned
    <2> DEFINE w == deleteNode(v, v.selN[i])
               x == Throw(v)
    <2>2. StepDeleteNode(p, i, v) =
            IF v.threw THEN v ELSE IF i \in DOMAIN v.selN THEN w ELSE x
      BY PlacesAre DEF StepDeleteNode
    <2>3. CASE i \in DOMAIN v.selN
      <3>1. v.selN[i] \in NodeObject
        BY <2>1, <2>3, SelectedNodes
      <3>2. Sound(w) /\ Edges(w) = Edges(v)
        BY <2>1, <3>1, deleteNodeSound
      <3>3. \A W, L : Linked(v, W, L) => Slips(v, w, W, L)
        BY <2>1, <3>1, deleteNodeLinked
      <3> HIDE DEF w
      <3>4. Turned(p, IF v.threw THEN v ELSE w)
        BY <3>2, <3>3, TurnedStep
      <3> QED
        BY <2>2, <2>3, <3>4
    <2>4. CASE i \notin DOMAIN v.selN
      <3>1. Turned(p, IF v.threw THEN v ELSE x)
        BY <2>1, ThrowTurned
      <3> QED
        BY <2>2, <2>4, <3>1
    <2> QED
      BY <2>3, <2>4
  <1> HIDE DEF S
  <1>4. Turns(p, S, DeletingNodes!Folded(p, p, S))
    BY <1>1, <1>2, <1>3, DeletingNodes!FoldKeeps DEF IsFiniteSet, DeletingNodes!IsFiniteSet
  <1> QED
    BY <1>4 DEF Turns, S

StepHideEdge(f, i, v) == IF v.threw THEN v ELSE hideEdge(v, f.selE[i])
HidingEdges == INSTANCE Folding WITH Op <- StepHideEdge, Pick <- Min, Good <- Stays

\* The loop of Control.hideSelectedEdges.
LEMMA HiddenEdges ==
    ASSUME NEW p, Sound(p)
    PROVE  Stays(p, {}, HidingEdges!Folded(p, p, DOMAIN p.selE))
  <1> DEFINE S == DOMAIN p.selE
  <1>1. /\ IsFiniteSet(S)
        /\ \A I \in SUBSET S : I # {} => Min(I) \in I
    BY SelectedEdges
  <1>2. Stays(p, {}, p)
    BY StaysAsIs
  <1>3. \A I \in SUBSET S : I # {} =>
           \A v : Stays(p, I \ {Min(I)}, v) => Stays(p, I, StepHideEdge(p, Min(I), v))
    <2> SUFFICES ASSUME NEW i \in S, NEW v, Sound(v), Kept(p, v)
                 PROVE  Sound(StepHideEdge(p, i, v)) /\ Kept(p, StepHideEdge(p, i, v))
      BY <1>1 DEF Stays
    <2>3. p.selE[i] \in 1..Edges(v)
      BY SelectedEdges DEF Kept, KeptBut, SynapsesSame, SameLists
    <2>1. Sound(hideEdge(v, p.selE[i])) /\ Kept(v, hideEdge(v, p.selE[i]))
      BY <2>3, hideEdgeSound, hideEdgeKept
    <2>2. Kept(p, hideEdge(v, p.selE[i]))
      BY <2>1, KeptOn
    <2> QED
      BY <2>1, <2>2 DEF StepHideEdge
  <1> HIDE DEF S
  <1>4. Stays(p, S, HidingEdges!Folded(p, p, S))
    BY <1>1, <1>2, <1>3, HidingEdges!FoldKeeps DEF IsFiniteSet, HidingEdges!IsFiniteSet
  <1> QED
    BY <1>4 DEF Stays, S

StepHideNode(f, i, v) ==
    IF v.threw THEN v
    ELSE IF Places(f)[i] \in DOMAIN v.selN THEN hideNode(v, Key(v.selN[Places(f)[i]])) ELSE Throw(v)
HidingNodes == INSTANCE Folding WITH Op <- StepHideNode, Pick <- Min, Good <- Stays

\* The loop of Control.hideSelectedNodes.
LEMMA HiddenNodes ==
    ASSUME NEW p, Sound(p)
    PROVE  Stays(p, {}, HidingNodes!Folded(p, p, DOMAIN p.selN))
  <1> DEFINE S == DOMAIN p.selN
  <1>1. /\ IsFiniteSet(S)
        /\ \A I \in SUBSET S : I # {} => Min(I) \in I
    BY SelectedNodes
  <1>2. Stays(p, {}, p)
    BY StaysAsIs
  <1>3. \A I \in SUBSET S : I # {} =>
           \A v : Stays(p, I \ {Min(I)}, v) => Stays(p, I, StepHideNode(p, Min(I), v))
    <2> SUFFICES ASSUME NEW i \in S, NEW v, Sound(v), Kept(p, v)
                 PROVE  Sound(StepHideNode(p, i, v)) /\ Kept(p, StepHideNode(p, i, v))
      BY <1>1 DEF Stays
    <2> DEFINE w == hideNode(v, Key(v.selN[i]))
               x == Throw(v)
    <2>1. StepHideNode(p, i, v) =
            IF v.threw THEN v ELSE IF i \in DOMAIN v.selN THEN w ELSE x
      BY PlacesAre DEF StepHideNode
    <2>2. Sound(w) /\ Kept(v, w) /\ Sound(x) /\ Kept(v, x)
      BY hideNodeSound, hideNodeKept, ThrowSound, SimplyKept DEF Sound
    <2> HIDE DEF w, x
    <2>3. Kept(p, w) /\ Kept(p, x)
      BY <2>2, KeptOn
    <2> QED
      BY <2>1, <2>2, <2>3
  <1> HIDE DEF S
  <1>4. Stays(p, S, HidingNodes!Folded(p, p, S))
    BY <1>1, <1>2, <1>3, HidingNodes!FoldKeeps DEF IsFiniteSet, HidingNodes!IsFiniteSet
  <1> QED
    BY <1>4 DEF Stays, S

\* A click without shift.
LEMMA deselectAllSound ==
    ASSUME NEW p, Sound(p)
    PROVE  Sound(deselectAllEdges(deselectAllNodes(p))) /\ Kept(p, deselectAllEdges(deselectAllNodes(p)))
  <1> DEFINE q == deselectAllNodes(p)
  <1>1. q = DeselectingNodes!Folded(p, p, DOMAIN p.selN)
    BY DEF deselectAllNodes, FoldRight, MapThenFoldSet, Min, StepDeselectNode,
           DeselectingNodes!Folded
  <1>2. Sound(q) /\ Kept(p, q)
    BY <1>1, DeselectedNodes DEF Stays
  <1> HIDE DEF q
  <1>3. deselectAllEdges(q) = DeselectingEdges!Folded(q, q, DOMAIN q.selE)
    BY DEF deselectAllEdges, FoldRight, MapThenFoldSet, Min, StepDeselectEdge,
           DeselectingEdges!Folded
  <1>4. Sound(deselectAllEdges(q)) /\ Kept(q, deselectAllEdges(q))
    BY <1>2, <1>3, DeselectedEdges DEF Stays
  <1> QED
    BY <1>2, <1>4, KeptOn DEF q

\* Control.removeSelectedEdges and removeSelectedNodes.
LEMMA removeSelectedSound ==
    ASSUME NEW p, Sound(p)
    PROVE  Turned(p, removeSelectedEdges(p)) /\ Turned(p, removeSelectedNodes(p))
  <1> DEFINE q == RemovingEdges!Folded(p, p, DOMAIN p.selE)
             r == RemovingNodes!Folded(p, p, DOMAIN p.selN)
  <1>1. removeSelectedEdges(p) = IF q.threw THEN q ELSE [q EXCEPT !.selE = <<>>]
    BY DEF removeSelectedEdges, Then, FoldRight, MapThenFoldSet, Min, StepRemoveEdge,
           RemovingEdges!Folded
  <1>2. removeSelectedNodes(p) = r
    <2>1. r = RemovingNodes!Folded(p, p, DOMAIN Places(p))
      BY PlacesAre
    <2> QED
      BY <2>1 DEF removeSelectedNodes, AtPlace, Then, FoldRight, MapThenFoldSet, Min,
                  StepRemoveNode, RemovingNodes!Folded
  <1>3. Turned(p, q) /\ Turned(p, r)
    BY RemovedEdges, RemovedNodes DEF Turns
  <1> HIDE DEF q, r
  <1>4. Sound(q) /\ DOMAIN q = Fields
    BY <1>3 DEF Turned, Sound
  <1> DEFINE w == [q EXCEPT !.selE = <<>>]
  <1>5. Sound(w) /\ Kept(q, w)
    BY <1>4, NoEdgesSelected, SimplyKept
  <1> HIDE DEF w
  <1>6. Edges(w) = Edges(q) /\ \A W, L : Linked(q, W, L) => Slips(q, w, W, L)
    BY <1>4, <1>5, AllKeptSlips DEF Kept, KeptBut, SynapsesSame, SameLists
  <1>7. Turned(p, IF q.threw THEN q ELSE w)
    BY <1>3, <1>5, <1>6, TurnedStep
  <1> QED
    BY <1>1, <1>2, <1>3, <1>7 DEF w

\* Control.deleteSelected.
LEMMA deleteSelectedSound ==
    ASSUME NEW p, Sound(p)
    PROVE  Turned(p, deleteSelected(p))
  <1> DEFINE q == DeletingEdges!Folded(p, p, DOMAIN p.selE)
             r == DeletingNodes!Folded(q, q, DOMAIN q.selN)
  <1>1. deleteSelected(p) = r
    <2>1. q = FoldRight(LAMBDA e, x : Then(x, LAMBDA y : deleteEdge(y, e)), p.selE, p)
      BY DEF Then, FoldRight, MapThenFoldSet, Min, StepDeleteEdge, DeletingEdges!Folded
    <2> HIDE DEF q
    <2>2. r = FoldRight(LAMBDA i, x : Then(x, LAMBDA y : AtPlace(y, i, deleteNode)), Places(q), q)
      <3>1. r = DeletingNodes!Folded(q, q, DOMAIN Places(q))
        BY PlacesAre
      <3> QED
        BY <3>1 DEF AtPlace, Then, FoldRight, MapThenFoldSet, Min, StepDeleteNode,
                    DeletingNodes!Folded
    <2> HIDE DEF r
    <2> QED
      BY <2>1, <2>2, Zenon DEF deleteSelected, FoldRight, MapThenFoldSet, Then, AtPlace
  <1>2. Turned(p, q) /\ Sound(q)
    BY DeletedEdges DEF Turns, Turned
  <1> HIDE DEF q
  <1>3. Turned(q, r)
    BY <1>2, DeletedNodes DEF Turns
  <1> HIDE DEF r
  <1> QED
    BY <1>1, <1>2, <1>3, TurnedOn

\* Control.hideSelectedEdges and hideSelectedNodes.
LEMMA hideSelectedSound ==
    ASSUME NEW p, Sound(p)
    PROVE  /\ Sound(hideSelectedEdges(p)) /\ Kept(p, hideSelectedEdges(p))
           /\ Sound(hideSelectedNodes(p)) /\ Kept(p, hideSelectedNodes(p))
  <1> DEFINE q == HidingEdges!Folded(p, p, DOMAIN p.selE)
             r == HidingNodes!Folded(p, p, DOMAIN p.selN)
  <1>1. hideSelectedEdges(p) = IF q.threw THEN q ELSE [q EXCEPT !.selE = <<>>]
    BY DEF hideSelectedEdges, Then, FoldRight, MapThenFoldSet, Min, StepHideEdge,
           HidingEdges!Folded
  <1>2. hideSelectedNodes(p) = r
    <2>1. r = HidingNodes!Folded(p, p, DOMAIN Places(p))
      BY PlacesAre
    <2> QED
      BY <2>1 DEF hideSelectedNodes, AtPlace, Then, FoldRight, MapThenFoldSet, Min, StepHideNode,
                  HidingNodes!Folded
  <1>3. Sound(q) /\ Kept(p, q) /\ Sound(r) /\ Kept(p, r)
    BY HiddenEdges, HiddenNodes DEF Stays
  <1> DEFINE w == [q EXCEPT !.selE = <<>>]
  <1> HIDE DEF q, r
  <1>4. Sound(w) /\ Kept(q, w)
    <2>1. DOMAIN q = Fields
      BY <1>3 DEF Sound
    <2> QED
      BY <1>3, <2>1, NoEdgesSelected, SimplyKept
  <1> HIDE DEF w
  <1>5. Kept(p, w)
    BY <1>3, <1>4, KeptOn
  <1> QED
    BY <1>1, <1>2, <1>3, <1>4, <1>5 DEF w

\* The topics that do not pass the filter, and the edges of each.
StepDeselect(f, e, v) == deselectEdge(v, e)
Deselecting == INSTANCE Folding WITH Op <- StepDeselect, Pick <- AnyOf, Good <- Stays

\* There are finitely many edges.
LEMMA EdgesAreFinite ==
    ASSUME NEW p, Sound(p), NEW E, E \subseteq 1..Edges(p)
    PROVE  IsFiniteSet(E)
  <1>1. Len(p.edges) \in Nat
    BY LenProperties DEF Sound, GraphSound
  <1>2. IsFiniteSet(1..Len(p.edges))
    BY <1>1, FirstOnesFinite
  <1> QED
    BY <1>2, FS_Subset DEF Edges

\* The edges of a node that does not pass the filter are deselected.
LEMMA DeselectedSound ==
    ASSUME NEW p, Sound(p), NEW E, IsFiniteSet(E)
    PROVE  Stays(p, {}, Deselecting!Folded(p, p, E))
  <1>1. \A I \in SUBSET E : I # {} => AnyOf(I) \in I
    BY DEF AnyOf
  <1>2. Stays(p, {}, p)
    BY StaysAsIs
  <1>3. \A I \in SUBSET E : I # {} =>
           \A v : Stays(p, I \ {AnyOf(I)}, v) => Stays(p, I, StepDeselect(p, AnyOf(I), v))
    <2> SUFFICES ASSUME NEW e, NEW v, Sound(v), Kept(p, v)
                 PROVE  Sound(StepDeselect(p, e, v)) /\ Kept(p, StepDeselect(p, e, v))
      BY DEF Stays
    <2>1. DOMAIN v = Fields
      BY DEF Sound
    <2>2. Sound(deselectEdge(v, e)) /\ Kept(v, deselectEdge(v, e))
      BY <2>1, deselectEdgeSound, SimplyKept
    <2>3. Kept(p, deselectEdge(v, e))
      BY <2>2, KeptOn
    <2> QED
      BY <2>2, <2>3 DEF StepDeselect
  <1>4. Stays(p, E, Deselecting!Folded(p, p, E))
    BY <1>1, <1>2, <1>3, Deselecting!FoldKeeps DEF IsFiniteSet, Deselecting!IsFiniteSet
  <1> QED
    BY <1>4 DEF Stays

\* Dimming a node, or not.
LEMMA DimSound ==
    ASSUME NEW p, Sound(p), NEW d, d \subseteq NodeObject
    PROVE  LET q == [p EXCEPT !.dim = d] IN Sound(q) /\ q.edges = p.edges
  <1> DEFINE q == [p EXCEPT !.dim = d]
  <1>1. DOMAIN p = Fields /\ GraphSound(p)
    BY DEF Sound
  <1>2. /\ DOMAIN q = Fields /\ SameData(p, q) /\ SameFilter(p, q) /\ SameSelection(p, q)
        /\ q.graph = p.graph /\ q.adj = p.adj
        /\ q.dim = d /\ q.node = p.node /\ q.made = p.made
        /\ q.edges = p.edges /\ q.edge = p.edge /\ q.timers = p.timers
    BY <1>1 DEF Fields, SameSelection, SameFilter, SameData
  <1> HIDE DEF q
  <1>3. GraphSound(q)
    BY <1>1, <1>2 DEF GraphSound, NodesAt
  <1>4. SelectionSound(q) /\ FilterSound(q)
    BY <1>2 DEF Sound, SelectionSound, FilterSound, SameSelection, SameFilter, SameData
  <1>5. Sound(q)
    BY <1>2, <1>3, <1>4, SoundAgain
  <1> QED
    BY <1>2, <1>5 DEF q

\* Filter.passFilters, for one topic.
LEMMA passTopicSound ==
    ASSUME NEW p, Sound(p), NEW t \in Topics
    PROVE  Sound(passTopic(p, t)) /\ Kept(p, passTopic(p, t))
  <1> DEFINE n == p.node[t]
             a == deselectNode(p, n)
             d == a.dim \cup {n}
             q == [a EXCEPT !.dim = d]
             c == p.dim \ {n}
             r == [p EXCEPT !.dim = c]
             mine == IF n \in p.graph THEN EdgesOf(p, Key(n))
                     ELSE {e \in DOMAIN p.edges : <<n, e>> \in p.kept}
             z == Deselecting!Folded(q, q, mine)
  <1>1. passTopic(p, t) = IF ~HasMapping(p, t) THEN Throw(p)
                          ELSE IF n = None THEN p
                          ELSE IF Contains(p.visible, Metacode[t]) THEN r ELSE z
    BY DEF passTopic, FoldSet, MapThenFoldSet, StepDeselect, AnyOf, Deselecting!Folded
  <1>2. GraphSound(p) /\ n \in NodeObject \cup {None} /\ DOMAIN p = Fields
    BY DEF Sound, GraphSound
  <1>5. Sound(Throw(p)) /\ Kept(p, Throw(p)) /\ Kept(p, p)
    BY <1>2, ThrowSound, SimplyKept
  <1>3. CASE n # None
    <2>1. mine \subseteq 1..Edges(p)
      <3>1. DOMAIN p.edges = 1..Len(p.edges)
        BY <1>2, LenProperties DEF GraphSound
      <3> QED
        BY <1>2, <3>1 DEF GraphSound, EdgesOf, Edges
    <2> HIDE DEF mine, n
    <2>2. IsFiniteSet(mine)
      BY <2>1, EdgesAreFinite
    <2>3. Sound(a) /\ a.edges = p.edges /\ Kept(p, a)
      BY <1>2, deselectNodeSound, SimplyKept DEF SameGraph
    <2> HIDE DEF a
    <2>4. d \subseteq NodeObject /\ c \subseteq NodeObject
      BY <1>2, <1>3, <2>3 DEF Sound, GraphSound
    <2> HIDE DEF c, d
    <2>5. Sound(q) /\ q.edges = a.edges /\ Sound(r) /\ r.edges = p.edges
      BY <2>3, <2>4, DimSound
    <2>6. Kept(a, q) /\ Kept(p, r)
      BY <1>2, <2>3, SimplyKept DEF Sound
    <2> HIDE DEF q, r
    <2>7. Sound(z) /\ Kept(q, z)
      BY <2>2, <2>5, DeselectedSound DEF Stays
    <2> HIDE DEF z
    <2>8. Kept(p, z)
      BY <2>3, <2>6, <2>7, KeptOn
    <2> QED
      BY <1>1, <1>3, <1>5, <2>5, <2>6, <2>7, <2>8
  <1>4. CASE n = None
    <2> HIDE DEF n, r, z
    <2> QED
      BY <1>1, <1>4, <1>5
  <1> QED
    BY <1>3, <1>4

StepPass(f, t, v) == IF v.threw THEN v ELSE passTopic(v, t)
Passing == INSTANCE Folding WITH Op <- StepPass, Pick <- AnyOf, Good <- Stays

\* Filter.passFilters.
LEMMA passFiltersSound ==
    ASSUME NEW p, Sound(p)
    PROVE  Sound(passFilters(p)) /\ Kept(p, passFilters(p))
  <1> DEFINE q == Passing!Folded(p, p, p.topics)
             bad == \E s \in p.syns : p.edge[s] = None \/ ~HasMapping(p, s)
  <1>1. passFilters(p) = IF q.threw THEN q ELSE IF bad THEN Throw(q) ELSE q
    BY DEF passFilters, Then, FoldSet, MapThenFoldSet, StepPass, AnyOf, Passing!Folded
  <1>2. IsFiniteSet(p.topics) /\ p.topics \subseteq Topics
    BY PageAssumption, FS_Subset DEF Sound, DataSound
  <1>3. \A I \in SUBSET p.topics : I # {} => AnyOf(I) \in I
    BY DEF AnyOf
  <1>4. Stays(p, {}, p)
    BY StaysAsIs
  <1>5. \A I \in SUBSET p.topics : I # {} =>
           \A v : Stays(p, I \ {AnyOf(I)}, v) => Stays(p, I, StepPass(p, AnyOf(I), v))
    <2> SUFFICES ASSUME NEW t \in Topics, NEW v, Sound(v), Kept(p, v)
                 PROVE  Sound(StepPass(p, t, v)) /\ Kept(p, StepPass(p, t, v))
      BY <1>2, <1>3 DEF Stays
    <2>1. Sound(passTopic(v, t)) /\ Kept(v, passTopic(v, t))
      BY passTopicSound
    <2>2. Kept(p, passTopic(v, t))
      BY <2>1, KeptOn
    <2> QED
      BY <2>1, <2>2 DEF StepPass
  <1>6. Stays(p, p.topics, q)
    BY <1>2, <1>3, <1>4, <1>5, Passing!FoldKeeps DEF IsFiniteSet, Passing!IsFiniteSet
  <1> HIDE DEF q, bad
  <1>7. Sound(q) /\ Kept(p, q) /\ Sound(Throw(q)) /\ Kept(q, Throw(q))
    <2>1. Sound(q) /\ Kept(p, q)
      BY <1>6 DEF Stays
    <2> QED
      BY <2>1, ThrowSound, SimplyKept DEF Sound
  <1>8. Kept(p, Throw(q))
    BY <1>7, KeptOn
  <1> QED
    BY <1>1, <1>7, <1>8

\* Filter.toggleMetacode: a metacode is not visible twice.
LEMMA toggleMetacodeSound ==
    ASSUME NEW p, Sound(p), NEW m \in p.filters
    PROVE  Sound(toggleMetacode(p, m)) /\ Kept(p, toggleMetacode(p, m))
  <1> DEFINE v == IF Contains(p.visible, m) THEN RemoveFirst(p.visible, m) ELSE Append(p.visible, m)
             q == [p EXCEPT !.visible = v]
  <1>1. /\ DOMAIN p = Fields /\ FilterLoose(p) /\ FilterSound(p)
    BY SoundIsLoose DEF Sound
  <1>2. v \in Seq(Metacodes) /\ Once(v) /\ In(v) \subseteq p.filters
    <2> DEFINE w == p.visible
    <2>1. w \in Seq(Metacodes) /\ Once(w) /\ In(w) \subseteq p.filters /\ m \in Metacodes
      BY <1>1 DEF FilterLoose
    <2>2. v = IF Contains(w, m) THEN RemoveFirst(w, m) ELSE Append(w, m)
      OBVIOUS
    <2> HIDE DEF w, v
    <2>3. CASE Contains(w, m)
      <3>1. v = Spliced(w, m)
        BY <2>2, <2>3 DEF Spliced
      <3> QED
        BY <2>1, <3>1, SplicedKeeps
    <2>4. CASE ~Contains(w, m)
      <3>1. m \notin In(w)
        BY <2>1, <2>4, InIsRange
      <3> QED
        BY <2>1, <2>2, <2>4, <3>1, AppendOnce
    <2> QED
      BY <2>3, <2>4
  <1>3. toggleMetacode(p, m) = passFilters(q)
    BY DEF toggleMetacode
  <1>7. Kept(p, q)
    BY <1>1, SimplyKept
  <1>4. /\ DOMAIN q = Fields /\ SameData(p, q) /\ SameGraph(p, q) /\ SameSelection(p, q)
        /\ q.filters = p.filters /\ q.visible = v /\ q.topics = p.topics
    BY <1>1 DEF Fields, SameData, SameGraph, SameSelection
  <1> HIDE DEF q, v
  <1>5. FilterSound(q)
    BY <1>1, <1>2, <1>4 DEF FilterSound
  <1>6. Sound(q)
    BY <1>4, <1>5, SoundAgain
  <1> QED
    BY <1>3, <1>6, <1>7, passFiltersSound, KeptOn

\* The neighbours: the other ends of an edge, the edges of a node, the nodes.
Untouched(f, s, v) == Sound(v) /\ SameGraph(f, v) /\ Kept(f, v)

StepSelectEnd(f, k, v) == selectNode(v, NodeAt(v, k))
SelectingEnds == INSTANCE Folding WITH Op <- StepSelectEnd, Pick <- AnyOf, Good <- Untouched

\* The turn is over what is selected on the page as it is; f is a node.
UntouchedPage(f, s, v) == Sound(v) /\ SameGraph(page, v) /\ Kept(page, v)
StepNeighbour(f, e, v) ==
    selectEdge(SelectingEnds!Folded(v, v, page.edges[e].ends \ {Key(f)}), e)
SelectingEdges == INSTANCE Folding WITH Op <- StepNeighbour, Pick <- AnyOf, Good <- UntouchedPage

StepNeighbours(f, i, v) == SelectingEdges!Folded(f.selN[i], v, EdgesOf(v, Key(f.selN[i])))
SelectingNodes == INSTANCE Folding WITH Op <- StepNeighbours, Pick <- Max, Good <- Untouched

\* An edge's other end is selected.
LEMMA SelectedEnds ==
    ASSUME NEW p, Sound(p), NEW e \in p.adj, NEW key
    PROVE  Untouched(p, {}, SelectingEnds!Folded(p, p, p.edges[e].ends \ {key}))
  <1> DEFINE S == p.edges[e].ends \ {key}
  <1>1. GraphSound(p) /\ EdgeSound(p.edges[e])
    BY DEF Sound, GraphSound
  <1>2. IsFiniteSet(S)
    BY <1>1, FS_Subset DEF EdgeSound
  <1>3. \A I \in SUBSET S : I # {} => AnyOf(I) \in I
    BY DEF AnyOf
  <1>4. Untouched(p, {}, p)
    BY StaysAsIs DEF Stays, Untouched, SameGraph
  <1>5. \A I \in SUBSET S : I # {} =>
           \A v : Untouched(p, I \ {AnyOf(I)}, v) => Untouched(p, I, StepSelectEnd(p, AnyOf(I), v))
    <2> SUFFICES ASSUME NEW k \in S, NEW v, Sound(v), SameGraph(p, v), Kept(p, v)
                 PROVE  Untouched(p, {}, StepSelectEnd(p, k, v))
      BY <1>3 DEF Untouched
    <2> DEFINE n == NodeAt(v, k)
    <2>1. NodesAt(v, k) # {}
      BY <1>1 DEF GraphSound, NodesAt, SameGraph
    <2>2. n \in v.graph
      BY <2>1 DEF NodesAt, NodeAt
    <2>3. n \in NodeObject
      BY <2>2 DEF Sound, GraphSound
    <2> HIDE DEF n
    <2>4. DOMAIN v = Fields
      BY DEF Sound
    <2>5. /\ Sound(selectNode(v, n)) /\ SameGraph(v, selectNode(v, n))
          /\ Kept(v, selectNode(v, n))
      BY <2>3, <2>4, selectNodeSound, SimplyKept
    <2>6. Kept(p, selectNode(v, n))
      BY <2>5, KeptOn
    <2> QED
      BY <2>5, <2>6 DEF StepSelectEnd, SameGraph, Untouched, n
  <1> HIDE DEF S
  <1>6. Untouched(p, S, SelectingEnds!Folded(p, p, S))
    BY <1>2, <1>3, <1>4, <1>5, SelectingEnds!FoldKeeps DEF IsFiniteSet, SelectingEnds!IsFiniteSet
  <1> QED
    BY <1>6 DEF Untouched, S

\* So are all edges of a node with their other ends.
LEMMA SelectedNeighbours ==
    ASSUME NEW n, NEW q, Sound(q), SameGraph(page, q), Kept(page, q)
    PROVE  UntouchedPage(n, {}, SelectingEdges!Folded(n, q, EdgesOf(q, Key(n))))
  <1> DEFINE S == EdgesOf(q, Key(n))
  <1>1. GraphSound(q) /\ S \subseteq q.adj /\ S \subseteq 1..Edges(q)
    BY DEF Sound, GraphSound, EdgesOf, Edges
  <1>2. IsFiniteSet(S)
    BY <1>1, EdgesAreFinite
  <1>3. \A I \in SUBSET S : I # {} => AnyOf(I) \in I
    BY DEF AnyOf
  <1>4. UntouchedPage(n, {}, q)
    BY DEF UntouchedPage, SameGraph
  <1>5. \A I \in SUBSET S : I # {} =>
           \A v : UntouchedPage(n, I \ {AnyOf(I)}, v)
                  => UntouchedPage(n, I, StepNeighbour(n, AnyOf(I), v))
    <2> SUFFICES ASSUME NEW e \in S, NEW v, Sound(v), SameGraph(page, v), Kept(page, v)
                 PROVE  UntouchedPage(n, {}, StepNeighbour(n, e, v))
      BY <1>3 DEF UntouchedPage
    <2> DEFINE ends == page.edges[e].ends \ {Key(n)}
               w == SelectingEnds!Folded(v, v, ends)
    <2>1. e \in v.adj /\ v.edges = page.edges
      BY <1>1 DEF SameGraph
    <2>2. Untouched(v, {}, w)
      BY <2>1, SelectedEnds
    <2>3. StepNeighbour(n, e, v) = selectEdge(w, e)
      BY DEF StepNeighbour
    <2> HIDE DEF w
    <2>4. Sound(w) /\ SameGraph(v, w) /\ Kept(page, w)
      <3>1. Sound(w) /\ SameGraph(v, w) /\ Kept(v, w)
        BY <2>2 DEF Untouched
      <3> QED
        BY <3>1, KeptOn
    <2>5. e \in 1..Len(w.edges)
      BY <1>1, <2>1, <2>4 DEF SameGraph, Edges
    <2>6. DOMAIN w = Fields
      BY <2>4 DEF Sound
    <2>7. Sound(selectEdge(w, e)) /\ SameGraph(w, selectEdge(w, e)) /\ Kept(w, selectEdge(w, e))
      BY <2>4, <2>5, <2>6, selectEdgeSound, SimplyKept
    <2>8. Kept(page, selectEdge(w, e))
      BY <2>4, <2>7, KeptOn
    <2> QED
      BY <2>3, <2>4, <2>7, <2>8 DEF SameGraph, UntouchedPage
  <1> HIDE DEF S
  <1>6. UntouchedPage(n, S, SelectingEdges!Folded(n, q, S))
    BY <1>2, <1>3, <1>4, <1>5, SelectingEdges!FoldKeeps DEF IsFiniteSet, SelectingEdges!IsFiniteSet
  <1> QED
    BY <1>6 DEF UntouchedPage, S

\* Control.selectNeighbors.
LEMMA selectNeighborsSound ==
    ASSUME Sound(page)
    PROVE  Sound(selectNeighbors(page)) /\ Kept(page, selectNeighbors(page))
  <1> DEFINE S == DOMAIN page.selN
  <1>1. IsFiniteSet(S) /\ \A I \in SUBSET S : I # {} => Max(I) \in I
    BY SelectedNodes
  <1>2. selectNeighbors(page) = SelectingNodes!Folded(page, page, S)
    BY DEF selectNeighbors, Then, FoldLeft, FoldSet, MapThenFoldSet, Max, AnyOf, StepNeighbours,
           StepNeighbour, StepSelectEnd, SelectingEnds!Folded, SelectingEdges!Folded,
           SelectingNodes!Folded
  <1> HIDE DEF S
  <1>3. Untouched(page, {}, page)
    BY StaysAsIs DEF Stays, Untouched, SameGraph
  <1>4. \A I \in SUBSET S : I # {} =>
           \A v : Untouched(page, I \ {Max(I)}, v) => Untouched(page, I, StepNeighbours(page, Max(I), v))
    <2> SUFFICES ASSUME NEW i, NEW v, Sound(v), SameGraph(page, v), Kept(page, v)
                 PROVE  Untouched(page, {}, StepNeighbours(page, i, v))
      BY DEF Untouched
    <2> DEFINE n == page.selN[i]
               w == SelectingEdges!Folded(n, v, EdgesOf(v, Key(n)))
    <2>1. Sound(w) /\ SameGraph(page, w) /\ Kept(page, w)
      BY SelectedNeighbours DEF UntouchedPage
    <2>2. StepNeighbours(page, i, v) = w
      BY DEF StepNeighbours
    <2> HIDE DEF w, n
    <2> QED
      BY <2>1, <2>2 DEF SameGraph, Untouched
  <1>5. Untouched(page, S, SelectingNodes!Folded(page, page, S))
    BY <1>1, <1>3, <1>4, SelectingNodes!FoldKeeps DEF IsFiniteSet, SelectingNodes!IsFiniteSet
  <1> QED
    BY <1>2, <1>5 DEF Untouched

-----------------------------------------------------------------------------
\* Pages that differ in what does not matter to the links.

\* The page after an exception is what it was when it was thrown.
LEMMA CalmedKept ==
    ASSUME NEW p, DOMAIN p = Fields
    PROVE  Kept(p, [p EXCEPT !.threw = FALSE])
  <1> DEFINE q == [p EXCEPT !.threw = FALSE]
  <1>1. SameData(p, q) /\ SameGraph(p, q)
    BY DEF Fields, SameData, SameGraph
  <1> HIDE DEF q
  <1>2. Kept(p, q)
    BY <1>1, SameIsKept
  <1> QED
    BY <1>2 DEF q

\* More may be noted, and fewer loads be left.
LEMMA MoreNoted ==
    ASSUME NEW p, Sound(p), NEW W, NEW X, W \subseteq X, NEW L, NEW K, K \subseteq L,
           Linked(p, W, L)
    PROVE  Linked(p, X, K)
  <1>1. DOMAIN p = Fields
    BY DEF Sound
  <1>2. Kept(p, p)
    BY <1>1, SimplyKept
  <1> QED
    BY <1>2, KeptLinked

\* A page with other unsaved items has the same links.
LEMMA NewLinked ==
    ASSUME NEW p, Sound(p), NEW new, NEW W, NEW L, Linked(p, W, L)
    PROVE  LET q == [p EXCEPT !.new = new]
           IN  /\ Linked(q, W, L) /\ SynapsesSame(p, q, None) /\ TopicsSame(p, q)
               /\ q.new = new
  <1> DEFINE q == [p EXCEPT !.new = new]
  <1>1. DOMAIN p = Fields
    BY DEF Sound
  <1>2. /\ q.topics = p.topics /\ q.syns = p.syns /\ q.maps = p.maps /\ q.drafts = p.drafts
        /\ SameGraph(p, q) /\ q.new = new
    BY <1>1 DEF Fields, SameGraph
  <1> HIDE DEF q
  <1>3. SynapsesSame(p, q, None) /\ TopicsSame(p, q)
    BY <1>2 DEF SynapsesSame, TopicsSame, NodesSame, SameLists, SameMappings, SameGraph,
                HasMapping, RowsOf, Edges
  <1>4. None \notin Synapses /\ W \subseteq W /\ L \subseteq L
    BY PageAssumption DEF Items
  <1>5. SynapsesLinked(q, W, L)
    BY <1>3, <1>4, SynapsesStayLinked DEF Linked
  <1>6. TopicsLinked(q, W, L)
    BY <1>3, <1>4, TopicsStayLinked DEF Linked
  <1> QED
    BY <1>2, <1>3, <1>5, <1>6 DEF Linked, q

\* A page with more mappers, or with more of its items unsaved.
LEMMA DataGrows ==
    ASSUME NEW p, Sound(p), NEW new, new \subseteq Items,
           NEW mappers, mappers \subseteq {Me, Other}
    PROVE  /\ Sound([p EXCEPT !.new = new]) /\ SameGraph(p, [p EXCEPT !.new = new])
           /\ Sound([p EXCEPT !.mappers = mappers])
  <1>1. DOMAIN p = Fields /\ DataSound(p) /\ FilterSound(p)
    BY DEF Sound
  <1>2. Sound([p EXCEPT !.new = new]) /\ SameGraph(p, [p EXCEPT !.new = new])
    <2> DEFINE q == [p EXCEPT !.new = new]
    <2>1. /\ DOMAIN q = Fields /\ SameGraph(p, q) /\ SameSelection(p, q) /\ SameFilter(p, q)
          /\ q.topics = p.topics /\ q.syns = p.syns /\ q.maps = p.maps
          /\ q.drafts = p.drafts /\ q.mappers = p.mappers /\ q.new = new
      BY <1>1 DEF Fields, SameGraph, SameSelection, SameFilter
    <2> HIDE DEF q
    <2>2. DataSound(q) /\ FilterSound(q)
      BY <1>1, <2>1 DEF DataSound, FilterSound, SameFilter
    <2>3. Sound(q)
      BY <2>1, <2>2, SoundAgain
    <2> QED
      BY <2>1, <2>3 DEF q
  <1>3. Sound([p EXCEPT !.mappers = mappers])
    <2> DEFINE q == [p EXCEPT !.mappers = mappers]
    <2>1. /\ DOMAIN q = Fields /\ SameGraph(p, q) /\ SameSelection(p, q) /\ SameFilter(p, q)
          /\ q.topics = p.topics /\ q.syns = p.syns /\ q.maps = p.maps
          /\ q.drafts = p.drafts /\ q.mappers = mappers /\ q.new = p.new
      BY <1>1 DEF Fields, SameGraph, SameSelection, SameFilter
    <2> HIDE DEF q
    <2>2. DataSound(q) /\ FilterSound(q)
      BY <1>1, <2>1 DEF DataSound, FilterSound, SameFilter
    <2>3. Sound(q)
      BY <2>1, <2>2, SoundAgain
    <2> QED
      BY <2>3 DEF q
  <1> QED
    BY <1>2, <1>3

-----------------------------------------------------------------------------
\* The page that has just loaded what the table holds.

\* The page that launch draws from the table is sound and linked, with nothing wronged.
LEMMA LaunchedSound ==
    ASSUME NEW mappers, mappers \subseteq {Me, Other}
    PROVE  LET p == Launched(Range(table), mappers)
           IN  Sound(p) /\ ~p.threw /\ p.new = {} /\ Linked(p, {}, {})
  <1> DEFINE rows == Range(table)
             topics == {t \in Topics : \E r \in rows : r.of = t}
             whole == {s \in Synapses : /\ \E r \in rows : r.of = s
                                        /\ Ends[s][1] \in topics /\ Ends[s][2] \in topics}
             Between(s) == {<<Ends[s][1], FALSE>>, <<Ends[s][2], FALSE>>}
             ends == {Between(s) : s \in whole}
             pairs == SetToSeq(ends)
             Listed(k) == SetToSeq({s \in whole : Between(s) = k})
             Place(s) == CHOOSE e \in DOMAIN pairs : pairs[e] = Between(s)
             offered == {Metacode[t] : t \in topics}
             New(e) == [ends |-> pairs[e], syns |-> Listed(pairs[e]),
                        maps |-> Listed(pairs[e]), shown |-> 0]
             p == Launched(rows, mappers)
  <1>1. IsFiniteSet(whole)
    BY PageAssumption, FS_Subset
  <1>2. IsFiniteSet(ends)
    <2> DEFINE f == [s \in whole |-> Between(s)]
    <2> HIDE DEF whole
    <2>1. f \in Surjection(whole, ends)
      BY DEF Surjection
    <2> HIDE DEF ends, f
    <2> QED
      BY <1>1, <2>1, FS_Surjection DEF ExistsSurjection
  <1>3. /\ pairs \in Seq(ends) /\ In(pairs) = ends /\ Once(pairs)
        /\ DOMAIN pairs = 1..Len(pairs) /\ Len(pairs) \in Nat
    <2> HIDE DEF ends
    <2> QED
      BY <1>2, SequenceOf, LenProperties
  <1>4. /\ p.topics = topics /\ p.syns = whole /\ p.new = {}
        /\ p.maps = {r \in rows : r.of \in topics \cup whole} /\ p.drafts = {}
        /\ p.mappers = mappers
        /\ p.node = [t \in Topics |-> IF t \in topics THEN <<t, FALSE, 1>> ELSE None]
        /\ p.graph = {<<t, FALSE, 1>> : t \in topics}
        /\ p.made = [t \in Topics |-> IF t \in topics THEN 1 ELSE 0]
        /\ p.edge = [s \in Synapses |-> IF s \in whole THEN Place(s) ELSE None]
        /\ p.edges = [e \in DOMAIN pairs |-> New(e)]
        /\ p.adj = DOMAIN pairs
        /\ p.selN = <<>> /\ p.selE = <<>> /\ p.marked = {} /\ p.dim = {}
        /\ p.timers = <<>> /\ p.filters = offered /\ p.visible = SetToSeq(offered)
        /\ p.slipped = FALSE /\ p.threw = FALSE
        /\ DOMAIN p = Fields
    BY Zenon DEF Launched, Fields
  <1> HIDE DEF p
  <1>5. topics \subseteq Topics /\ whole \subseteq Synapses
    OBVIOUS
  <1>6. \A k \in ends : k \subseteq PageKey /\ IsFiniteSet(k)
    <2> SUFFICES ASSUME NEW s \in whole PROVE Between(s) \subseteq PageKey /\ IsFiniteSet(Between(s))
      OBVIOUS
    <2> DEFINE k1 == <<Ends[s][1], FALSE>>
               k2 == <<Ends[s][2], FALSE>>
    <2>1. k1 \in PageKey /\ k2 \in PageKey
      BY PageAssumption DEF PageKey
    <2> HIDE DEF k1, k2
    <2>3. IsFiniteSet({k1, k2})
      BY PairIsFinite
    <2> USE DEF k1, k2
    <2> QED
      BY <2>1, <2>3
  <1>7. \A e \in DOMAIN pairs : pairs[e] \in ends
    BY <1>3 DEF In
  <1>8. \A e \in DOMAIN pairs : EdgeSound(New(e)) /\ New(e).ends = pairs[e]
    <2> SUFFICES ASSUME NEW e \in DOMAIN pairs PROVE EdgeSound(New(e)) /\ New(e).ends = pairs[e]
      OBVIOUS
    <2> DEFINE S == {s \in whole : Between(s) = pairs[e]}
               list == Listed(pairs[e])
    <2>1. IsFiniteSet(S) /\ S \subseteq Synapses
      <3> HIDE DEF whole
      <3> QED
        BY <1>1, <1>5, FS_Subset
    <2>2. list = SetToSeq(S)
      OBVIOUS
    <2> HIDE DEF S, list
    <2>3. list \in Seq(S)
      BY <2>1, <2>2, SequenceOf
    <2>4. list \in Seq(Synapses) /\ list \in Seq(Synapses \cup {None})
      BY <2>1, <2>3, SeqMonotonic
    <2>5. pairs[e] \in SUBSET (Topics \X BOOLEAN) /\ IsFiniteSet(pairs[e])
      BY <1>6, <1>7 DEF PageKey
    <2>6. New(e) = [ends |-> pairs[e], syns |-> list, maps |-> list, shown |-> 0]
      BY DEF list
    <2> HIDE DEF New, pairs
    <2>7. New(e) \in Edge
      BY <2>4, <2>5, <2>6 DEF Edge
    <2> QED
      BY <2>5, <2>6, <2>7 DEF EdgeSound
  <1>9. p.edges \in Seq(Edge) /\ Len(p.edges) = Len(pairs) /\ DOMAIN p.edges = 1..Len(pairs)
    <2> HIDE DEF pairs, New
    <2>1. \A e \in 1..Len(pairs) : New(e) \in Edge
      BY <1>3, <1>8 DEF EdgeSound
    <2> QED
      BY <1>3, <1>4, <2>1
  <1>10. \A e \in 1..Len(pairs) : p.edges[e] = New(e)
    <2> HIDE DEF pairs, New
    <2> QED
      BY <1>3, <1>4
  <1>11. DataSound(p)
    BY <1>4, Zenon DEF DataSound
  <1>12. GraphSound(p)
    <2>1. p.graph \subseteq NodeObject /\ p.dim \subseteq NodeObject
      <3>1. p.graph = {<<t, FALSE, 1>> : t \in topics} /\ p.dim = {}
        BY <1>4, Zenon
      <3> HIDE DEF topics
      <3>2. \A t \in topics : <<t, FALSE, 1>> \in NodeObject
        BY <1>5 DEF NodeObject
      <3>3. {<<t, FALSE, 1>> : t \in topics} \subseteq NodeObject
        BY <3>2, Zenon
      <3> QED
        BY <3>1, <3>3
    <2>2. p.node \in [Topics -> NodeObject \cup {None}] /\ p.made \in [Topics -> Nat]
      <3>1. /\ p.node = [t \in Topics |-> IF t \in topics THEN <<t, FALSE, 1>> ELSE None]
            /\ p.made = [t \in Topics |-> IF t \in topics THEN 1 ELSE 0]
        BY <1>4, Zenon
      <3> DEFINE first(t) == <<t, FALSE, 1>>
      <3>2. \A t \in topics : first(t) \in NodeObject
        BY <1>5, Zenon DEF NodeObject
      <3> HIDE DEF topics, first
      <3>3. [t \in Topics |-> IF t \in topics THEN first(t) ELSE None]
              \in [Topics -> NodeObject \cup {None}]
        BY <3>2
      <3> USE DEF first
      <3>5. p.node \in [Topics -> NodeObject \cup {None}]
        BY <3>1, <3>3
      <3>4. p.made \in [Topics -> Nat]
        BY <3>1
      <3> QED
        BY <3>4, <3>5
    <2>3. \A e \in 1..Len(p.edges) : EdgeSound(p.edges[e])
      <3> HIDE DEF pairs, New
      <3> QED
        BY <1>3, <1>8, <1>9, <1>10
    <2>4. \A s \in whole : Place(s) \in DOMAIN pairs
      <3> SUFFICES ASSUME NEW s \in whole PROVE \E e \in DOMAIN pairs : pairs[e] = Between(s)
        OBVIOUS
      <3>1. Between(s) \in In(pairs)
        BY <1>3
      <3> QED
        BY <1>3, <3>1, Zenon DEF In
    <2>5. p.edge \in [Synapses -> 1..Len(p.edges) \cup {None}]
      <3> HIDE DEF pairs, Place, whole
      <3> QED
        BY <1>3, <1>4, <1>9, <2>4
    <2>6. p.adj \subseteq 1..Len(p.edges)
      <3> HIDE DEF pairs
      <3> QED
        BY <1>3, <1>4, <1>9
    <2>7. \A e \in p.adj : \A key \in p.edges[e].ends : NodesAt(p, key) # {}
      <3> SUFFICES ASSUME NEW e \in DOMAIN pairs, NEW key \in pairs[e] PROVE NodesAt(p, key) # {}
        <4> HIDE DEF pairs, New
        <4> QED
          BY <1>3, <1>4, <1>8, <1>10
      <3>1. PICK s \in whole : pairs[e] = Between(s)
        BY <1>7, Zenon
      <3>2. PICK t \in topics : key = <<t, FALSE>>
        BY <3>1, Zenon
      <3> DEFINE n == <<t, FALSE, 1>>
      <3>3. n \in p.graph
        <4> HIDE DEF topics
        <4> QED
          BY <1>4
      <3>4. Key(n) = key
        BY <3>2 DEF Key
      <3> HIDE DEF n
      <3> QED
        BY <3>3, <3>4 DEF NodesAt
    <2>8. p.timers \in Seq(SUBSET PageKey)
      <3> HIDE DEF topics, whole, Between, ends, pairs, Listed, Place, offered, New
      <3>1. p.timers = <<>>
        BY <1>4
      <3> QED
        BY <3>1, EmptySeq
    <2> QED
      BY <1>9, <2>1, <2>2, <2>3, <2>5, <2>6, <2>7, <2>8 DEF GraphSound
  <1>13. SelectionSound(p)
    <2> HIDE DEF topics, whole, Between, ends, pairs, Listed, Place, offered, New
    <2>1. /\ <<>> \in Seq(Nat) /\ <<>> \in Seq(NodeObject) /\ In(<<>>) = {} /\ Once(<<>>)
      BY EmptySeq DEF In, Once
    <2> QED
      BY <1>4, <2>1 DEF SelectionSound
  <1>14. FilterSound(p)
    <2>1. offered \subseteq Metacodes /\ IsFiniteSet(offered)
      <3> HIDE DEF topics
      <3> QED
        BY <1>5, OfferedAreMetacodes
    <2>2. p.filters = {Metacode[t] : t \in p.topics}
      BY <1>4
    <2> HIDE DEF topics, whole, Between, ends, pairs, Listed, Place, offered, New
    <2>3. SetToSeq(offered) \in Seq(offered) /\ In(SetToSeq(offered)) = offered /\ Once(SetToSeq(offered))
      BY <2>1, SequenceOf
    <2>4. SetToSeq(offered) \in Seq(Metacodes)
      BY <2>1, <2>3, SeqMonotonic
    <2>5. p.filters = offered /\ p.visible = SetToSeq(offered)
      BY <1>4
    <2> QED
      BY <2>2, <2>3, <2>4, <2>5 DEF FilterSound
  <1>15. Sound(p) /\ ~p.threw
    BY <1>4, <1>11, <1>12, <1>13, <1>14 DEF Sound
  <1>16. \A e \in DOMAIN pairs : /\ In(Listed(pairs[e])) = {s \in whole : Between(s) = pairs[e]}
                                  /\ Once(Listed(pairs[e]))
    <2> SUFFICES ASSUME NEW e \in DOMAIN pairs
                 PROVE  /\ In(Listed(pairs[e])) = {s \in whole : Between(s) = pairs[e]}
                        /\ Once(Listed(pairs[e]))
      OBVIOUS
    <2> DEFINE S == {s \in whole : Between(s) = pairs[e]}
    <2>1. IsFiniteSet(S)
      <3> HIDE DEF whole
      <3> QED
        BY <1>1, FS_Subset
    <2>2. Listed(pairs[e]) = SetToSeq(S)
      OBVIOUS
    <2> HIDE DEF S
    <2>3. In(SetToSeq(S)) = S /\ Once(SetToSeq(S))
      BY <2>1, SequenceOf
    <2> HIDE DEF Listed, pairs
    <2> QED
      BY <2>2, <2>3 DEF S
  <1>17. \A s \in whole : Place(s) \in DOMAIN pairs /\ pairs[Place(s)] = Between(s)
    <2> SUFFICES ASSUME NEW s \in whole PROVE \E e \in DOMAIN pairs : pairs[e] = Between(s)
      OBVIOUS
    <2>1. Between(s) \in In(pairs)
      BY <1>3
    <2> QED
      BY <1>3, <2>1, Zenon DEF In
  <1>18. \A e \in 1..Len(pairs) : /\ p.edges[e].syns = Listed(pairs[e])
                                   /\ p.edges[e].maps = Listed(pairs[e])
    <2> SUFFICES ASSUME NEW e \in 1..Len(pairs)
                 PROVE  /\ p.edges[e].syns = Listed(pairs[e])
                        /\ p.edges[e].maps = Listed(pairs[e])
      OBVIOUS
    <2> DEFINE list == Listed(pairs[e])
    <2>1. p.edges[e] = [ends |-> pairs[e], syns |-> list, maps |-> list, shown |-> 0]
      BY <1>10, Zenon
    <2> HIDE DEF list
    <2>2. p.edges[e].syns = list /\ p.edges[e].maps = list
      BY <2>1
    <2> QED
      BY <2>2 DEF list
  <1> HIDE DEF Listed
  <1>19. DrawnIsListed(p)
    <2> SUFFICES ASSUME NEW s \in whole
                 PROVE  s \in In(p.edges[p.edge[s]].syns)
      BY <1>4, Zenon DEF DrawnIsListed
    <2>1. p.edge[s] = Place(s) /\ Place(s) \in 1..Len(pairs) /\ pairs[Place(s)] = Between(s)
      <3> HIDE DEF Place, whole, pairs, Between
      <3> QED
        BY <1>3, <1>4, <1>5, <1>17
    <2> HIDE DEF Place, pairs, whole, Between
    <2> QED
      BY <1>3, <1>16, <1>18, <2>1
  <1>20. ListedIsDrawn(p, {})
    <2> SUFFICES ASSUME NEW e \in 1..Len(pairs), NEW i \in 1..Len(Listed(pairs[e]))
                 PROVE  ListedWell(p, {}, e, i, Listed(pairs[e])[i])
      <3> HIDE DEF pairs
      <3> QED
        BY <1>9, <1>18 DEF ListedIsDrawn, Edges
    <2> DEFINE s == Listed(pairs[e])[i]
    <2>1. s \in whole /\ Between(s) = pairs[e]
      <3>1. s \in In(Listed(pairs[e]))
        BY DEF In
      <3> HIDE DEF s, pairs, whole, Between
      <3> QED
        BY <1>3, <1>16, <3>1
    <2>2. s \in Synapses /\ p.edge[s] = Place(s)
      <3> HIDE DEF s, Place, whole, pairs, Between
      <3> QED
        BY <1>4, <1>5, <2>1
    <2>3. Place(s) = e
      <3> HIDE DEF s, Place, whole, pairs, Between
      <3> QED
        BY <1>3, <1>17, <2>1 DEF Once
    <2>4. \A j \in 1..Len(Listed(pairs[e])) : Listed(pairs[e])[j] = s => j = i
      <3> HIDE DEF pairs, whole, Between
      <3> QED
        BY <1>3, <1>16 DEF Once
    <2>5. s \in p.syns
      <3> HIDE DEF s, whole, pairs
      <3> QED
        BY <1>4, <2>1
    <2> HIDE DEF Place, pairs, whole, Between
    <2> QED
      BY <1>18, <2>2, <2>3, <2>4, <2>5 DEF ListedWell
  <1>21. SynapsesLinked(p, {}, {})
    BY <1>19, <1>20 DEF SynapsesLinked, SynapsesAwaited
  <1>22. TopicsLinked(p, {}, {})
    <2>1. /\ p.node = [t \in Topics |-> IF t \in topics THEN <<t, FALSE, 1>> ELSE None]
          /\ p.graph = {<<t, FALSE, 1>> : t \in topics}
          /\ p.made = [t \in Topics |-> IF t \in topics THEN 1 ELSE 0]
          /\ p.topics = topics
      BY <1>4, Zenon
    <2> HIDE DEF topics
    <2> DEFINE first(t) == <<t, FALSE, 1>>
    <2>7. \A t : first(t)[1] = t /\ first(t)[2] = FALSE
      OBVIOUS
    <2>8. /\ p.node = [t \in Topics |-> IF t \in topics THEN first(t) ELSE None]
          /\ p.graph = {first(t) : t \in topics}
      BY <2>1, Zenon
    <2> HIDE DEF first
    <2>2. \A n \in p.graph : /\ n[1] \in topics /\ n[2] = FALSE
                             /\ n = first(n[1]) /\ p.made[n[1]] = 1
      <3> SUFFICES ASSUME NEW n \in p.graph
                   PROVE  /\ n[1] \in topics /\ n[2] = FALSE
                          /\ n = first(n[1]) /\ p.made[n[1]] = 1
        OBVIOUS
      <3>1. PICK t \in topics : n = first(t)
        BY <2>8
      <3>2. p.made[t] = 1
        BY <1>5, <2>1
      <3> QED
        BY <2>7, <3>1, <3>2
    <2>3. \A t \in Topics : p.node[t] # None => p.node[t][1] = t /\ p.node[t][2] = FALSE
      BY <2>7, <2>8
    <2>4. Numbered(p)
      BY <2>2, <2>3 DEF Numbered, Key
    <2>5. \A t : ~Unsaved(p, t)
      BY <1>5, <2>1, <2>3 DEF Unsaved
    <2> QED
      BY <2>2, <2>4, <2>5 DEF TopicsLinked, UnsavedOrFading, UnderCidOnly, TopicsAwaited
  <1>23. p.new = {}
    BY <1>4
  <1> QED
    BY <1>15, <1>21, <1>22, <1>23, Zenon DEF p, Linked

=============================================================================
