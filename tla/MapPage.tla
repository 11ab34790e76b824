------------------------------ MODULE MapPage ------------------------------
(***************************************************************************)
(* What the page of one map holds, and what its functions do to it: the    *)
(* collections of DataModel, the graph of the drawing library, the         *)
(* selection (Selected, Control) and the filter by metacode (Filter).      *)
(*                                                                         *)
(* A page is a record; each function of the source is an operator from     *)
(* pages to pages, so that one function calls another as in the source.    *)
(* A function that throws sets p.threw, and Then skips what would have     *)
(* followed: what was done before the throw stays done.                    *)
(*                                                                         *)
(* Objects are told apart where the source does so: a node of the graph is *)
(* <<topic, under its cid, n>>, the n-th object made for the topic, and an *)
(* edge is its position in p.edges.  Positions, colours and texts are left *)
(* out, but for the metacode, by which the page filters.                   *)
(***************************************************************************)
EXTENDS Integers, FiniteSets, SequencesExt

CONSTANTS
    Topics, Synapses,   \* the topics and synapses there may be
    Ends,               \* Ends[s]: the two topics a synapse connects
    Metacodes, Metacode,\* Metacode[t]: the metacode of a topic
    Own,                \* the topics and synapses made by the page's user
    Me, Other,          \* that user, and another who edits the map
    None                \* undefined

Items == Topics \cup Synapses

ASSUME PageAssumption ==
    /\ IsFiniteSet(Topics) /\ IsFiniteSet(Synapses)
    /\ Topics \cap Synapses = {}
    /\ None \notin Items \cup Nat /\ None \notin Topics \X BOOLEAN \X Nat
    /\ Ends \in [Synapses -> Topics \X Topics]
    /\ \A s \in Synapses : Ends[s][1] # Ends[s][2]
    /\ Metacode \in [Topics -> Metacodes]
    /\ Own \subseteq Items
    /\ Me # Other

Owner(x) == IF x \in Own THEN Me ELSE Other

(* A row of the server's table of mappings: item `of` was put on the map   *)
(* by user `by`.                                                           *)
Row(id, x, u) == [id |-> id, of |-> x, by |-> u]

-----------------------------------------------------------------------------
(* Sequential composition that stops at an exception. *)
Then(p, F(_)) == IF p.threw THEN p ELSE F(p)
Throw(p) == [p EXCEPT !.threw = TRUE]

(* array.splice(array.indexOf(x), 1): without x the index is -1, and the   *)
(* last element goes.                                                      *)
Spliced(seq, x) ==
    IF Contains(seq, x) THEN RemoveFirst(seq, x)
    ELSE IF seq = <<>> THEN seq ELSE Front(seq)

-----------------------------------------------------------------------------
(* DataModel: the mapping the page holds of an item, if any. *)
RowsOf(p, x) == {r \in p.maps : r.of = x}
HasMapping(p, x) == x \in p.drafts \/ RowsOf(p, x) # {}

(* Filter.updateFilters on the metacodes: those gone are spliced out of    *)
(* the visible ones, new ones become visible.                              *)
checkMetacodesAddingOnly(p) ==
    LET now == {Metacode[t] : t \in p.topics}
    IN [p EXCEPT !.filters = @ \cup now, !.visible = @ \o SetToSeq(now \ p.filters)]
checkMetacodes(p) ==
    LET now == {Metacode[t] : t \in p.topics}
        kept == FoldSet(LAMBDA m, v : Spliced(v, m), p.visible, p.filters \ now)
    IN [p EXCEPT !.filters = now, !.visible = kept \o SetToSeq(now \ p.filters)]

(* Filter.updateFilters on the mappers: a mapping by somebody whose Mapper *)
(* is not loaded is looked up in vain, and the call throws.                *)
checkMappers(p) ==
    IF \E r \in p.maps : r.by \notin p.mappers THEN Throw(p) ELSE p

Checks(p) == checkMappers(checkMetacodes(p))

(* DataModel.attachCollectionEvents: every addition and removal checks the *)
(* filters; adding what is there, or removing what is not, is no event.    *)
AddTopic(p, t) ==
    IF t \in p.topics THEN p
    ELSE Checks([p EXCEPT !.topics = @ \cup {t}, !.node[t] = None])
RemoveTopic(p, t) ==
    IF t \in p.topics THEN Checks([p EXCEPT !.topics = @ \ {t}]) ELSE p
AddSynapse(p, s) ==
    IF s \in p.syns THEN p
    ELSE checkMappers([p EXCEPT !.syns = @ \cup {s}, !.edge[s] = None])
RemoveSynapse(p, s) ==
    IF s \in p.syns THEN checkMappers([p EXCEPT !.syns = @ \ {s}]) ELSE p
AddMappingOfOwner(p, r) == Checks([p EXCEPT !.maps = @ \cup {[r EXCEPT !.by = Owner(r.of)]}])
AddMapping(p, r) ==
    IF r \in p.maps THEN p ELSE Checks([p EXCEPT !.maps = @ \cup {r}])
AddDraft(p, x) == Checks([p EXCEPT !.drafts = @ \cup {x}])
RemoveMapping(p, x) ==
    IF HasMapping(p, x)
    THEN Checks([p EXCEPT !.maps = @ \ RowsOf(p, x), !.drafts = @ \ {x}])
    ELSE p

-----------------------------------------------------------------------------
(* The graph of patched/JIT.js: nodes and edges by the ids of nodes. *)
Key(n) == <<n[1], n[2]>>
NodesAt(p, key) == {n \in p.graph : Key(n) = key}
NodeAt(p, key) == CHOOSE n \in p.graph : Key(n) = key
EdgesAt(p, keys) == {e \in p.adj : p.edges[e].ends = keys}
EdgesOf(p, key) == {e \in p.adj : key \in p.edges[e].ends}
TheEdge(p, keys) == CHOOSE e \in p.adj : p.edges[e].ends = keys

addNode(p, key) ==
    IF NodesAt(p, key) # {} THEN p
    ELSE LET n == p.made[key[1]] + 1
         IN [p EXCEPT !.made[key[1]] = n, !.graph = @ \cup {<<key[1], key[2], n>>}]

(* The object of the node goes on holding its edges. *)
removeNode(p, key) ==
    [p EXCEPT !.graph = @ \ NodesAt(p, key), !.adj = @ \ EdgesOf(p, key),
              !.kept = @ \cup (NodesAt(p, key) \X EdgesOf(p, key))]

addAdjacence(p, k1, k2) ==
    LET q == addNode(addNode(p, k1), k2)
    IN IF EdgesAt(q, {k1, k2}) # {} THEN q
       ELSE [q EXCEPT !.edges = Append(@, [ends |-> {k1, k2}, syns |-> <<>>,
                                           maps |-> <<>>, shown |-> 0]),
                      !.adj = @ \cup {Len(q.edges) + 1}]

removeAdjacence(p, keys) == [p EXCEPT !.adj = @ \ EdgesAt(p, keys)]

-----------------------------------------------------------------------------
(* Control: the selection. *)
selectNode(p, n) ==
    IF n \in p.dim \/ Contains(p.selN, n) THEN p
    ELSE [p EXCEPT !.marked = @ \cup {n}, !.selN = Append(@, n)]
deselectNodeStaysMarked(p, n) == [p EXCEPT !.selN = Spliced(@, n)]
deselectNode(p, n) ==
    [p EXCEPT !.marked = @ \ {n}, !.selN = Spliced(@, n),
              !.slipped = @ \/ (p.selN # <<>> /\ ~Contains(p.selN, n))]
selectEdge(p, e) ==
    IF Contains(p.selE, e) THEN p ELSE [p EXCEPT !.selE = Append(@, e)]
deselectEdge(p, e) == [p EXCEPT !.selE = Spliced(@, e)]

deselectAllNodes(p) == FoldRight(LAMBDA n, q : deselectNode(q, n), p.selN, p)
deselectAllEdges(p) == FoldRight(LAMBDA e, q : deselectEdge(q, e), p.selE, p)

(* The nodes selected at the call bring their neighbours; one that is no   *)
(* longer in the graph has none.                                           *)
selectNeighbors(p) ==
    LET Neighbour(q, n, e) ==
            selectEdge(FoldSet(LAMBDA k, r : selectNode(r, NodeAt(r, k)), q,
                               p.edges[e].ends \ {Key(n)}), e)
    IN FoldLeft(LAMBDA q, n : FoldSet(LAMBDA e, x : Neighbour(x, n, e), q, EdgesOf(q, Key(n))),
                p, p.selN)

(* Hiding fades out for 500 ms; the timers of one length end in the order  *)
(* they were set.                                                          *)
hideNode(p, key) ==
    IF NodesAt(p, key) = {} THEN Throw(p)
    ELSE LET q == deselectNode(p, NodeAt(p, key))
         IN Checks([q EXCEPT !.timers = Append(@, {key})])
hideEdge(p, e) ==
    LET q == deselectEdge(p, e)
    IN checkMappers([q EXCEPT !.timers = Append(@, p.edges[e].ends)])

Elapse(p) ==
    LET keys == Head(p.timers)
        q == [p EXCEPT !.timers = Tail(@)]
    IN IF \E key \in keys : keys = {key}
       THEN removeNode(q, CHOOSE key \in keys : TRUE) ELSE removeAdjacence(q, keys)

(* The synapse of an edge that is displayed leaves its two lists. *)
DropAtMappings(p, e, i) ==
    IF i \in DOMAIN p.edges[e].maps
    THEN [p EXCEPT !.edges[e].maps = RemoveAt(@, i), !.edges[e].shown = 0] ELSE p
DropAt(p, e, i) ==
    IF i \in DOMAIN p.edges[e].syns
    THEN [p EXCEPT !.edges[e].syns = RemoveAt(@, i), !.edges[e].maps = RemoveAt(@, i),
                   !.edges[e].shown = 0]
    ELSE [p EXCEPT !.edges[e].shown = 0]
HideIfLast(p, e, list) == IF Len(list) = 1 THEN hideEdge(p, e) ELSE p

(* destroy() of a mapping or a model: the request is sent unless it was    *)
(* never saved, and the model leaves its collection.                       *)
DestroyMapping(p, x) ==
    RemoveMapping([p EXCEPT !.out = @ \cup {<<"unmap", r.id>> : r \in RowsOf(p, x)}], x)
Destroyed(p, x) ==
    IF x \in p.new THEN p ELSE [p EXCEPT !.out = @ \cup {<<"destroy", x>>}]

removeEdge(p, e) ==
    LET i == p.edges[e].shown + 1
        s == p.edges[e].syns[i]
        Unmap(q) == IF i \in DOMAIN p.edges[e].maps /\ p.edges[e].maps[i] # None
                    THEN DestroyMapping(q, s) ELSE Throw(q)
    IN Then(Then(Then(HideIfLast(p, e, p.edges[e].maps), Unmap),
                 LAMBDA q : RemoveSynapse(q, s)),
            LAMBDA q : DropAt(q, e, i))

deleteEdge(p, e) ==
    LET i == p.edges[e].shown + 1
        s == p.edges[e].syns[i]
    IN IF i \notin DOMAIN p.edges[e].syns THEN Throw(p)
       ELSE IF s \notin Own THEN p
       ELSE Then(Then(Then(HideIfLast(p, e, p.edges[e].syns),
                           LAMBDA q : RemoveSynapse(Destroyed(q, s), s)),
                      LAMBDA q : RemoveMapping(q, s)),
                 LAMBDA q : DropAt(q, e, i))

(* A node's mapping is the one the collection holds; once that is gone,    *)
(* the DELETE would find no row.                                           *)
removeNodeFromMap(p, n) ==
    IF NodesAt(p, Key(n)) = {} THEN Throw(p)
    ELSE Then(Then(DestroyMapping(p, n[1]), LAMBDA q : RemoveTopic(q, n[1])),
              LAMBDA q : hideNode(q, Key(n)))
deleteNode(p, n) ==
    IF NodesAt(p, Key(n)) = {} THEN Throw(p)
    ELSE IF n[1] \notin Own THEN p
    ELSE Then(Then(RemoveTopic(Destroyed(p, n[1]), n[1]),
                   LAMBDA q : RemoveMapping(q, n[1])),
              LAMBDA q : hideNode(q, Key(n)))

(* The selection is gone through from its end.  What leaves it is the  *)
(* edge whose turn it is, but maybe not the node (the graph may hold a new *)
(* node in its place), so each node is read when its turn comes.           *)
Places(p) == [i \in DOMAIN p.selN |-> i]
AtPlace(p, i, F(_, _)) == IF i \in DOMAIN p.selN THEN F(p, p.selN[i]) ELSE Throw(p)

removeSelectedEdges(p) ==
    Then(FoldRight(LAMBDA e, q : Then(q, LAMBDA r : removeEdge(r, e)), p.selE, p),
         LAMBDA q : [q EXCEPT !.selE = <<>>])
removeSelectedNodes(p) ==
    FoldRight(LAMBDA i, q : Then(q, LAMBDA r : AtPlace(r, i, removeNodeFromMap)), Places(p), p)
deleteSelected(p) ==
    LET q == FoldRight(LAMBDA e, x : Then(x, LAMBDA r : deleteEdge(r, e)), p.selE, p)
    IN FoldRight(LAMBDA i, x : Then(x, LAMBDA r : AtPlace(r, i, deleteNode)), Places(q), q)
hideSelectedEdges(p) ==
    Then(FoldRight(LAMBDA e, q : Then(q, LAMBDA r : hideEdge(r, e)), p.selE, p),
         LAMBDA q : [q EXCEPT !.selE = <<>>])
hideSelectedNodes(p) ==
    LET hideIt(r, n) == hideNode(r, Key(n))
    IN FoldRight(LAMBDA i, q : Then(q, LAMBDA r : AtPlace(r, i, hideIt)), Places(p), p)

-----------------------------------------------------------------------------
(* Topic.renderTopic and Synapse.renderSynapse: what there is of an item   *)
(* is drawn; a synapse is selected as it appears.                          *)
renderTopic(p, t) ==
    LET key == <<t, t \in p.new>>
        q == addNode(p, key)
    IN IF ~HasMapping(p, t) THEN Throw(p)
       ELSE [q EXCEPT !.node[t] = NodeAt(q, key)]

renderSynapse(p, s, n1, n2) ==
    IF n1 = None \/ n2 = None THEN Throw(p)
    ELSE LET q == addAdjacence(p, Key(n1), Key(n2))
             e == TheEdge(q, {Key(n1), Key(n2)})
             m == IF HasMapping(p, s) THEN s ELSE None
         IN selectEdge([q EXCEPT !.edge[s] = e,
                                 !.edges[e].syns = Append(@, s),
                                 !.edges[e].maps = Append(@, m)], e)

(* JIT.prepareVizData and Visualize.render, on a page that has just loaded *)
(* its collections: synapses without their topics are dropped, the others  *)
(* are drawn, one edge for all that connect the same two.                  *)
Launched(rows, mappers) ==
    LET topics == {t \in Topics : \E r \in rows : r.of = t}
        whole == {s \in Synapses : /\ \E r \in rows : r.of = s
                                   /\ Ends[s][1] \in topics /\ Ends[s][2] \in topics}
        Between(s) == {<<Ends[s][1], FALSE>>, <<Ends[s][2], FALSE>>}
        pairs == SetToSeq({Between(s) : s \in whole})
        listed(k) == SetToSeq({s \in whole : Between(s) = k})
    IN [topics |-> topics, syns |-> whole, new |-> {},
        maps |-> {r \in rows : r.of \in topics \cup whole}, drafts |-> {},
        mappers |-> mappers,
        node |-> [t \in Topics |-> IF t \in topics THEN <<t, FALSE, 1>> ELSE None],
        graph |-> {<<t, FALSE, 1>> : t \in topics},
        made |-> [t \in Topics |-> IF t \in topics THEN 1 ELSE 0],
        edge |-> [s \in Synapses |-> IF s \in whole
                    THEN CHOOSE e \in DOMAIN pairs : pairs[e] = Between(s) ELSE None],
        edges |-> [e \in DOMAIN pairs |->
                     [ends |-> pairs[e], syns |-> listed(pairs[e]),
                      maps |-> listed(pairs[e]), shown |-> 0]],
        adj |-> DOMAIN pairs,
        selN |-> <<>>, selE |-> <<>>, marked |-> {}, dim |-> {}, kept |-> {},
        timers |-> <<>>, filters |-> {Metacode[t] : t \in topics},
        visible |-> SetToSeq({Metacode[t] : t \in topics}),
        out |-> {}, slipped |-> FALSE, threw |-> FALSE]

-----------------------------------------------------------------------------
(* Filter.passFilters: whatever does not pass is deselected, selected or   *)
(* not, and fades; a topic without a mapping or a synapse without an edge  *)
(* makes it throw.  Topics are gone through in some order; all synapses    *)
(* and mappers pass their filters.                                         *)
passTopic(p, t) ==
    IF ~HasMapping(p, t) THEN Throw(p)
    ELSE IF p.node[t] = None THEN p
    ELSE IF Contains(p.visible, Metacode[t]) THEN [p EXCEPT !.dim = @ \ {p.node[t]}]
    ELSE LET n == p.node[t]
             q == [deselectNode(p, n) EXCEPT !.dim = @ \cup {n}]
             mine == IF n \in p.graph THEN EdgesOf(p, Key(n))
                     ELSE {e \in DOMAIN p.edges : <<n, e>> \in p.kept}
         IN FoldSet(LAMBDA e, x : deselectEdge(x, e), q, mine)

passFilters(p) ==
    LET q == FoldSet(LAMBDA t, x : Then(x, LAMBDA r : passTopic(r, t)), p, p.topics)
        Unpassed(s) == p.edge[s] = None \/ ~HasMapping(p, s)
    IN Then(q, LAMBDA r : IF \E s \in p.syns : Unpassed(s) THEN Throw(r) ELSE r)

toggleMetacode(p, m) ==
    passFilters([p EXCEPT !.visible = IF Contains(@, m) THEN RemoveFirst(@, m)
                                      ELSE Append(@, m)])

=============================================================================
