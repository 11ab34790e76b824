------------------------------- MODULE Cable -------------------------------
(***************************************************************************)
(* The page of a map while its user and others edit the map: the rows of   *)
(* the server, the broadcasts of the map's channel, and the requests by    *)
(* which the page fetches what a broadcast names and saves what its user   *)
(* makes.                                                                  *)
(*                                                                         *)
(* Broadcasts reach the page in order.  A row is broadcast in the          *)
(* transaction that inserts it, so that the page may ask for it before it  *)
(* is committed.  Requests are answered in any order.  What the others do  *)
(* and what the user does is bounded by the budgets one of which is chosen *)
(* at the start.                                                           *)
(***************************************************************************)
EXTENDS MapPage

CONSTANT Budgets    \* records [others, makes, edits, clicks, filters]

VARIABLES
    page,
    table,      \* the rows of mappings ever inserted, in order
    live,       \* the ids of those not deleted
    held,       \* the ids of those not committed
    born,       \* the topics and synapses there are
    stream,     \* the broadcasts on their way to the page
    loads,      \* topics and synapses the page is waiting for, to draw them
    left,       \* the budget left
    wronged     \* history: the items a handler failed or overtook

vars == <<page, table, live, held, born, stream, loads, left, wronged>>

OnMap(x) == \E i \in live : table[i].of = x
Fresh(x) == x \notin born /\ \A i \in DOMAIN table : table[i].of # x
RowOf(x) == CHOOSE i \in live : table[i].of = x
IsTopic(x) == x \in Topics

(* The page after a handler: an exception ends the handler, not the page. *)
Turn(p) == page' = [p EXCEPT !.threw = FALSE]

Spend(b) == left[b] > 0 /\ left' = [left EXCEPT ![b] = @ - 1]

-----------------------------------------------------------------------------
(* The server. *)
Contents == {X \in SUBSET Items : \A s \in X \cap Synapses :
                                     {Ends[s][1], Ends[s][2]} \subseteq X}

Init ==
    \E X \in Contents, mappers \in {{Me}, {Me, Other}} :
        LET xs == SetToSeq(X)
            rows == [i \in DOMAIN xs |-> Row(i, xs[i], Owner(xs[i]))]
        IN /\ X \ Own # {} => Other \in mappers
           /\ page = Launched(Range(rows), mappers)
           /\ table = rows
           /\ live = DOMAIN xs
           /\ born = X
           /\ held = {} /\ stream = <<>> /\ loads = {} /\ wronged = {}
           /\ left \in Budgets

(* Mapping.after_created broadcasts inside the transaction; a mapping made *)
(* by the page's own request is committed by the time it is answered.      *)
Insert(x, u, open) ==
    LET id == Len(table) + 1
    IN /\ table' = Append(table, Row(id, x, u))
       /\ live' = live \cup {id}
       /\ held' = IF open THEN held \cup {id} ELSE held
       /\ stream' = Append(stream, <<"added", x, id>>)

Commit ==
    \E i \in held :
        /\ held' = held \ {i}
        /\ UNCHANGED <<page, table, live, born, stream, loads, left, wronged>>

(* Mapping.before_destroyed broadcasts the removal. *)
Delete(i) ==
    /\ live' = live \ {i}
    /\ stream' = Append(stream, <<"removed", table[i].of>>)

(* Topic destroys its synapses, then its mappings; a synapse its mappings. *)
Doomed(x) == IF IsTopic(x) THEN {s \in Synapses : x \in {Ends[s][1], Ends[s][2]}} ELSE {}
Destroy(x) ==
    LET rows(y) == SetToSeq({i \in live : table[i].of = y})
        all == FlattenSeq([k \in 1..Cardinality(Doomed(x)) |->
                             rows(SetToSeq(Doomed(x))[k])]) \o rows(x)
    IN /\ born' = born \ (Doomed(x) \cup {x})
       /\ live' = live \ Range(all)
       /\ stream' = stream \o [k \in DOMAIN all |-> <<"removed", table[all[k]].of>>]

(* Others put an item on the map, take it off, or destroy one of theirs.   *)
OtherAdds ==
    \E x \in Items :
        /\ ~OnMap(x)
        /\ x \in born \/ (x \notin Own /\ Fresh(x))
        /\ x \in Synapses => OnMap(Ends[x][1]) /\ OnMap(Ends[x][2])
        /\ Spend("others")
        /\ Insert(x, Other, TRUE)
        /\ born' = born \cup {x}
        /\ UNCHANGED <<page, loads, wronged>>

OtherRemoves ==
    \E i \in live \ held :
        /\ Spend("others")
        /\ Delete(i)
        /\ UNCHANGED <<page, table, held, born, loads, wronged>>

OtherDestroys ==
    \E x \in born \ Own :
        /\ held = {}
        /\ Spend("others")
        /\ Destroy(x)
        /\ UNCHANGED <<page, table, held, loads, wronged>>

-----------------------------------------------------------------------------
(* The requests of the page, answered in any order. *)
ServeUnmap ==
    \E i \in 1..Len(table) :
        /\ <<"unmap", i>> \in page.out
        /\ i \notin held
        /\ page' = [page EXCEPT !.out = @ \ {<<"unmap", i>>}]
        /\ IF i \in live THEN Delete(i) ELSE UNCHANGED <<live, stream>>
        /\ UNCHANGED <<table, held, born, loads, left, wronged>>

ServeDestroy ==
    \E x \in Items :
        /\ <<"destroy", x>> \in page.out
        /\ held = {}
        /\ page' = [page EXCEPT !.out = @ \ {<<"destroy", x>>}]
        /\ IF x \in born THEN Destroy(x) ELSE UNCHANGED <<born, live, stream>>
        /\ UNCHANGED <<table, held, loads, left, wronged>>

(* POST /topics or /synapses: the model has its id from now on, and its    *)
(* mapping is saved, whether the page still shows it or not.  Nothing is   *)
(* broadcast: that is up to the mapping.                                   *)
ServeCreate ==
    \E x \in Items :
        /\ <<"create", x>> \in page.out
        /\ born' = born \cup {x}
        /\ page' = [page EXCEPT !.out = (@ \ {<<"create", x>>}) \cup {<<"map", x>>},
                                !.new = @ \ {x}]
        /\ UNCHANGED <<table, live, held, stream, loads, left, wronged>>

(* POST /mappings: the row is there, and its broadcast on the way, before  *)
(* the answer is.                                                          *)
ServeMap ==
    \E x \in Items :
        LET o == page.out \ {<<"map", x>>}
        IN /\ <<"map", x>> \in page.out
           /\ IF x \in born
              THEN /\ Insert(x, Me, FALSE)
                   /\ page' = [page EXCEPT !.out = o \cup {<<"mapped", Len(table) + 1>>}]
              ELSE /\ UNCHANGED <<table, live, held, stream>>
                   /\ page' = [page EXCEPT !.out = o]
           /\ wronged' = wronged \cup {y \in {x} : OnMap(y) \/ y \notin born}
           /\ UNCHANGED <<born, loads, left>>

(* The mapping gets its id, if the page still holds it.                    *)
AnswerMap ==
    \E i \in 1..Len(table) :
        LET x == table[i].of
            o == page.out \ {<<"mapped", i>>}
        IN /\ <<"mapped", i>> \in page.out
           /\ page' = IF x \in page.drafts
                      THEN [page EXCEPT !.out = o, !.drafts = @ \ {x}, !.maps = @ \cup {table[i]}]
                      ELSE [page EXCEPT !.out = o]
           /\ UNCHANGED <<table, live, held, born, stream, loads, left, wronged>>

-----------------------------------------------------------------------------
(* Cable: the broadcasts. *)
Load(x, i) ==
    [of |-> x, row |-> i, cancel |-> FALSE, lost |-> FALSE,
     wait |-> {"model", "mapping"} \cup (IF Owner(x) \in page.mappers THEN {} ELSE {"mapper"}),
     got |-> IF Owner(x) \in page.mappers THEN {"mapper"} ELSE {}]

topicRemovedFromData(p, t) == RemoveMapping(RemoveTopic(p, t), t)
topicRemoved(p, t) ==
    IF t \notin p.topics THEN p
    ELSE IF p.node[t] = None THEN Throw(p)
    ELSE Then(Then(hideNode(p, Key(p.node[t])), LAMBDA q : RemoveTopic(q, t)),
              LAMBDA q : RemoveMapping(q, t))

synapseRemoved(p, s) ==
    IF s \notin p.syns THEN p
    ELSE IF p.edge[s] = None THEN Throw(p)
    ELSE LET e == p.edge[s]
             list == p.edges[e].syns
             Drop(q) == IF list = <<>> THEN q
                        ELSE DropAt(q, e, IF Contains(list, s)
                                          THEN SelectInSeq(list, LAMBDA x : x = s)
                                          ELSE Len(list))
         IN Then(Then(Then(HideIfLast(p, e, p.edges[e].maps), Drop),
                      LAMBDA q : RemoveSynapse(q, s)),
                 LAMBDA q : RemoveMapping(q, s))

(* The page is busy with an item it is loading, saving or fading out; a    *)
(* broadcast of what it is mapping itself meets no harm.                   *)
Keys(x) == {<<x, TRUE>>, <<x, FALSE>>}
Fading(x) == \E k \in DOMAIN page.timers :
                IF IsTopic(x) THEN page.timers[k] \cap Keys(x) # {}
                ELSE page.timers[k] \cap (Keys(Ends[x][1]) \cup Keys(Ends[x][2])) # {}
Busy(x) == \/ \E l \in loads : l.of = x
           \/ Fading(x)
           \/ x \in page.drafts
           \/ \E r \in page.out : r[2] = x

(* DataModel.Topics.get(id), DataModel.Synapses.get(id). *)
KnownAsDrawn(p, x) == x \in p.topics \cup p.syns /\ <<x, TRUE>> \notin {Key(n) : n \in p.graph}
Known(p, x) == x \in p.topics \cup p.syns

Mapped(x, i) == x \in page.drafts /\ table[i].of = x /\ <<"mapped", i>> \in page.out
Overtakes(x, i) ==
    IF Known(page, x) /\ Mapped(x, i) THEN Fading(x) \/ \E l \in loads : l.of = x ELSE Busy(x)

Added ==
    /\ stream # <<>>
    /\ Head(stream)[1] = "added"
    /\ LET x == Head(stream)[2]
           i == Head(stream)[3]
       IN /\ IF Known(page, x) THEN UNCHANGED loads ELSE loads' = loads \cup {Load(x, i)}
          /\ wronged' = wronged \cup {y \in {x} : Overtakes(y, i)}
    /\ stream' = Tail(stream)
    /\ UNCHANGED <<page, table, live, held, born, left>>

Removed ==
    /\ stream # <<>>
    /\ Head(stream)[1] = "removed"
    /\ LET x == Head(stream)[2]
           p == IF IsTopic(x) THEN topicRemoved(page, x) ELSE synapseRemoved(page, x)
       IN /\ Turn(p)
          /\ wronged' = wronged \cup {y \in {x} : Busy(y) \/ p.threw}
    /\ stream' = Tail(stream)
    /\ UNCHANGED <<table, live, held, born, loads, left>>

(* The answers a load waits for.  An exception in a callback leaves the    *)
(* variable it should have set undefined, and that a mapper could not be   *)
(* fetched is not looked at: such a load has lost what it needs, and polls *)
(* on unless another answer cancels it.                                    *)
HeardOnlySuccess(l, what, ok, kept) ==
    [l EXCEPT !.wait = @ \ {what}, !.lost = @ \/ ~kept,
              !.got = IF ok /\ kept THEN @ \cup {what} ELSE @]
Heard(l, what, ok, kept) ==
    [l EXCEPT !.wait = @ \ {what},
              !.cancel = @ \/ (~ok /\ what # "mapper"),
              !.lost = @ \/ ~kept \/ (~ok /\ what = "mapper"),
              !.got = IF ok /\ kept THEN @ \cup {what} ELSE @]
Answered(l, what, p, ok) ==
    /\ Turn(p)
    /\ loads' = (loads \ {l}) \cup {Heard(l, what, ok, ~p.threw)}
    /\ wronged' = IF p.threw \/ ~ok THEN wronged \cup {l.of} ELSE wronged
    /\ UNCHANGED <<table, live, held, born, stream, left>>

AnswerModel ==
    \E l \in loads :
        /\ "model" \in l.wait
        /\ IF l.of \notin born THEN Answered(l, "model", page, FALSE)
           ELSE Answered(l, "model", IF IsTopic(l.of) THEN AddTopic(page, l.of)
                                     ELSE AddSynapse(page, l.of), TRUE)

AnswerMapping ==
    \E l \in loads :
        /\ "mapping" \in l.wait
        /\ IF l.row \notin live \ held THEN Answered(l, "mapping", page, FALSE)
           ELSE Answered(l, "mapping", AddMapping(page, table[l.row]), TRUE)

AnswerMapper ==
    \E l \in loads :
        /\ "mapper" \in l.wait
        /\ \/ Answered(l, "mapper", [page EXCEPT !.mappers = @ \cup {Owner(l.of)}], TRUE)
           \/ Answered(l, "mapper", page, FALSE)

(* waitThenRenderTopic, waitThenRenderSynapse. *)
Drawn(p, x) ==
    IF IsTopic(x) THEN renderTopic(p, x)
    ELSE IF {Ends[x][1], Ends[x][2]} \subseteq p.topics
         THEN renderSynapse(p, x, p.node[Ends[x][1]], p.node[Ends[x][2]])
         ELSE Throw(p)

(* The interval ends once the load is cancelled or has all it needs.       *)
Ready(l) == l.wait = {} /\ (l.cancel \/ l.got = {"model", "mapping", "mapper"})

Poll ==
    \E l \in loads :
        /\ Ready(l)
        /\ LET p == IF l.cancel THEN page ELSE Drawn(page, l.of)
           IN /\ Turn(p)
              /\ wronged' = IF p.threw \/ Fading(l.of) THEN wronged \cup {l.of} ELSE wronged
        /\ loads' = loads \ {l}
        /\ UNCHANGED <<table, live, held, born, stream, left>>

(* A timer of hideNode or hideEdge: whatever the page still means to show  *)
(* and loses with it is noted.                                             *)
Shown(p, x) ==
    IF IsTopic(x) THEN \E n \in p.graph : n[1] = x
    ELSE \E e \in p.adj : Contains(p.edges[e].syns, x)

FadeEnds ==
    /\ page.timers # <<>>
    /\ page' = Elapse(page)
    /\ wronged' = wronged \cup
         {x \in page.topics \cup page.syns : Shown(page, x) /\ ~Shown(page', x)}
    /\ UNCHANGED <<table, live, held, born, stream, loads, left>>

-----------------------------------------------------------------------------
(* The page's user. *)
(* A synapse whose end has no id yet is not saved.  An item taken off      *)
(* while its mapping is being saved is not taken off the map.              *)
Announced(x) ==
    \E i \in DOMAIN table : Mapped(x, i) /\ <<"added", x, i>> \notin Range(stream)

UserTurn(p) ==
    /\ Turn(p)
    /\ wronged' = wronged \cup (IF p.threw THEN page.topics \cup page.syns ELSE {})
                          \cup {s \in p.syns \cap p.new : <<"create", s>> \notin p.out}
                          \cup {x \in page.drafts \ p.drafts : Announced(x)}
    /\ UNCHANGED <<table, live, held, born, stream, loads>>

ClickNode ==
    \E n \in page.graph \ page.dim, shift \in BOOLEAN :
        /\ Spend("clicks")
        /\ LET p == IF shift THEN page ELSE deselectAllEdges(deselectAllNodes(page))
           IN UserTurn(IF n \in page.marked THEN deselectNode(p, n) ELSE selectNode(p, n))

ClickEdge ==
    \E e \in page.adj, shift \in BOOLEAN :
        /\ Spend("clicks")
        /\ page.edges[e].syns # <<>>
        /\ LET p == IF shift THEN page ELSE deselectAllEdges(deselectAllNodes(page))
           IN UserTurn(IF Contains(page.selE, e) THEN deselectEdge(p, e) ELSE selectEdge(p, e))

(* SynapseCard.showCard, for the synapse displayed or another of its edge. *)
(* The label is hidden while the card is open, by deselecting the edge,    *)
(* selected or not.                                                        *)
ShowSynapse ==
    \E e \in page.adj :
        /\ Spend("clicks")
        /\ \E i \in DOMAIN page.edges[e].syns :
              UserTurn(deselectEdge([page EXCEPT !.edges[e].shown = i - 1], e))

SelectNeighbors ==
    /\ page.selN # <<>>
    /\ Spend("clicks")
    /\ UserTurn(selectNeighbors(page))

Selected == page.selN # <<>> \/ page.selE # <<>>

(* DEL and Ctrl+M take the nodes first, the menu the edges. *)
RemoveSelected ==
    /\ Selected
    /\ Spend("edits")
    /\ \/ UserTurn(Then(removeSelectedNodes(page), removeSelectedEdges))
       \/ UserTurn(Then(removeSelectedEdges(page), removeSelectedNodes))

DeleteSelected ==
    /\ Selected
    /\ Spend("edits")
    /\ UserTurn(deleteSelected(page))

HideSelected ==
    /\ Selected
    /\ Spend("edits")
    /\ \/ UserTurn(Then(hideSelectedNodes(page), hideSelectedEdges))
       \/ UserTurn(Then(hideSelectedEdges(page), hideSelectedNodes))

(* Topic.createTopicLocally: the topic is drawn under its cid and saved. *)
CreateTopic ==
    \E t \in Topics \cap Own :
        /\ Fresh(t) /\ page.made[t] = 0
        /\ Spend("makes")
        /\ UserTurn(Then(Then(Then(AddTopic([page EXCEPT !.new = @ \cup {t}], t),
                                   LAMBDA q : AddDraft(q, t)),
                              LAMBDA q : renderTopic(q, t)),
                         LAMBDA q : [q EXCEPT !.out = @ \cup {<<"create", t>>}]))

(* Synapse.createSynapseLocally between two topics the page shows.  Saving *)
(* fails when one of them has no id yet.                                   *)
CreateSynapse ==
    \E s \in Synapses \cap Own :
        LET a == Ends[s][1]
            b == Ends[s][2]
        IN /\ Fresh(s) /\ page.edge[s] = None
           /\ {a, b} \subseteq page.topics
           /\ page.node[a] # None /\ page.node[b] # None
           /\ Spend("makes")
           /\ UserTurn(Then(Then(Then(AddSynapse([page EXCEPT !.new = @ \cup {s}], s),
                                      LAMBDA q : AddDraft(q, s)),
                                 LAMBDA q : renderSynapse(q, s, q.node[a], q.node[b])),
                            LAMBDA q : IF {a, b} \cap q.new # {} THEN q
                                       ELSE [q EXCEPT !.out = @ \cup {<<"create", s>>}]))

ToggleMetacode ==
    \E m \in page.filters :
        /\ Spend("filters")
        /\ UserTurn(toggleMetacode(page, m))

-----------------------------------------------------------------------------
Environment == Commit \/ OtherAdds \/ OtherRemoves \/ OtherDestroys
Answers == ServeUnmap \/ ServeDestroy \/ ServeCreate \/ ServeMap \/ AnswerMap
           \/ AnswerModel \/ AnswerMapping \/ AnswerMapper
Page == Added \/ Removed \/ Poll \/ FadeEnds
User == ClickNode \/ ClickEdge \/ ShowSynapse \/ SelectNeighbors \/ RemoveSelected \/ DeleteSelected
        \/ HideSelected \/ CreateTopic \/ CreateSynapse \/ ToggleMetacode

Next == Environment \/ Answers \/ Page \/ User

(* Requests are answered and the page's timers fire; nobody has to edit    *)
(* anything.  The two kinds of steps are told by what they do to loads.    *)
AnswerArrives ==
    \E l \in loads : \E what \in l.wait, ok, kept \in BOOLEAN :
        loads' = (loads \ {l}) \cup {Heard(l, what, ok, kept)}
IntervalEnds == \E l \in loads : Ready(l) /\ loads' = loads \ {l}

Fairness == WF_loads(AnswerArrives) /\ WF_loads(IntervalEnds)

Spec == Init /\ [][Next]_vars /\ Fairness
-----------------------------------------------------------------------------
NodeObject == Topics \X BOOLEAN \X Nat
Edge == [ends : SUBSET (Topics \X BOOLEAN), syns : Seq(Synapses),
         maps : Seq(Synapses \cup {None}), shown : Nat]

(* The variables keep their types: no list holds undefined elements but    *)
(* the mappings of edges, and no exception is pending between two turns.   *)
TypeOK ==
    /\ page.topics \subseteq Topics /\ page.syns \subseteq Synapses
    /\ page.maps \subseteq Range(table) /\ page.drafts \subseteq Items
    /\ page.new \subseteq Items /\ page.mappers \subseteq {Me, Other}
    /\ page.graph \subseteq NodeObject /\ page.marked \subseteq NodeObject
    /\ page.dim \subseteq NodeObject
    /\ \A t \in Topics : page.node[t] \in NodeObject \cup {None}
    /\ \A s \in Synapses : page.edge[s] \in DOMAIN page.edges \cup {None}
    /\ page.edges \in Seq(Edge) /\ page.adj \subseteq DOMAIN page.edges
    /\ page.selN \in Seq(NodeObject) /\ Range(page.selE) \subseteq DOMAIN page.edges
    /\ page.filters \subseteq Metacodes /\ page.visible \in Seq(Metacodes)
    /\ ~page.threw
    /\ table \in Seq([id : Nat, of : Items, by : {Me, Other}])
    /\ \A k \in DOMAIN stream : stream[k][1] \in {"added", "removed"} /\ stream[k][2] \in Items
    /\ live \subseteq DOMAIN table /\ held \subseteq DOMAIN table
    /\ born \subseteq Items /\ wronged \subseteq Items
    /\ \A l \in loads : l.wait \cup l.got \subseteq {"model", "mapping", "mapper"}

(* What Control will remove or delete as the selection is drawn as         *)
(* selected, and nothing is in the list twice; and, as long as no node     *)
(* that was not selected has been deselected, all that is drawn as         *)
(* selected is in the list.                                                *)
SelectionIsDrawn ==
    /\ Range(page.selN) \subseteq page.marked
    /\ Cardinality(Range(page.selN)) = Len(page.selN)
    /\ Cardinality(Range(page.selE)) = Len(page.selE)
    /\ ~page.slipped => page.marked \subseteq Range(page.selN)

(* The two lists of an edge, spliced by the same index, go together, and   *)
(* an edge lists the synapses that are drawn as it.                        *)
EdgesMatchSynapses ==
    \A e \in DOMAIN page.edges :
        LET syns == page.edges[e].syns
            maps == page.edges[e].maps
        IN /\ Len(maps) = Len(syns)
           /\ \A i \in DOMAIN syns : maps[i] = syns[i] \/ syns[i] \in wronged
           /\ \A s \in page.syns : page.edge[s] = e => Contains(syns, s)
           /\ page.edges[e].shown = 0 \/ page.edges[e].shown < Len(syns)

Quiet == /\ stream = <<>> /\ held = {} /\ page.timers = <<>> /\ page.out = {}
         /\ \A l \in loads : l.lost /\ l.wait = {}

(* Once everything under way has arrived, the page shows a topic or        *)
(* synapse exactly when it is on the map, unless a handler threw on it, a  *)
(* request for it failed, came too early or too late, a broadcast overtook *)
(* its loading, its drawing went with that of a topic, or the user took it *)
(* off between the broadcast and the answer by which it is mapped.         *)
QuietPageShowsTheMap ==
    Quiet => \A x \in Items \ wronged : Shown(page, x) <=> OnMap(x)

(* A topic is drawn once: the broadcast of a topic the page has made is    *)
(* not taken for somebody else's.                                          *)
DrawnOnce ==
    \A n, m \in page.graph :
        n[1] = m[1] /\ n # m => Fading(n[1]) \/ n[1] \in wronged

(* The filter box offers the metacodes of the page's topics, and the       *)
(* visible ones are among them, each once.                                 *)
FilterIsOffered ==
    /\ page.filters = {Metacode[t] : t \in page.topics}
    /\ Range(page.visible) \subseteq page.filters
    /\ Cardinality(Range(page.visible)) = Len(page.visible)

(* Every topic and synapse the page waits for is drawn or given up, but    *)
(* for those that one of their own callbacks failed by an exception, or    *)
(* the request for their mapper.                                           *)
LoadsEnd == loads # {} ~> \A l \in loads : l.lost
=============================================================================
