---------------------------- MODULE Cable_proofs ----------------------------
(***************************************************************************)
(* Theorems about Cable, for any number of topics and synapses, rows,      *)
(* loads and broadcasts.                                                   *)
(*                                                                         *)
(* Inv says that the page is sound (Sound in MapPage_proofs), that no      *)
(* exception is pending between two turns, and what the types are of what  *)
(* is not on the page; it is inductive, and TypeOK, SelectionIsDrawn and   *)
(* FilterIsOffered follow from it.                                         *)
(*                                                                         *)
(* Links says that what the page holds, what it draws and what it waits    *)
(* for go together (Linked in MapPage_proofs), but for the wronged items.  *)
(* To be inductive it needs to know what the world outside may still send: *)
(* loads and broadcasts name rows of the table, an item is loaded once     *)
(* unless it is wronged, and what the page has made and not saved is in no *)
(* row.  EdgesMatchSynapses and DrawnOnce follow from Inv and Links.       *)
(*                                                                         *)
(* For each step there is one lemma for Inv (...Keep, ...Keeps) and one    *)
(* for Links (...Links); the turns of the user are carried through both by *)
(* one lemma each.                                                         *)
(***************************************************************************)
EXTENDS MapPage_proofs

-----------------------------------------------------------------------------
\* The inductive invariant: a sound page, between two turns, over a table that
\* only grows.

Rows == [id : Nat, of : Items, by : {Me, Other}]
Removals == {"removed"} \X Items
Broadcasts == ({"added"} \X Items \X Nat) \cup Removals
Wanted == {"model", "mapping", "mapper"}
Loads == [of : Items, row : Nat, cancel : BOOLEAN, lost : BOOLEAN,
          wait : SUBSET Wanted, got : SUBSET Wanted]

MapSound ==
    /\ table \in Seq(Rows)
    /\ live \subseteq DOMAIN table /\ held \subseteq DOMAIN table
    /\ stream \in Seq(Broadcasts)

Inv ==
    /\ Sound(page) /\ ~page.threw
    /\ MapSound
    /\ born \subseteq Items /\ wronged \subseteq Items
    /\ loads \subseteq Loads

\* What a load or a broadcast names is a row of the table.
Names(i, x) == i \in DOMAIN table /\ table[i].of = x
LoadsNameRows == \A l \in loads : Names(l.row, l.of)
BroadcastsNameRows == \A b \in In(stream) : b[1] = "added" => Names(b[3], b[2])

\* Two loads of one item are noted when the second one starts.
LoadedOnce == \A l, m \in loads : l.of = m.of => l = m \/ l.of \in wronged

\* What the page has made and not saved is nobody else's.
Private(x) == x \in Own /\ Fresh(x)
NewIsFresh == \A x \in page.new : Private(x)

\* What is drawn, what is listed and what is loaded go together.
Links ==
    /\ Linked(page, wronged, loads)
    /\ LoadsNameRows /\ BroadcastsNameRows /\ LoadedOnce /\ NewIsFresh

\* What a step leaves true of the rows: none is changed, what is announced is there,
\* and nothing is made that the page has made and not saved.
TableGrows == DOMAIN table \subseteq DOMAIN table' /\ \A i \in DOMAIN table : table'[i] = table[i]
StreamFollows ==
    \A b \in In(stream') : b[1] = "added" =>
        b \in In(stream) \/ (b[3] \in DOMAIN table' /\ table'[b[3]].of = b[2])
StillFresh ==
    \A x \in page'.new : /\ x \in page.new /\ x \notin born'
                         /\ \A i \in DOMAIN table' : table'[i].of # x

\* What the page is made of does not matter to the rows, but for its mappings.
LEMMA Later ==
    ASSUME NEW p, Sound(p), DOMAIN page' = Fields,
           SameGraph(p, page'), SameSelection(p, page'), SameFilter(p, page'),
           page'.topics = p.topics, DataSound(page)'
    PROVE  Sound(page)'
  <1>1. GraphSound(page)'
    BY DEF Sound, SameGraph, GraphSound, NodesAt
  <1>2. SelectionSound(page)'
    BY DEF Sound, SameSelection, SameGraph, SelectionSound
  <1>3. FilterSound(page)'
    BY DEF Sound, SameFilter, FilterSound
  <1> QED
    BY <1>1, <1>2, <1>3 DEF Sound

\* The page stays, or sends a request, while rows are added.
LEMMA PageStays ==
    ASSUME Sound(page), ~page.threw, NEW o,
           page' = page \/ page' = [page EXCEPT !.out = o],
           Range(table) \subseteq Range(table')
    PROVE  Sound(page)' /\ ~page'.threw
  <1>1. DOMAIN page = Fields /\ DataSound(page)
    BY DEF Sound
  <1>2. /\ DOMAIN page' = Fields /\ SameData(page, page') /\ SameGraph(page, page')
        /\ SameSelection(page, page') /\ SameFilter(page, page') /\ page'.threw = page.threw
    BY <1>1 DEF Fields, SameData, SameGraph, SameSelection, SameFilter
  <1>3. DataSound(page)'
    BY <1>1, <1>2 DEF SameData, DataSound
  <1>4. page'.topics = page.topics
    BY <1>2 DEF SameData
  <1>5. Sound(page)'
    BY <1>2, <1>3, <1>4, Later
  <1> QED
    BY <1>2, <1>5

\* A turn ends, with or without an exception.
LEMMA TurnEnds ==
    ASSUME NEW p, Sound(p), Turn(p), table' = table
    PROVE  Sound(page)' /\ ~page'.threw
  <1>1. DOMAIN p = Fields /\ DataSound(p)
    BY DEF Sound
  <1>2. page' = [p EXCEPT !.threw = FALSE]
    BY DEF Turn
  <1>3. /\ DOMAIN page' = Fields /\ SameData(p, page') /\ SameGraph(p, page')
        /\ SameSelection(p, page') /\ SameFilter(p, page') /\ page'.threw = FALSE
    BY <1>1, <1>2 DEF Fields, SameData, SameGraph, SameSelection, SameFilter
  <1>4. DataSound(page)'
    BY <1>1, <1>3 DEF SameData, DataSound
  <1>5. page'.topics = p.topics
    BY <1>3 DEF SameData
  <1>6. Sound(page)'
    BY <1>3, <1>4, <1>5, Later
  <1> QED
    BY <1>3, <1>6

\* The links of the page at the end of a turn.
LEMMA TurnLinked ==
    ASSUME NEW p, Sound(p), Turn(p), NEW W, W \subseteq wronged', NEW L, loads' \subseteq L,
           Linked(p, W, L)
    PROVE  Linked(page, wronged, loads)' /\ page'.new = p.new
  <1>1. DOMAIN p = Fields /\ page' = [p EXCEPT !.threw = FALSE]
    BY DEF Sound, Turn
  <1>2. Kept(p, page')
    BY <1>1, CalmedKept
  <1>3. Linked(page', wronged', loads')
    BY <1>2, KeptLinked
  <1>4. page'.new = p.new
    BY <1>2 DEF Kept, KeptBut
  <1> QED
    BY <1>3, <1>4

\* What the turns of the user must see to.
Carried(p) ==
    Links => /\ Linked(p, IF p.threw THEN wronged \cup Mine(page) ELSE wronged, loads)
             /\ \A x \in p.new : Private(x)

\* A step that only changes the page is carried when the page stays linked.
LEMMA LinkedCarried ==
    ASSUME NEW p, Sound(p), Links => Linked(p, wronged, loads) /\ \A x \in p.new : Private(x)
    PROVE  Carried(p)
  <1> SUFFICES ASSUME Links PROVE Linked(p, wronged \cup Mine(page), loads)
    BY DEF Carried
  <1>1. wronged \subseteq wronged \cup Mine(page) /\ loads \subseteq loads
    OBVIOUS
  <1> QED
    BY <1>1, MoreNoted

\* ... in particular when it keeps everything on the page,
LEMMA KeptCarried ==
    ASSUME Sound(page), NEW p, Sound(p), Kept(page, p)
    PROVE  Carried(p)
  <1> SUFFICES ASSUME Links PROVE Linked(p, wronged, loads) /\ \A x \in p.new : Private(x)
    BY LinkedCarried
  <1>1. Linked(p, wronged, loads)
    BY KeptLinked DEF Links
  <1> QED
    BY <1>1 DEF Links, NewIsFresh, Kept, KeptBut

\* ... and when it is a turn of one of MapPage's functions.
LEMMA TurnedCarried ==
    ASSUME ~page.threw, NEW p, Turned(page, p)
    PROVE  Carried(p)
  <1> SUFFICES ASSUME Links
               PROVE  /\ Linked(p, IF p.threw THEN wronged \cup Mine(page) ELSE wronged, loads)
                      /\ \A x \in p.new : Private(x)
    BY DEF Carried
  <1>1. Slips(page, p, wronged, loads)
    BY DEF Turned, Links
  <1> QED
    BY <1>1 DEF Slips, Links, NewIsFresh

\* Whatever makes a sound page of the page is a turn that keeps the invariant.
LEMMA UserTurnEnds ==
    ASSUME Inv, NEW p, Sound(p), UserTurn(p), Carried(p)
    PROVE  Inv' /\ (Links => Links')
  <1>1. /\ Turn(p)
        /\ wronged' = wronged \cup (IF p.threw THEN page.topics \cup page.syns ELSE {})
                              \cup {s \in p.syns \cap p.new : <<"create", s>> \notin p.out}
                              \cup {x \in page.drafts \ p.drafts : Announced(x)}
        /\ UNCHANGED <<table, live, held, born, stream, loads>>
    BY DEF UserTurn
  <1>2. Sound(page)' /\ ~page'.threw
    BY <1>1, TurnEnds
  <1>3. /\ page.topics \cup page.syns \subseteq Items /\ p.syns \subseteq Items
        /\ page.drafts \subseteq Items
    BY DEF Inv, Sound, DataSound, Items
  <1>4. wronged' \subseteq Items
    <2>1. wronged \subseteq Items
      BY DEF Inv
    <2> QED
      BY <1>1, <1>3, <2>1
  <1>5. MapSound'
    BY <1>1 DEF Inv, MapSound
  <1>6. Inv'
    BY <1>1, <1>2, <1>4, <1>5 DEF Inv
  <1>7. ASSUME Links PROVE Links'
    <2> DEFINE W == IF p.threw THEN wronged \cup Mine(page) ELSE wronged
    <2>1. Linked(p, W, loads) /\ \A x \in p.new : Private(x)
      BY <1>7 DEF Carried
    <2>2. W \subseteq wronged'
      BY <1>1 DEF Mine
    <2> HIDE DEF W
    <2>3. loads' \subseteq loads
      BY <1>1
    <2>4. Linked(page, wronged, loads)' /\ page'.new = p.new
      BY <1>1, <2>1, <2>2, <2>3, TurnLinked
    <2>5. NewIsFresh'
      BY <1>1, <2>1, <2>4 DEF NewIsFresh, Private, Fresh
    <2>6. LoadsNameRows' /\ BroadcastsNameRows'
      BY <1>1, <1>7 DEF Links, LoadsNameRows, BroadcastsNameRows, Names, In
    <2>7. LoadedOnce'
      BY <1>1, <1>7 DEF Links, LoadedOnce
    <2> QED
      BY <2>4, <2>5, <2>6, <2>7 DEF Links
  <1> QED
    BY <1>6, <1>7

\* The rows.
LEMMA OwnerType ==
    ASSUME NEW x
    PROVE  Owner(x) \in {Me, Other}
  BY DEF Owner

\* A row is inserted, and broadcast.
LEMMA InsertKeeps ==
    ASSUME MapSound, NEW x \in Items, NEW u \in {Me, Other}, NEW open \in BOOLEAN,
           Insert(x, u, open)
    PROVE  /\ MapSound'
           /\ Range(table) \subseteq Range(table')
           /\ Row(Len(table) + 1, x, u) \in Range(table')
           /\ TableGrows /\ StreamFollows
           /\ \A y : y # x /\ (\A i \in DOMAIN table : table[i].of # y) =>
                     \A i \in DOMAIN table' : table'[i].of # y
  <1> DEFINE id == Len(table) + 1
             row == Row(id, x, u)
  <1>1. /\ table' = Append(table, row) /\ live' = live \cup {id}
        /\ held' = IF open THEN held \cup {id} ELSE held
        /\ stream' = Append(stream, <<"added", x, id>>)
    BY DEF Insert
  <1>2. table \in Seq(Rows) /\ stream \in Seq(Broadcasts)
    BY DEF MapSound
  <1>3. id \in Nat
    BY <1>2, LenProperties
  <1>4. row \in Rows
    BY <1>3 DEF Row, Rows
  <1>5. /\ table' \in Seq(Rows) /\ Len(table') = id /\ DOMAIN table' = 1..id
        /\ DOMAIN table = 1..Len(table)
        /\ \A i \in 1..Len(table) : table'[i] = table[i]
        /\ table'[id] = row
    BY <1>1, <1>2, <1>4, AppendProperties, LenProperties
  <1>6. DOMAIN table \subseteq DOMAIN table' /\ id \in DOMAIN table'
    BY <1>2, <1>3, <1>5, LenProperties
  <1>7. <<"added", x, id>> \in Broadcasts
    BY <1>3 DEF Broadcasts
  <1>8. stream' \in Seq(Broadcasts)
    BY <1>1, <1>2, <1>7, AppendProperties
  <1> HIDE DEF id, row
  <1>9. live' \subseteq DOMAIN table' /\ held' \subseteq DOMAIN table'
    BY <1>1, <1>6 DEF MapSound
  <1>10. Range(table) \subseteq Range(table') /\ row \in Range(table')
    BY <1>5, <1>6 DEF Range
  <1>11. TableGrows
    BY <1>5, <1>6 DEF TableGrows
  <1>12. row.of = x
    BY DEF row, Row
  <1>13. StreamFollows
    <2> DEFINE b == <<"added", x, id>>
    <2>1. stream' = Append(stream, b) /\ b \in Broadcasts
      BY <1>1, <1>7
    <2>2. b[2] = x /\ b[3] = id
      OBVIOUS
    <2> HIDE DEF b
    <2>3. In(stream') = In(stream) \cup {b}
      BY <1>2, <2>1, AppendOnce
    <2> QED
      BY <1>5, <1>6, <1>12, <2>2, <2>3 DEF StreamFollows
  <1>14. ASSUME NEW y, y # x, \A i \in DOMAIN table : table[i].of # y
         PROVE  \A i \in DOMAIN table' : table'[i].of # y
    <2>1. \A i \in 1..id : i \in 1..Len(table) \/ i = id
      BY <1>2, LenProperties DEF id
    <2> QED
      BY <1>5, <1>12, <1>14, <2>1
  <1> QED
    BY <1>5, <1>8, <1>9, <1>10, <1>11, <1>13, <1>14 DEF MapSound, id, row

\* A row is deleted, and its removal broadcast.
LEMMA DeleteKeeps ==
    ASSUME MapSound, NEW i \in live, Delete(i), table' = table, held' = held
    PROVE  MapSound' /\ StreamFollows
  <1>1. i \in DOMAIN table /\ table \in Seq(Rows) /\ stream \in Seq(Broadcasts)
    BY DEF MapSound
  <1>2. table[i] \in Rows
    BY <1>1, LenProperties, ElementOfSeq
  <1>3. <<"removed", table[i].of>> \in Broadcasts
    BY <1>2 DEF Rows, Broadcasts, Removals
  <1>4. stream' \in Seq(Broadcasts)
    BY <1>1, <1>3, AppendProperties DEF Delete
  <1>5. StreamFollows
    <2> DEFINE b == <<"removed", table[i].of>>
    <2>1. stream' = Append(stream, b)
      BY DEF Delete
    <2>2. b[1] = "removed"
      OBVIOUS
    <2>3. b \in Broadcasts
      BY <1>3
    <2> HIDE DEF b
    <2>4. In(stream') = In(stream) \cup {b}
      BY <1>1, <2>1, <2>3, AppendOnce
    <2> QED
      BY <2>2, <2>4 DEF StreamFollows
  <1> QED
    BY <1>1, <1>4, <1>5 DEF MapSound, Delete

\* An item is destroyed, with its synapses and all their rows.
LEMMA DestroyKeeps ==
    ASSUME MapSound, born \subseteq Items, NEW x \in Items, Destroy(x),
           table' = table, held' = held
    PROVE  MapSound' /\ born' \subseteq born /\ born' \subseteq Items /\ StreamFollows
  <1> DEFINE rows(y) == SetToSeq({i \in live : table[i].of = y})
             doomed == SetToSeq(Doomed(x))
             lists == [k \in 1..Cardinality(Doomed(x)) |-> rows(doomed[k])]
             all == FlattenSeq(lists) \o rows(x)
             sent == [k \in DOMAIN all |-> <<"removed", table[all[k]].of>>]
  <1>1. /\ born' = born \ (Doomed(x) \cup {x}) /\ live' = live \ Range(all)
        /\ stream' = stream \o sent
    BY DEF Destroy
  <1>2. /\ table \in Seq(Rows) /\ stream \in Seq(Broadcasts)
        /\ live \subseteq 1..Len(table) /\ Len(table) \in Nat
    BY LenProperties DEF MapSound
  <1>3. IsFiniteSet(live)
    <2>1. IsFiniteSet(1..Len(table))
      BY <1>2, FirstOnesFinite
    <2> QED
      BY <1>2, <2>1, FS_Subset
  <1>4. \A y : rows(y) \in Seq(live)
    <2> SUFFICES ASSUME NEW y PROVE rows(y) \in Seq(live)
      OBVIOUS
    <2> DEFINE S == {i \in live : table[i].of = y}
    <2>1. S \subseteq live
      OBVIOUS
    <2>2. IsFiniteSet(S)
      BY <1>3, <2>1, FS_Subset
    <2> HIDE DEF S
    <2>3. SetToSeq(S) \in Seq(S)
      BY <2>2, SequenceOf
    <2>4. SetToSeq(S) \in Seq(live)
      BY <2>1, <2>3, SeqMonotonic
    <2> QED
      BY <2>4 DEF S
  <1>5. Cardinality(Doomed(x)) \in Nat
    <2>1. Doomed(x) \subseteq Synapses
      BY DEF Doomed
    <2>2. IsFiniteSet(Doomed(x))
      BY <2>1, PageAssumption, FS_Subset
    <2> QED
      BY <2>2, FS_CardinalityType
  <1> HIDE DEF doomed
  <1>6. lists \in Seq(Seq(live))
    <2> DEFINE n == Cardinality(Doomed(x))
    <2>1. n \in Nat /\ \A k \in 1..n : rows(doomed[k]) \in Seq(live)
      BY <1>4, <1>5
    <2> HIDE DEF n, rows
    <2>2. [k \in 1..n |-> rows(doomed[k])] \in Seq(Seq(live))
      BY <2>1, IsASeq
    <2> QED
      BY <2>2 DEF n, rows
  <1>7. rows(x) \in Seq(live)
    BY <1>4
  <1> HIDE DEF lists, rows
  <1>8. all \in Seq(live)
    BY <1>6, <1>7, FlattenType, ConcatProperties
  <1> HIDE DEF all
  <1>9. sent \in Seq(Removals)
    <2>1. DOMAIN all = 1..Len(all) /\ Len(all) \in Nat
      BY <1>8, LenProperties
    <2>2. \A k \in 1..Len(all) : <<"removed", table[all[k]].of>> \in Removals
      <3> SUFFICES ASSUME NEW k \in 1..Len(all)
                   PROVE  <<"removed", table[all[k]].of>> \in Removals
        OBVIOUS
      <3>1. all[k] \in 1..Len(table)
        BY <1>2, <1>8, ElementOfSeq
      <3>2. table[all[k]] \in Rows
        BY <1>2, <3>1, ElementOfSeq
      <3> QED
        BY <3>2 DEF Rows, Removals
    <2>3. [k \in 1..Len(all) |-> <<"removed", table[all[k]].of>>] \in Seq(Removals)
      <3> DEFINE g(k) == <<"removed", table[all[k]].of>>
                 n == Len(all)
      <3>1. n \in Nat /\ \A k \in 1..n : g(k) \in Removals
        BY <2>1, <2>2
      <3> HIDE DEF g, n
      <3>2. [k \in 1..n |-> g(k)] \in Seq(Removals)
        BY <3>1, IsASeq
      <3> QED
        BY <3>2 DEF g, n
    <2> QED
      BY <2>1, <2>3
  <1> HIDE DEF sent
  <1>10. stream' \in Seq(Broadcasts) /\ StreamFollows
    <2>1. Removals \subseteq Broadcasts
      BY DEF Removals, Broadcasts
    <2>2. sent \in Seq(Broadcasts)
      BY <1>9, <2>1, SeqMonotonic
    <2>3. stream' \in Seq(Broadcasts) /\ In(stream') = In(stream) \cup In(sent)
      BY <1>1, <1>2, <2>2, ConcatOnce
    <2>4. In(sent) \subseteq Removals
      BY <1>9, InIsRange
    <2> QED
      BY <2>3, <2>4 DEF Removals, StreamFollows
  <1>11. live' \subseteq DOMAIN table' /\ held' \subseteq DOMAIN table'
    BY <1>1 DEF MapSound
  <1>12. born' \subseteq Items /\ born' \subseteq born
    BY <1>1
  <1> QED
    BY <1>2, <1>10, <1>11, <1>12 DEF MapSound

-----------------------------------------------------------------------------
\* What the others do, and the requests of the page.

\* Only the rows change.
LEMMA RowsChange ==
    ASSUME Inv, MapSound', born' \subseteq Items, Range(table) \subseteq Range(table'),
           UNCHANGED <<page, loads, wronged>>
    PROVE  Inv'
  <1>1. Sound(page)' /\ ~page'.threw
    BY PageStays DEF Inv
  <1> QED
    BY <1>1 DEF Inv

\* What the others do keeps the invariant.
LEMMA EnvironmentKeeps ==
    ASSUME Inv, Environment
    PROVE  Inv'
  <1>1. CASE Commit
    <2>1. MapSound' /\ born' \subseteq Items /\ Range(table) \subseteq Range(table')
      BY <1>1 DEF Commit, Inv, MapSound
    <2> QED
      BY <1>1, <2>1, RowsChange DEF Commit
  <1>2. CASE OtherAdds
    <2>1. PICK x \in Items : /\ Insert(x, Other, TRUE)
                             /\ born' = born \cup {x}
                             /\ UNCHANGED <<page, loads, wronged>>
      BY <1>2 DEF OtherAdds
    <2>2. MapSound' /\ Range(table) \subseteq Range(table')
      BY <2>1, InsertKeeps DEF Inv
    <2>3. born' \subseteq Items
      BY <2>1 DEF Inv
    <2> QED
      BY <2>1, <2>2, <2>3, RowsChange
  <1>3. CASE OtherRemoves
    <2>1. PICK i \in live \ held : /\ Delete(i)
                                   /\ UNCHANGED <<page, table, held, born, loads, wronged>>
      BY <1>3 DEF OtherRemoves
    <2>2. MapSound'
      BY <2>1, DeleteKeeps DEF Inv
    <2>3. born' \subseteq Items
      BY <2>1 DEF Inv
    <2> QED
      BY <2>1, <2>2, <2>3, RowsChange
  <1>4. CASE OtherDestroys
    <2>1. PICK x \in born \ Own : /\ Destroy(x)
                                  /\ UNCHANGED <<page, table, held, loads, wronged>>
      BY <1>4 DEF OtherDestroys
    <2>2. x \in Items
      BY DEF Inv
    <2>3. MapSound' /\ born' \subseteq Items
      BY <2>1, <2>2, DestroyKeeps DEF Inv
    <2> QED
      BY <2>1, <2>3, RowsChange
  <1> QED
    BY <1>1, <1>2, <1>3, <1>4 DEF Environment

\* DELETE /mappings.
LEMMA ServeUnmapKeeps ==
    ASSUME Inv, ServeUnmap
    PROVE  Inv'
  <1>1. PICK i \in 1..Len(table) :
          /\ page' = [page EXCEPT !.out = @ \ {<<"unmap", i>>}]
          /\ IF i \in live THEN Delete(i) ELSE UNCHANGED <<live, stream>>
          /\ UNCHANGED <<table, held, born, loads, left, wronged>>
    BY DEF ServeUnmap
  <1>2. Sound(page)' /\ ~page'.threw
    <2>1. page' = [page EXCEPT !.out = page.out \ {<<"unmap", i>>}]
      BY <1>1
    <2> QED
      BY <1>1, <2>1, PageStays DEF Inv
  <1>3. MapSound'
    <2>1. CASE i \in live
      BY <1>1, <2>1, DeleteKeeps DEF Inv
    <2>2. CASE i \notin live
      BY <1>1, <2>2 DEF Inv, MapSound
    <2> QED
      BY <2>1, <2>2
  <1> QED
    BY <1>1, <1>2, <1>3 DEF Inv

\* DELETE /topics and /synapses.
LEMMA ServeDestroyKeeps ==
    ASSUME Inv, ServeDestroy
    PROVE  Inv'
  <1>1. PICK x \in Items :
          /\ page' = [page EXCEPT !.out = @ \ {<<"destroy", x>>}]
          /\ IF x \in born THEN Destroy(x) ELSE UNCHANGED <<born, live, stream>>
          /\ UNCHANGED <<table, held, loads, left, wronged>>
    BY DEF ServeDestroy
  <1>2. Sound(page)' /\ ~page'.threw
    <2>1. page' = [page EXCEPT !.out = page.out \ {<<"destroy", x>>}]
      BY <1>1
    <2> QED
      BY <1>1, <2>1, PageStays DEF Inv
  <1>3. MapSound' /\ born' \subseteq Items
    <2>1. CASE x \in born
      BY <1>1, <2>1, DestroyKeeps DEF Inv
    <2>2. CASE x \notin born
      BY <1>1, <2>2 DEF Inv, MapSound
    <2> QED
      BY <2>1, <2>2
  <1> QED
    BY <1>1, <1>2, <1>3 DEF Inv

\* POST /topics and /synapses.
LEMMA ServeCreateKeeps ==
    ASSUME Inv, ServeCreate
    PROVE  Inv'
  <1>1. PICK x \in Items :
          /\ born' = born \cup {x}
          /\ page' = [page EXCEPT !.out = (@ \ {<<"create", x>>}) \cup {<<"map", x>>},
                                  !.new = @ \ {x}]
          /\ UNCHANGED <<table, live, held, stream, loads, left, wronged>>
    BY Zenon DEF ServeCreate
  <1>2. DOMAIN page = Fields /\ DataSound(page) /\ Sound(page) /\ ~page.threw
    BY DEF Inv, Sound
  <1>3. /\ DOMAIN page' = Fields /\ SameGraph(page, page') /\ SameSelection(page, page')
        /\ SameFilter(page, page') /\ page'.threw = page.threw
        /\ page'.topics = page.topics /\ page'.syns = page.syns /\ page'.maps = page.maps
        /\ page'.drafts = page.drafts /\ page'.mappers = page.mappers
        /\ page'.new = page.new \ {x}
    BY <1>1, <1>2 DEF Fields, SameGraph, SameSelection, SameFilter
  <1>4. DataSound(page)'
    BY <1>1, <1>2, <1>3 DEF DataSound
  <1>5. Sound(page)'
    BY <1>2, <1>3, <1>4, Later
  <1>6. MapSound' /\ born' \subseteq Items
    BY <1>1 DEF Inv, MapSound
  <1> QED
    BY <1>1, <1>2, <1>3, <1>5, <1>6 DEF Inv

\* POST /mappings: a row, or none.
LEMMA ServeMapKeeps ==
    ASSUME Inv, ServeMap
    PROVE  Inv'
  <1>0. PICK x \in Items : \E o :
          /\ IF x \in born THEN Insert(x, Me, FALSE) ELSE UNCHANGED <<table, live, held, stream>>
          /\ page' = [page EXCEPT !.out = o]
          /\ wronged' = wronged \cup {y \in {x} : OnMap(y) \/ y \notin born}
          /\ UNCHANGED <<born, loads, left>>
    BY DEF ServeMap
  <1>1. PICK o :
          /\ IF x \in born THEN Insert(x, Me, FALSE) ELSE UNCHANGED <<table, live, held, stream>>
          /\ page' = [page EXCEPT !.out = o]
          /\ wronged' = wronged \cup {y \in {x} : OnMap(y) \/ y \notin born}
          /\ UNCHANGED <<born, loads, left>>
    BY <1>0
  <1>2. wronged' \subseteq Items /\ born' \subseteq Items /\ loads' \subseteq Loads
    BY <1>1 DEF Inv
  <1>3. MapSound' /\ Range(table) \subseteq Range(table')
    <2>1. CASE x \in born
      <3>1. Insert(x, Me, FALSE)
        BY <1>1, <2>1
      <3> QED
        BY <3>1, InsertKeeps DEF Inv
    <2>2. CASE x \notin born
      BY <1>1, <2>2 DEF Inv, MapSound
    <2> QED
      BY <2>1, <2>2
  <1>4. Sound(page)' /\ ~page'.threw
    BY <1>1, <1>3, PageStays DEF Inv
  <1> QED
    BY <1>2, <1>3, <1>4 DEF Inv

\* The mapping of an item the page still holds as a draft becomes a row of its own.
LEMMA AnswerMapKeeps ==
    ASSUME Inv, AnswerMap
    PROVE  Inv'
  <1>0. PICK i \in 1..Len(table) : \E o :
          /\ page' = IF table[i].of \in page.drafts
                     THEN [page EXCEPT !.out = o, !.drafts = @ \ {table[i].of},
                                       !.maps = @ \cup {table[i]}]
                     ELSE [page EXCEPT !.out = o]
          /\ UNCHANGED <<table, live, held, born, stream, loads, left, wronged>>
    BY DEF AnswerMap
  <1>1. PICK o :
          /\ page' = IF table[i].of \in page.drafts
                     THEN [page EXCEPT !.out = o, !.drafts = @ \ {table[i].of},
                                       !.maps = @ \cup {table[i]}]
                     ELSE [page EXCEPT !.out = o]
          /\ UNCHANGED <<table, live, held, born, stream, loads, left, wronged>>
    BY <1>0
  <1>2. Sound(page) /\ ~page.threw /\ DOMAIN page = Fields /\ DataSound(page)
    BY DEF Inv, Sound
  <1>3. table[i] \in Range(table)
    BY LenProperties DEF Inv, MapSound, Range
  <1>4. Sound(page)' /\ ~page'.threw
    <2>1. CASE table[i].of \notin page.drafts
      BY <1>1, <1>2, <2>1, PageStays
    <2>2. CASE table[i].of \in page.drafts
      <3> DEFINE x == table[i].of
                 m == table[i]
      <3>1. page' = [page EXCEPT !.out = o, !.drafts = @ \ {x}, !.maps = @ \cup {m}]
        BY <1>1, <2>2
      <3>2. m \in Range(table')
        BY <1>1, <1>3
      <3> HIDE DEF x, m
      <3>3. /\ DOMAIN page' = Fields /\ SameGraph(page, page') /\ SameSelection(page, page')
            /\ SameFilter(page, page') /\ page'.threw = page.threw
            /\ page'.topics = page.topics /\ page'.syns = page.syns /\ page'.new = page.new
            /\ page'.maps = page.maps \cup {m}
            /\ page'.drafts = page.drafts \ {x} /\ page'.mappers = page.mappers
        BY <1>2, <3>1 DEF Fields, SameGraph, SameSelection, SameFilter
      <3>4. DataSound(page)'
        BY <1>1, <1>2, <3>2, <3>3 DEF DataSound
      <3> QED
        BY <1>2, <3>3, <3>4, Later
    <2> QED
      BY <2>1, <2>2
  <1> QED
    BY <1>1, <1>4 DEF Inv, MapSound

-----------------------------------------------------------------------------
\* The broadcasts, the answers and the timers.

\* The next broadcast names an item.
LEMMA HeadOfStream ==
    ASSUME stream \in Seq(Broadcasts), stream # <<>>
    PROVE  /\ Tail(stream) \in Seq(Broadcasts)
           /\ Head(stream)[2] \in Items
           /\ Head(stream)[1] = "added" => Head(stream)[3] \in Nat
  <1>1. Head(stream) \in Broadcasts /\ Tail(stream) \in Seq(Broadcasts)
    BY HeadTailProperties
  <1> QED
    BY <1>1 DEF Broadcasts, Removals

\* What a broadcast makes the page load.
LEMMA LoadType ==
    ASSUME NEW x \in Items, NEW i \in Nat, NEW wait \in SUBSET Wanted, NEW got \in SUBSET Wanted
    PROVE  [of |-> x, row |-> i, cancel |-> FALSE, lost |-> FALSE,
            wait |-> wait, got |-> got] \in Loads
  BY DEF Loads

\* topicAdded and synapseAdded start loading.
LEMMA AddedKeeps ==
    ASSUME Inv, Added
    PROVE  Inv'
  <1> DEFINE x == Head(stream)[2]
  <1>1. /\ stream # <<>> /\ Head(stream)[1] = "added"
        /\ IF Known(page, x) THEN UNCHANGED loads
           ELSE loads' = loads \cup {Load(x, Head(stream)[3])}
        /\ wronged' = wronged \cup {y \in {x} : Overtakes(y, Head(stream)[3])}
        /\ stream' = Tail(stream)
        /\ UNCHANGED <<page, table, live, held, born, left>>
    BY DEF Added
  <1>2. stream' \in Seq(Broadcasts) /\ x \in Items /\ Head(stream)[3] \in Nat
    BY <1>1, HeadOfStream DEF Inv, MapSound
  <1>3. Load(x, Head(stream)[3]) \in Loads
    <2> DEFINE known == Owner(x) \in page.mappers
               wait == {"model", "mapping"} \cup (IF known THEN {} ELSE {"mapper"})
               got == IF known THEN {"mapper"} ELSE {}
    <2>1. wait \in SUBSET Wanted /\ got \in SUBSET Wanted
      BY DEF Wanted
    <2>2. Load(x, Head(stream)[3]) = [of |-> x, row |-> Head(stream)[3], cancel |-> FALSE,
                                      lost |-> FALSE, wait |-> wait, got |-> got]
      BY DEF Load
    <2> HIDE DEF wait, got
    <2> QED
      BY <1>2, <2>1, <2>2, LoadType
  <1> HIDE DEF x
  <1>4. loads' \subseteq Loads /\ wronged' \subseteq Items
    BY <1>1, <1>2, <1>3 DEF Inv
  <1>5. Sound(page)' /\ ~page'.threw
    BY <1>1, PageStays DEF Inv
  <1>6. MapSound'
    BY <1>1, <1>2 DEF Inv, MapSound
  <1> QED
    BY <1>1, <1>4, <1>5, <1>6 DEF Inv

\* topicRemoved and synapseRemoved, wherever they throw.
LEMMA RemovedKeeps ==
    ASSUME Inv, Removed
    PROVE  Inv'
  <1> DEFINE x == Head(stream)[2]
             p == IF IsTopic(x) THEN topicRemoved(page, x) ELSE synapseRemoved(page, x)
  <1>1. /\ stream # <<>>
        /\ Turn(p)
        /\ wronged' = wronged \cup {y \in {x} : Busy(y) \/ p.threw}
        /\ stream' = Tail(stream)
        /\ UNCHANGED <<table, live, held, born, loads, left>>
    BY DEF Removed
  <1>2. stream' \in Seq(Broadcasts) /\ x \in Items
    BY <1>1, HeadOfStream DEF Inv, MapSound
  <1>3. Sound(p)
    BY topicRemovedSound, synapseRemovedSound DEF Inv
  <1> HIDE DEF x, p
  <1>4. Sound(page)' /\ ~page'.threw
    BY <1>1, <1>3, TurnEnds
  <1>5. MapSound' /\ wronged' \subseteq Items /\ born' \subseteq Items /\ loads' \subseteq Loads
    BY <1>1, <1>2 DEF Inv, MapSound
  <1> QED
    BY <1>4, <1>5 DEF Inv

\* An answer is taken, wherever its callback throws.
LEMMA AnsweredKeeps ==
    ASSUME Inv, NEW l \in loads, NEW what \in Wanted, NEW p, Sound(p), NEW ok \in BOOLEAN,
           Answered(l, what, p, ok)
    PROVE  Inv'
  <1>1. /\ Turn(p)
        /\ loads' = (loads \ {l}) \cup {Heard(l, what, ok, ~p.threw)}
        /\ wronged' = IF p.threw \/ ~ok THEN wronged \cup {l.of} ELSE wronged
        /\ UNCHANGED <<table, live, held, born, stream, left>>
    BY DEF Answered
  <1>2. l \in Loads
    BY DEF Inv
  <1>3. Heard(l, what, ok, ~p.threw) \in Loads
    <2> DEFINE got == IF ok /\ ~p.threw THEN l.got \cup {what} ELSE l.got
               cancel == l.cancel \/ (~ok /\ what # "mapper")
               lost == l.lost \/ ~~p.threw \/ (~ok /\ what = "mapper")
    <2>1. got \in SUBSET Wanted /\ l.wait \ {what} \in SUBSET Wanted
      BY <1>2 DEF Loads
    <2>2. cancel \in BOOLEAN /\ lost \in BOOLEAN
      BY Zenon
    <2>3. /\ DOMAIN l = {"of", "row", "cancel", "lost", "wait", "got"}
          /\ Heard(l, what, ok, ~p.threw)
               = [l EXCEPT !.wait = l.wait \ {what}, !.cancel = cancel, !.lost = lost,
                           !.got = got]
      BY <1>2 DEF Heard, Loads
    <2> HIDE DEF got, cancel, lost
    <2> QED
      BY <1>2, <2>1, <2>2, <2>3 DEF Loads
  <1>4. loads' \subseteq Loads /\ wronged' \subseteq Items
    BY <1>1, <1>2, <1>3 DEF Inv, Loads
  <1>5. Sound(page)' /\ ~page'.threw
    BY <1>1, TurnEnds
  <1>6. MapSound' /\ born' \subseteq Items
    BY <1>1 DEF Inv, MapSound
  <1> QED
    BY <1>4, <1>5, <1>6 DEF Inv

\* The answers for the model, the mapping and the mapper.
LEMMA AnswersKeep ==
    ASSUME Inv, AnswerModel \/ AnswerMapping \/ AnswerMapper
    PROVE  Inv'
  <1>1. Sound(page)
    BY DEF Inv
  <1>2. CASE AnswerModel
    <2>1. PICK l \in loads :
            IF l.of \notin born THEN Answered(l, "model", page, FALSE)
            ELSE Answered(l, "model", IF IsTopic(l.of) THEN AddTopic(page, l.of)
                                      ELSE AddSynapse(page, l.of), TRUE)
      BY <1>2 DEF AnswerModel
    <2>2. l.of \in Items
      BY DEF Inv, Loads
    <2> DEFINE p == IF IsTopic(l.of) THEN AddTopic(page, l.of) ELSE AddSynapse(page, l.of)
    <2>3. Sound(p)
      BY <1>1, <2>2, AddTopicSound, AddSynapseSound DEF IsTopic, Items
    <2>4. "model" \in Wanted
      BY DEF Wanted
    <2>5. Answered(l, "model", page, FALSE) \/ Answered(l, "model", p, TRUE)
      BY <2>1
    <2> HIDE DEF p
    <2> QED
      BY <1>1, <2>3, <2>4, <2>5, AnsweredKeeps
  <1>3. CASE AnswerMapping
    <2>1. PICK l \in loads :
            IF l.row \notin live \ held THEN Answered(l, "mapping", page, FALSE)
            ELSE Answered(l, "mapping", AddMapping(page, table[l.row]), TRUE)
      BY <1>3 DEF AnswerMapping
    <2>2. "mapping" \in Wanted
      BY DEF Wanted
    <2>3. CASE l.row \notin live \ held
      BY <1>1, <2>1, <2>2, <2>3, AnsweredKeeps
    <2>4. CASE l.row \in live \ held
      <3>1. table[l.row] \in Range(table)
        BY <2>4 DEF Inv, MapSound, Range
      <3>2. Sound(AddMapping(page, table[l.row]))
        BY <1>1, <3>1, AddMappingSound
      <3> QED
        BY <2>1, <2>2, <2>4, <3>2, AnsweredKeeps
    <2> QED
      BY <2>3, <2>4
  <1>4. CASE AnswerMapper
    <2>1. PICK l \in loads :
            \/ Answered(l, "mapper", [page EXCEPT !.mappers = @ \cup {Owner(l.of)}], TRUE)
            \/ Answered(l, "mapper", page, FALSE)
      BY <1>4 DEF AnswerMapper
    <2> DEFINE m == page.mappers \cup {Owner(l.of)}
    <2>2. m \subseteq {Me, Other}
      BY <1>1, OwnerType DEF Sound, DataSound
    <2>3. \/ Answered(l, "mapper", [page EXCEPT !.mappers = m], TRUE)
          \/ Answered(l, "mapper", page, FALSE)
      BY <2>1
    <2> HIDE DEF m
    <2>4. Sound([page EXCEPT !.mappers = m])
      BY <1>1, <2>2, DataGrows
    <2>5. "mapper" \in Wanted
      BY DEF Wanted
    <2> QED
      BY <1>1, <2>3, <2>4, <2>5, AnsweredKeeps
  <1> QED
    BY <1>2, <1>3, <1>4

\* The interval finds what it waited for, and draws it.
LEMMA PollKeeps ==
    ASSUME Inv, Poll
    PROVE  Inv'
  <1>1. PICK l \in loads :
          /\ LET p == IF l.cancel THEN page ELSE Drawn(page, l.of)
             IN /\ Turn(p)
                /\ wronged' = IF p.threw \/ Fading(l.of) THEN wronged \cup {l.of} ELSE wronged
          /\ loads' = loads \ {l}
          /\ UNCHANGED <<table, live, held, born, stream, left>>
    BY DEF Poll
  <1>2. l.of \in Items
    BY DEF Inv, Loads
  <1> DEFINE p == IF l.cancel THEN page ELSE Drawn(page, l.of)
  <1>3. Turn(p)
    BY <1>1
  <1>4. Sound(p)
    BY <1>2, DrawnSound DEF Inv
  <1> HIDE DEF p
  <1>5. Sound(page)' /\ ~page'.threw
    BY <1>1, <1>3, <1>4, TurnEnds
  <1>6. wronged' \subseteq Items
    BY <1>1, <1>2 DEF Inv
  <1>7. MapSound' /\ born' \subseteq Items /\ loads' \subseteq Loads
    BY <1>1 DEF Inv, MapSound
  <1> QED
    BY <1>5, <1>6, <1>7 DEF Inv

\* A timer of hideNode or hideEdge ends.
LEMMA FadeEndsKeeps ==
    ASSUME Inv, FadeEnds
    PROVE  Inv'
  <1> DEFINE p == Elapse(page)
  <1>1. /\ page.timers # <<>>
        /\ page' = p
        /\ wronged' = wronged \cup
             {x \in page.topics \cup page.syns : Shown(page, x) /\ ~Shown(page', x)}
        /\ UNCHANGED <<table, live, held, born, stream, loads, left>>
    BY DEF FadeEnds
  <1>2. Sound(p) /\ p.threw = page.threw
    <2>1. Sound(p)
      BY <1>1, ElapseSound DEF Inv
    <2>2. DOMAIN page = Fields
      BY DEF Inv, Sound
    <2>3. p.threw = page.threw
      BY <2>2 DEF Elapse, removeNode, removeAdjacence, Fields
    <2> QED
      BY <2>1, <2>3
  <1> HIDE DEF p
  <1>3. DOMAIN p = Fields /\ DataSound(p) /\ ~p.threw
    BY <1>2 DEF Sound, Inv
  <1>4. /\ DOMAIN page' = Fields /\ SameGraph(p, page') /\ SameSelection(p, page')
        /\ SameFilter(p, page') /\ page'.topics = p.topics
    BY <1>1, <1>3 DEF SameGraph, SameSelection, SameFilter
  <1>5. DataSound(page)'
    BY <1>1, <1>3 DEF DataSound
  <1>6. Sound(page)'
    BY <1>2, <1>4, <1>5, Later
  <1>7. wronged' \subseteq Items
    <2>1. page.topics \cup page.syns \subseteq Items /\ wronged \subseteq Items
      BY DEF Inv, Sound, DataSound, Items
    <2> QED
      BY <1>1, <2>1
  <1>8. MapSound' /\ born' \subseteq Items /\ loads' \subseteq Loads
    BY <1>1 DEF Inv, MapSound
  <1> QED
    BY <1>1, <1>3, <1>6, <1>7, <1>8 DEF Inv

\* What the server answers and what the page does by itself.
LEMMA ServingKeeps ==
    ASSUME Inv, Answers \/ Page
    PROVE  Inv'
  <1>1. CASE ServeUnmap \/ ServeDestroy \/ ServeCreate \/ ServeMap \/ AnswerMap
    BY <1>1, ServeUnmapKeeps, ServeDestroyKeeps, ServeCreateKeeps, ServeMapKeeps, AnswerMapKeeps
  <1>2. CASE AnswerModel \/ AnswerMapping \/ AnswerMapper
    BY <1>2, AnswersKeep
  <1>3. CASE Page
    BY <1>3, AddedKeeps, RemovedKeeps, PollKeeps, FadeEndsKeeps DEF Page
  <1> QED
    BY <1>1, <1>2, <1>3 DEF Answers

-----------------------------------------------------------------------------
\* What is drawn, listed and loaded still goes together: the rows, and the requests.

\* Nothing is on its way for what the page has not made yet.
LEMMA PrivateNotLoaded ==
    ASSUME Links, NEW x, Private(x)
    PROVE  \A l \in loads : l.of # x
  BY DEF Links, LoadsNameRows, Names, Private, Fresh

\* The loads stay, and nothing is taken back.
LEMMA RowsLinked ==
    ASSUME Links, TableGrows, StreamFollows, StillFresh, loads' = loads,
           wronged \subseteq wronged', Linked(page, wronged, loads)'
    PROVE  Links'
  <1>1. \A i, x : Names(i, x) => i \in DOMAIN table' /\ table'[i].of = x
    BY DEF Names, TableGrows
  <1>2. LoadsNameRows'
    BY <1>1 DEF Links, LoadsNameRows, Names
  <1>3. BroadcastsNameRows'
    BY <1>1 DEF Links, BroadcastsNameRows, Names, StreamFollows
  <1>4. LoadedOnce'
    BY DEF Links, LoadedOnce
  <1>5. NewIsFresh'
    BY DEF Links, NewIsFresh, Private, StillFresh, Fresh
  <1> QED
    BY <1>2, <1>3, <1>4, <1>5 DEF Links

\* The page keeps all that its links are made of.
LEMMA PageKeptLinked ==
    ASSUME Inv, Links, Kept(page, page'), loads' = loads, wronged \subseteq wronged'
    PROVE  Linked(page, wronged, loads)'
  <1>1. Sound(page) /\ Linked(page, wronged, loads) /\ loads \subseteq loads
    BY DEF Inv, Links
  <1>2. Linked(page', wronged', loads)
    BY <1>1, KeptLinked
  <1> QED
    BY <1>2

\* The page keeps its links, and the table its rows.
LEMMA PageKeptLinks ==
    ASSUME Inv, Links, Kept(page, page'), table' = table, loads' = loads,
           StreamFollows, born' \subseteq born, wronged \subseteq wronged'
    PROVE  Links'
  <1>1. TableGrows
    BY DEF TableGrows
  <1>2. StillFresh
    BY DEF StillFresh, Links, NewIsFresh, Private, Fresh, Kept, KeptBut
  <1> QED
    BY <1>1, <1>2, PageKeptLinked, RowsLinked

\* What the others do.
LEMMA EnvironmentLinks ==
    ASSUME Inv, Links, Environment
    PROVE  Links'
  <1>1. page' = page /\ loads' = loads /\ wronged' = wronged
    BY DEF Environment, Commit, OtherAdds, OtherRemoves, OtherDestroys
  <1>2. Kept(page, page')
    <2>1. DOMAIN page = Fields
      BY DEF Inv, Sound
    <2>2. Kept(page, page)
      BY <2>1, SimplyKept
    <2> QED
      BY <1>1, <2>2
  <1>3. CASE Commit
    <2>1. table' = table /\ born' = born /\ stream' = stream
      BY <1>3 DEF Commit
    <2>2. StreamFollows
      BY <2>1 DEF StreamFollows
    <2> QED
      BY <1>1, <1>2, <2>1, <2>2, PageKeptLinks
  <1>4. CASE OtherAdds
    <2>1. PICK x \in Items : /\ x \in born \/ (x \notin Own /\ Fresh(x))
                             /\ Insert(x, Other, TRUE)
                             /\ born' = born \cup {x}
      BY <1>4 DEF OtherAdds
    <2>2. /\ TableGrows /\ StreamFollows
          /\ \A y : y # x /\ (\A i \in DOMAIN table : table[i].of # y) =>
                    \A i \in DOMAIN table' : table'[i].of # y
      BY <2>1, InsertKeeps DEF Inv
    <2>3. StillFresh
      BY <1>1, <2>1, <2>2 DEF StillFresh, Links, NewIsFresh, Private, Fresh
    <2>4. Linked(page, wronged, loads)'
      BY <1>1, <1>2, PageKeptLinked
    <2> QED
      BY <1>1, <2>2, <2>3, <2>4, RowsLinked
  <1>5. CASE OtherRemoves
    <2>1. PICK i \in live \ held : /\ Delete(i)
                                   /\ UNCHANGED <<table, held, born>>
      BY <1>5 DEF OtherRemoves
    <2>2. StreamFollows
      BY <2>1, DeleteKeeps DEF Inv
    <2> QED
      BY <1>1, <1>2, <2>1, <2>2, PageKeptLinks
  <1>6. CASE OtherDestroys
    <2>1. PICK x \in born \ Own : /\ Destroy(x)
                                  /\ UNCHANGED <<table, held>>
      BY <1>6 DEF OtherDestroys
    <2>2. x \in Items
      BY DEF Inv
    <2>3. StreamFollows /\ born' \subseteq born
      BY <2>1, <2>2, DestroyKeeps DEF Inv
    <2> QED
      BY <1>1, <1>2, <2>1, <2>3, PageKeptLinks
  <1> QED
    BY <1>3, <1>4, <1>5, <1>6 DEF Environment

\* DELETE /mappings, /topics and /synapses.
LEMMA ServeDeletesLinks ==
    ASSUME Inv, Links, ServeUnmap \/ ServeDestroy
    PROVE  Links'
  <1>1. table' = table /\ held' = held /\ loads' = loads /\ wronged' = wronged
    BY DEF ServeUnmap, ServeDestroy
  <1>2. \E o : page' = [page EXCEPT !.out = o]
    <2>1. CASE ServeUnmap
      BY <2>1 DEF ServeUnmap
    <2>2. CASE ServeDestroy
      BY <2>2 DEF ServeDestroy
    <2> QED
      BY <2>1, <2>2
  <1>3. Kept(page, page')
    <2>1. DOMAIN page = Fields
      BY DEF Inv, Sound
    <2>2. PICK o : page' = [page EXCEPT !.out = o]
      BY <1>2
    <2>3. Kept(page, [page EXCEPT !.out = o])
      BY <2>1, SimplyKept
    <2> QED
      BY <2>2, <2>3
  <1>4. StreamFollows /\ born' \subseteq born
    <2>1. CASE ServeUnmap
      <3>1. PICK i : /\ IF i \in live THEN Delete(i) ELSE UNCHANGED <<live, stream>>
                     /\ born' = born
        BY <2>1 DEF ServeUnmap
      <3>2. CASE i \in live
        BY <1>1, <3>1, <3>2, DeleteKeeps DEF Inv
      <3>3. CASE i \notin live
        BY <3>1, <3>3 DEF StreamFollows
      <3> QED
        BY <3>1, <3>2, <3>3
    <2>2. CASE ServeDestroy
      <3>1. PICK x \in Items : IF x \in born THEN Destroy(x)
                               ELSE UNCHANGED <<born, live, stream>>
        BY <2>2 DEF ServeDestroy
      <3>2. CASE x \in born
        BY <1>1, <3>1, <3>2, DestroyKeeps DEF Inv
      <3>3. CASE x \notin born
        BY <3>1, <3>3 DEF StreamFollows
      <3> QED
        BY <3>2, <3>3
    <2> QED
      BY <2>1, <2>2
  <1> QED
    BY <1>1, <1>3, <1>4, PageKeptLinks

\* POST /topics and /synapses: the item is not new any more.
LEMMA ServeCreateLinks ==
    ASSUME Inv, Links, ServeCreate
    PROVE  Links'
  <1>1. PICK x \in Items :
          /\ born' = born \cup {x}
          /\ page' = [page EXCEPT !.out = (@ \ {<<"create", x>>}) \cup {<<"map", x>>},
                                  !.new = @ \ {x}]
          /\ UNCHANGED <<table, live, held, stream, loads, left, wronged>>
    BY Zenon DEF ServeCreate
  <1> DEFINE o == (page.out \ {<<"create", x>>}) \cup {<<"map", x>>}
             n == page.new \ {x}
             p == [page EXCEPT !.out = o]
  <1>2. page' = [p EXCEPT !.new = n] /\ page'.new = n
    <2>1. DOMAIN page = Fields
      BY DEF Inv, Sound
    <2> HIDE DEF o, n
    <2> QED
      BY <1>1, <2>1 DEF Fields, o, n
  <1> HIDE DEF o
  <1>3. Sound(p) /\ Linked(p, wronged, loads)
    <2>1. DOMAIN page = Fields /\ Sound(page)
      BY DEF Inv, Sound
    <2>2. Kept(page, p)
      BY <2>1, SimplyKept
    <2>3. Sound(p)
      BY <2>1, OutSound
    <2> QED
      BY <2>1, <2>2, <2>3, KeptLinked DEF Links
  <1> HIDE DEF p, n
  <1>4. Linked([p EXCEPT !.new = n], wronged, loads)
    BY <1>3, NewLinked
  <1>5. Linked(page, wronged, loads)'
    BY <1>1, <1>2, <1>4
  <1>6. TableGrows /\ StreamFollows
    BY <1>1 DEF TableGrows, StreamFollows
  <1>7. StillFresh
    BY <1>1, <1>2 DEF StillFresh, Links, NewIsFresh, Private, Fresh, n
  <1> QED
    BY <1>1, <1>5, <1>6, <1>7, RowsLinked

\* POST /mappings: nothing changes on the page.
LEMMA ServeMapLinks ==
    ASSUME Inv, Links, ServeMap
    PROVE  Links'
  <1>0. PICK x \in Items : \E o :
          /\ IF x \in born THEN Insert(x, Me, FALSE) ELSE UNCHANGED <<table, live, held, stream>>
          /\ page' = [page EXCEPT !.out = o]
          /\ wronged' = wronged \cup {y \in {x} : OnMap(y) \/ y \notin born}
          /\ UNCHANGED <<born, loads, left>>
    BY DEF ServeMap
  <1>1. PICK o :
          /\ IF x \in born THEN Insert(x, Me, FALSE) ELSE UNCHANGED <<table, live, held, stream>>
          /\ page' = [page EXCEPT !.out = o]
          /\ wronged' = wronged \cup {y \in {x} : OnMap(y) \/ y \notin born}
          /\ UNCHANGED <<born, loads, left>>
    BY <1>0
  <1>2. wronged \subseteq wronged' /\ loads' = loads /\ born' = born
    BY <1>1
  <1>3. Kept(page, page')
    <2>1. DOMAIN page = Fields
      BY DEF Inv, Sound
    <2>2. Kept(page, [page EXCEPT !.out = o])
      BY <2>1, SimplyKept
    <2> QED
      BY <1>1, <2>2
  <1>4. CASE x \notin born
    <2>1. UNCHANGED <<table, stream>>
      BY <1>1, <1>4
    <2>2. StreamFollows
      BY <2>1 DEF StreamFollows
    <2> QED
      BY <1>2, <1>3, <2>1, <2>2, PageKeptLinks
  <1>5. CASE x \in born
    <2>1. /\ TableGrows /\ StreamFollows
          /\ \A y : y # x /\ (\A i \in DOMAIN table : table[i].of # y) =>
                    \A i \in DOMAIN table' : table'[i].of # y
      <3>1. Insert(x, Me, FALSE)
        BY <1>1, <1>5
      <3> QED
        BY <3>1, InsertKeeps DEF Inv
    <2>2. StillFresh
      BY <1>2, <1>3, <1>5, <2>1
      DEF StillFresh, Links, NewIsFresh, Private, Fresh, Kept, KeptBut
    <2>3. Linked(page, wronged, loads)'
      BY <1>2, <1>3, PageKeptLinked
    <2> QED
      BY <1>2, <2>1, <2>2, <2>3, RowsLinked
  <1> QED
    BY <1>4, <1>5

\* The answer: what was a draft has a row.
LEMMA AnswerMapLinks ==
    ASSUME Inv, Links, AnswerMap
    PROVE  Links'
  <1>0. PICK i \in 1..Len(table) : \E o :
          /\ page' = IF table[i].of \in page.drafts
                     THEN [page EXCEPT !.out = o, !.drafts = @ \ {table[i].of},
                                       !.maps = @ \cup {table[i]}]
                     ELSE [page EXCEPT !.out = o]
          /\ UNCHANGED <<table, live, held, born, stream, loads, left, wronged>>
    BY DEF AnswerMap
  <1>1. PICK o :
          /\ page' = IF table[i].of \in page.drafts
                     THEN [page EXCEPT !.out = o, !.drafts = @ \ {table[i].of},
                                       !.maps = @ \cup {table[i]}]
                     ELSE [page EXCEPT !.out = o]
          /\ UNCHANGED <<table, live, held, born, stream, loads, left, wronged>>
    BY <1>0
  <1>2. DOMAIN page = Fields
    BY DEF Inv, Sound
  <1> DEFINE x == table[i].of
             m == table[i]
  <1>3. Kept(page, page')
    <2>1. CASE x \notin page.drafts
      <3>1. Kept(page, [page EXCEPT !.out = o])
        BY <1>2, SimplyKept
      <3> QED
        BY <1>1, <2>1, <3>1
    <2>2. CASE x \in page.drafts
      <3>1. page' = [page EXCEPT !.out = o, !.drafts = @ \ {x}, !.maps = @ \cup {m}]
        BY <1>1, <2>2
      <3>2. m.of = x
        OBVIOUS
      <3> HIDE DEF x, m
      <3>3. /\ page'.topics = page.topics /\ page'.syns = page.syns
            /\ page'.maps = page.maps \cup {m} /\ page'.drafts = page.drafts \ {x}
            /\ SameGraph(page, page') /\ page'.new = page.new
        BY <1>2, <3>1 DEF Fields, SameGraph
      <3>4. SameMappings(page, page', None)
        BY <2>2, <3>2, <3>3 DEF SameMappings, HasMapping, RowsOf
      <3>5. SynapsesSame(page, page', None) /\ TopicsSame(page, page')
        BY <3>3, <3>4 DEF SynapsesSame, SameLists, Edges, TopicsSame, NodesSame, SameGraph
      <3> QED
        BY <3>3, <3>5 DEF Kept, KeptBut
    <2> QED
      BY <2>1, <2>2
  <1>4. StreamFollows
    BY <1>1 DEF StreamFollows
  <1> QED
    BY <1>1, <1>3, <1>4, PageKeptLinks

-----------------------------------------------------------------------------
\* What is drawn, listed and loaded still goes together: the page's own steps.

\* The first broadcast and the others.
LEMMA StreamShorter ==
    ASSUME MapSound, stream # <<>>, stream' = Tail(stream)
    PROVE  /\ Head(stream) \in In(stream)
           /\ In(stream') \subseteq In(stream)
           /\ StreamFollows
  <1>1. stream \in Seq(Broadcasts)
    BY DEF MapSound
  <1>2. /\ Head(stream) = stream[1] /\ Len(stream) \in Nat /\ 1 \in 1..Len(stream)
        /\ Len(Tail(stream)) = Len(stream) - 1
        /\ \A i \in 1..Len(Tail(stream)) : Tail(stream)[i] = stream[i + 1]
    BY <1>1, LenProperties, HeadTailProperties, EmptySeq
  <1>3. Head(stream) \in In(stream) /\ In(stream') \subseteq In(stream)
    BY <1>2 DEF In
  <1> QED
    BY <1>3 DEF StreamFollows

\* A step of the page, by which no row changes.
LEMMA PageStepLinks ==
    ASSUME Links, UNCHANGED <<table, born>>, StreamFollows,
           wronged \subseteq wronged', page'.new = page.new,
           Linked(page, wronged, loads)', LoadsNameRows', LoadedOnce'
    PROVE  Links'
  <1>1. BroadcastsNameRows'
    BY DEF Links, BroadcastsNameRows, Names, StreamFollows
  <1>2. NewIsFresh'
    BY DEF Links, NewIsFresh, Private, Fresh
  <1> QED
    BY <1>1, <1>2 DEF Links

\* topicAdded and synapseAdded start loading, unless the item is known.
LEMMA AddedLinks ==
    ASSUME Inv, Links, Added
    PROVE  Links'
  <1> DEFINE x == Head(stream)[2]
             l == Load(x, Head(stream)[3])
  <1>1. /\ stream # <<>> /\ Head(stream)[1] = "added"
        /\ IF Known(page, x) THEN UNCHANGED loads ELSE loads' = loads \cup {l}
        /\ wronged' = wronged \cup {y \in {x} : Overtakes(y, Head(stream)[3])}
        /\ stream' = Tail(stream)
        /\ UNCHANGED <<page, table, live, held, born, left>>
    BY DEF Added
  <1>2. StreamFollows /\ Names(Head(stream)[3], x)
    <2>1. StreamFollows /\ Head(stream) \in In(stream)
      BY <1>1, StreamShorter DEF Inv
    <2> QED
      BY <1>1, <2>1 DEF Links, BroadcastsNameRows
  <1>3. /\ l.of = x /\ l.row = Head(stream)[3]
        /\ "mapping" \notin l.got /\ "model" \notin l.got
    BY DEF Load
  <1>4. wronged \subseteq wronged' /\ page' = page
    BY <1>1
  <1>5. Linked(page, wronged', loads)
    <2>1. loads \subseteq loads /\ Sound(page)
      BY DEF Inv
    <2> QED
      BY <1>4, <2>1, MoreNoted DEF Links
  <1>6. CASE Known(page, x)
    <2>1. loads' = loads
      BY <1>1, <1>6
    <2>2. Linked(page, wronged, loads)'
      BY <1>4, <1>5, <2>1
    <2>3. LoadsNameRows' /\ LoadedOnce'
      BY <1>1, <2>1 DEF Links, LoadsNameRows, LoadedOnce, Names
    <2> QED
      BY <1>1, <1>2, <1>4, <2>2, <2>3, PageStepLinks
  <1>7. CASE ~Known(page, x)
    <2>1. loads' = loads \cup {l}
      BY <1>1, <1>7
    <2>2. \A m \in loads : m.of = x => x \in wronged'
      BY <1>1, <1>7 DEF Overtakes, Busy
    <2>3. x \notin page.topics /\ x \notin page.syns
      BY <1>7 DEF Known
    <2> HIDE DEF x, l
    <2>4. SynapsesAwaited(page, wronged', loads') /\ TopicsAwaited(page, wronged', loads')
      BY <1>3, <1>5, <2>1, <2>3
      DEF Linked, SynapsesLinked, TopicsLinked, SynapsesAwaited, TopicsAwaited
    <2>5. Linked(page, wronged', loads')
      BY <1>5, <2>4 DEF Linked, SynapsesLinked, TopicsLinked
    <2>6. Linked(page, wronged, loads)'
      BY <1>4, <2>5
    <2>7. LoadsNameRows'
      BY <1>1, <1>2, <1>3, <2>1 DEF Links, LoadsNameRows, Names
    <2>8. LoadedOnce'
      BY <1>3, <1>4, <2>1, <2>2 DEF Links, LoadedOnce
    <2> QED
      BY <1>1, <1>2, <1>4, <2>6, <2>7, <2>8, PageStepLinks
  <1> QED
    BY <1>6, <1>7

\* topicRemoved and synapseRemoved, wherever they throw.
LEMMA RemovedLinks ==
    ASSUME Inv, Links, Removed
    PROVE  Links'
  <1> DEFINE x == Head(stream)[2]
             p == IF IsTopic(x) THEN topicRemoved(page, x) ELSE synapseRemoved(page, x)
  <1>1. /\ stream # <<>>
        /\ Turn(p)
        /\ wronged' = wronged \cup {y \in {x} : Busy(y) \/ p.threw}
        /\ stream' = Tail(stream)
        /\ UNCHANGED <<table, live, held, born, loads, left>>
    BY DEF Removed
  <1>2. StreamFollows
    BY <1>1, StreamShorter DEF Inv
  <1>3. Sound(p)
    BY topicRemovedSound, synapseRemovedSound DEF Inv
  <1>4. Linked(p, wronged, loads) /\ p.new = page.new
    <2>1. Sound(page) /\ Linked(page, wronged, loads)
      BY DEF Inv, Links
    <2>2. CASE IsTopic(x)
      BY <2>1, <2>2, topicRemovedLinked DEF IsTopic
    <2>3. CASE ~IsTopic(x)
      BY <2>1, <2>3, synapseRemovedLinked
    <2> QED
      BY <2>2, <2>3
  <1> HIDE DEF x, p
  <1>5. wronged \subseteq wronged' /\ loads' \subseteq loads
    BY <1>1
  <1>6. Linked(page, wronged, loads)' /\ page'.new = p.new
    BY <1>1, <1>3, <1>4, <1>5, TurnLinked
  <1>7. LoadsNameRows' /\ LoadedOnce'
    BY <1>1, <1>5 DEF Links, LoadsNameRows, LoadedOnce, Names
  <1> QED
    BY <1>1, <1>2, <1>4, <1>5, <1>6, <1>7, PageStepLinks

\* What an answer has brought is there.
Brought(p, l, what) ==
    /\ what = "mapping" => HasMapping(p, l.of)
    /\ what = "model" /\ l.of \in Synapses => l.of \in p.syns

\* The answer to one request of a load: the links hold without the load, or with it still waiting.
LEMMA AnsweredLinks ==
    ASSUME Inv, Links, NEW l \in loads, NEW what \in Wanted, NEW p, Sound(p), NEW ok \in BOOLEAN,
           Linked(p, wronged, loads), p.new = page.new, ok = FALSE \/ Brought(p, l, what),
           Answered(l, what, p, ok)
    PROVE  Links'
  <1> DEFINE h == Heard(l, what, ok, ~p.threw)
             X == IF p.threw \/ ~ok THEN wronged \cup {l.of} ELSE wronged
             K == (loads \ {l}) \cup {h}
  <1>1. /\ Turn(p) /\ loads' = K /\ wronged' = X
        /\ UNCHANGED <<table, live, held, born, stream, left>>
    BY DEF Answered
  <1>2. l \in Loads
    BY DEF Inv
  <1>3. /\ h.of = l.of /\ h.row = l.row
        /\ h.got = IF ok /\ ~p.threw THEN l.got \cup {what} ELSE l.got
    BY <1>2 DEF Heard, Loads
  <1>4. wronged \subseteq X
    OBVIOUS
  <1>5. Linked(p, X, loads)
    <2> HIDE DEF X
    <2> QED
      BY <1>4, MoreNoted
  <1>6. l.of \in Synapses \ X => Brought(p, l, what) /\ h.got = l.got \cup {what}
    BY <1>3
  <1> HIDE DEF h, X
  <1>7. SynapsesAwaited(p, X, K)
    <2>1. SynapsesAwaited(p, X, loads)
      BY <1>5 DEF Linked, SynapsesLinked
    <2>2. ASSUME l.of \in Synapses \ X
          PROVE  /\ "mapping" \in h.got => HasMapping(p, l.of)
                 /\ "model" \in h.got => l.of \in p.syns
                 /\ l.of \in p.syns => p.edge[l.of] = None
      BY <1>6, <2>1, <2>2 DEF SynapsesAwaited, Brought
    <2> QED
      BY <1>3, <2>1, <2>2 DEF SynapsesAwaited
  <1>8. TopicsAwaited(p, X, K)
    BY <1>3, <1>5 DEF Linked, TopicsLinked, TopicsAwaited
  <1>9. Linked(p, X, K)
    BY <1>5, <1>7, <1>8 DEF Linked, SynapsesLinked, TopicsLinked
  <1> HIDE DEF K
  <1>10. X \subseteq wronged' /\ loads' \subseteq K
    BY <1>1
  <1>11. Linked(page, wronged, loads)' /\ page'.new = p.new
    BY <1>1, <1>9, <1>10, TurnLinked
  <1>12. LoadsNameRows' /\ LoadedOnce'
    <2>1. LoadsNameRows'
      BY <1>1, <1>3 DEF Links, LoadsNameRows, Names, K
    <2>2. LoadedOnce'
      BY <1>1, <1>3, <1>4 DEF Links, LoadedOnce, K
    <2> QED
      BY <2>1, <2>2
  <1>13. StreamFollows
    BY <1>1 DEF StreamFollows
  <1> QED
    BY <1>1, <1>4, <1>11, <1>12, <1>13, PageStepLinks

\* The answers for the model, the mapping and the mapper.
LEMMA AnswersLinks ==
    ASSUME Inv, Links, AnswerModel \/ AnswerMapping \/ AnswerMapper
    PROVE  Links'
  <1>1. Sound(page) /\ Linked(page, wronged, loads) /\ DOMAIN page = Fields
    BY DEF Inv, Links, Sound
  <1>2. \A l \in loads : l.of \in Items
    BY DEF Inv, Loads
  <1>3. {"model", "mapping", "mapper"} \subseteq Wanted
    BY DEF Wanted
  <1>4. CASE AnswerModel
    <2>1. PICK l \in loads :
            IF l.of \notin born THEN Answered(l, "model", page, FALSE)
            ELSE Answered(l, "model", IF IsTopic(l.of) THEN AddTopic(page, l.of)
                                      ELSE AddSynapse(page, l.of), TRUE)
      BY <1>4 DEF AnswerModel
    <2>2. CASE l.of \notin born
      BY <1>1, <1>3, <2>1, <2>2, AnsweredLinks
    <2>3. CASE l.of \in born /\ IsTopic(l.of)
      <3> DEFINE p == AddTopic(page, l.of)
      <3>1. l.of \in Topics /\ Answered(l, "model", p, TRUE)
        BY <2>1, <2>3 DEF IsTopic
      <3>2. Sound(p) /\ Linked(p, wronged, loads) /\ p.new = page.new
        BY <1>1, <3>1, AddTopicSound, AddTopicLinked
      <3>3. l.of \notin Synapses
        BY <3>1, PageAssumption
      <3> HIDE DEF p
      <3>4. Brought(p, l, "model")
        BY <3>3 DEF Brought
      <3> QED
        BY <1>3, <3>1, <3>2, <3>4, AnsweredLinks
    <2>4. CASE l.of \in born /\ ~IsTopic(l.of)
      <3> DEFINE p == AddSynapse(page, l.of)
      <3>1. l.of \in Synapses /\ Answered(l, "model", p, TRUE)
        BY <1>2, <2>1, <2>4 DEF IsTopic, Items
      <3>2. Sound(p) /\ Linked(p, wronged, loads) /\ p.new = page.new /\ l.of \in p.syns
        BY <1>1, <3>1, AddSynapseSound, AddSynapseLinked
      <3> HIDE DEF p
      <3>3. Brought(p, l, "model")
        BY <3>2 DEF Brought
      <3> QED
        BY <1>3, <3>1, <3>2, <3>3, AnsweredLinks
    <2> QED
      BY <2>2, <2>3, <2>4
  <1>5. CASE AnswerMapping
    <2>1. PICK l \in loads :
            IF l.row \notin live \ held THEN Answered(l, "mapping", page, FALSE)
            ELSE Answered(l, "mapping", AddMapping(page, table[l.row]), TRUE)
      BY <1>5 DEF AnswerMapping
    <2>2. CASE l.row \notin live \ held
      BY <1>1, <1>3, <2>1, <2>2, AnsweredLinks
    <2>3. CASE l.row \in live \ held
      <3> DEFINE p == AddMapping(page, table[l.row])
      <3>1. table[l.row] \in Range(table) /\ table[l.row].of = l.of
        BY <2>3 DEF Inv, MapSound, Range, Links, LoadsNameRows, Names
      <3>2. Sound(p) /\ Kept(page, p) /\ HasMapping(p, l.of)
        BY <1>1, <3>1, AddMappingSound, MappingAdded
      <3>3. Answered(l, "mapping", p, TRUE)
        BY <2>1, <2>3
      <3> HIDE DEF p
      <3>4. Linked(p, wronged, loads) /\ p.new = page.new
        BY <1>1, <3>2, KeptLinked DEF Kept, KeptBut
      <3>5. Brought(p, l, "mapping")
        BY <3>2 DEF Brought
      <3> QED
        BY <1>3, <3>2, <3>3, <3>4, <3>5, AnsweredLinks
    <2> QED
      BY <2>2, <2>3
  <1>6. CASE AnswerMapper
    <2>1. PICK l \in loads :
            \/ Answered(l, "mapper", [page EXCEPT !.mappers = @ \cup {Owner(l.of)}], TRUE)
            \/ Answered(l, "mapper", page, FALSE)
      BY <1>6 DEF AnswerMapper
    <2> DEFINE m == page.mappers \cup {Owner(l.of)}
               p == [page EXCEPT !.mappers = m]
    <2>2. m \subseteq {Me, Other}
      BY <1>1, OwnerType DEF Sound, DataSound
    <2>3. Answered(l, "mapper", p, TRUE) \/ Answered(l, "mapper", page, FALSE)
      BY <2>1
    <2> HIDE DEF m
    <2>4. Sound(p)
      BY <1>1, <2>2, DataGrows
    <2>5. Kept(page, p)
      <3>1. /\ p.topics = page.topics /\ p.syns = page.syns /\ p.maps = page.maps
            /\ p.drafts = page.drafts /\ p.new = page.new /\ SameGraph(page, p)
        BY <1>1 DEF Fields, SameGraph
      <3> HIDE DEF p
      <3> QED
        BY <3>1 DEF Kept, KeptBut, SynapsesSame, TopicsSame, NodesSame, SameLists, SameMappings,
                    SameGraph, HasMapping, RowsOf, Edges
    <2> HIDE DEF p
    <2>6. Linked(p, wronged, loads) /\ p.new = page.new
      BY <1>1, <2>5, KeptLinked DEF Kept, KeptBut
    <2>7. Brought(p, l, "mapper")
      BY DEF Brought
    <2>8. Brought(page, l, "mapper")
      BY DEF Brought
    <2>9. CASE Answered(l, "mapper", p, TRUE)
      BY <1>3, <2>4, <2>6, <2>7, <2>9, AnsweredLinks
    <2>10. CASE Answered(l, "mapper", page, FALSE)
      BY <1>1, <1>3, <2>8, <2>10, AnsweredLinks
    <2> QED
      BY <2>3, <2>9, <2>10
  <1> QED
    BY <1>4, <1>5, <1>6

\* The interval finds what it waited for, and draws it.
LEMMA PollLinks ==
    ASSUME Inv, Links, Poll
    PROVE  Links'
  <1>1. PICK l \in loads :
          /\ Ready(l)
          /\ LET p == IF l.cancel THEN page ELSE Drawn(page, l.of)
             IN /\ Turn(p)
                /\ wronged' = IF p.threw \/ Fading(l.of) THEN wronged \cup {l.of} ELSE wronged
          /\ loads' = loads \ {l}
          /\ UNCHANGED <<table, live, held, born, stream, left>>
    BY DEF Poll
  <1>2. l.of \in Items
    BY DEF Inv, Loads
  <1> DEFINE p == IF l.cancel THEN page ELSE Drawn(page, l.of)
             K == loads \ {l}
  <1>3. Turn(p) /\ wronged \subseteq wronged' /\ loads' \subseteq K
    BY <1>1
  <1>4. Sound(page) /\ Linked(page, wronged, loads) /\ K \subseteq loads
    BY DEF Inv, Links
  <1>5. Sound(p) /\ Linked(p, wronged, K) /\ p.new = page.new
    <2>1. CASE l.cancel
      <3> HIDE DEF K
      <3>1. wronged \subseteq wronged
        OBVIOUS
      <3> QED
        BY <1>4, <2>1, <3>1, MoreNoted
    <2>2. CASE ~l.cancel
      <3>1. "mapping" \in l.got /\ "model" \in l.got
        BY <1>1, <2>2 DEF Ready
      <3>2. l.of \notin page.new
        BY DEF Links, LoadsNameRows, Names, NewIsFresh, Private, Fresh
      <3>3. l.of \in wronged \/ \A m \in K : m.of # l.of
        BY DEF Links, LoadedOnce
      <3>4. l.of \in Synapses \ wronged =>
              l.of \in page.syns /\ page.edge[l.of] = None /\ HasMapping(page, l.of)
        BY <1>4, <3>1 DEF Linked, SynapsesLinked, SynapsesAwaited
      <3>5. l.of \in wronged \/ ~Unsaved(page, l.of)
        BY <1>4 DEF Linked, TopicsLinked, TopicsAwaited, Unsaved
      <3> HIDE DEF K
      <3>6. ToDraw(page, wronged, K, l.of)
        BY <3>2, <3>3, <3>4, <3>5 DEF ToDraw
      <3>7. /\ Linked(Drawn(page, l.of), wronged, K) /\ Drawn(page, l.of).new = page.new
            /\ Sound(Drawn(page, l.of))
        BY <1>2, <1>4, <3>6, DrawnLinked, DrawnSound
      <3> QED
        BY <2>2, <3>7
    <2> QED
      BY <2>1, <2>2
  <1> HIDE DEF p, K
  <1>6. Linked(page, wronged, loads)' /\ page'.new = p.new
    BY <1>3, <1>5, TurnLinked
  <1>7. LoadsNameRows' /\ LoadedOnce'
    BY <1>1, <1>3 DEF Links, LoadsNameRows, LoadedOnce, Names
  <1>8. StreamFollows
    BY <1>1 DEF StreamFollows
  <1> QED
    BY <1>1, <1>3, <1>5, <1>6, <1>7, <1>8, PageStepLinks

\* A timer of hideNode or hideEdge ends.
LEMMA FadeEndsLinks ==
    ASSUME Inv, Links, FadeEnds
    PROVE  Links'
  <1> DEFINE p == Elapse(page)
  <1>1. /\ page.timers # <<>> /\ page' = p /\ wronged \subseteq wronged'
        /\ UNCHANGED <<table, live, held, born, stream, loads, left>>
    BY DEF FadeEnds
  <1>2. Sound(page) /\ Linked(page, wronged, loads)
    BY DEF Inv, Links
  <1>3. Sound(p) /\ Linked(p, wronged, loads) /\ p.new = page.new
    BY <1>1, <1>2, ElapseSound, ElapseLinked
  <1> HIDE DEF p
  <1>4. loads' \subseteq loads
    BY <1>1
  <1>5. Linked(p, wronged', loads')
    BY <1>1, <1>3, <1>4, MoreNoted
  <1>6. Linked(page, wronged, loads)'
    BY <1>1, <1>5
  <1>7. LoadsNameRows' /\ LoadedOnce' /\ StreamFollows
    BY <1>1 DEF Links, LoadsNameRows, LoadedOnce, Names, StreamFollows
  <1> QED
    BY <1>1, <1>3, <1>6, <1>7, PageStepLinks

\* What the server answers and what the page does by itself.
LEMMA ServingLinks ==
    ASSUME Inv, Links, Answers \/ Page
    PROVE  Links'
  <1>1. CASE Answers
    BY <1>1, ServeDeletesLinks, ServeCreateLinks, ServeMapLinks, AnswerMapLinks, AnswersLinks
    DEF Answers
  <1>2. CASE Page
    BY <1>2, AddedLinks, RemovedLinks, PollLinks, FadeEndsLinks DEF Page
  <1> QED
    BY <1>1, <1>2

-----------------------------------------------------------------------------
\* The user's turns: each makes a sound page of one.

\* The page of a click, with shift or not.
LEMMA BeforeClick ==
    ASSUME Sound(page), NEW shift
    PROVE  LET p == IF shift THEN page ELSE deselectAllEdges(deselectAllNodes(page))
           IN  Sound(p) /\ Kept(page, p)
  <1>1. DOMAIN page = Fields
    BY DEF Sound
  <1> QED
    BY <1>1, deselectAllSound, SimplyKept

\* Clicks on nodes and edges, and the choice of neighbours.
LEMMA ClicksKeep ==
    ASSUME Inv, ClickNode \/ ClickEdge \/ SelectNeighbors
    PROVE  Inv' /\ (Links => Links')
  <1>1. Sound(page)
    BY DEF Inv
  <1> DEFINE before(shift) == IF shift THEN page ELSE deselectAllEdges(deselectAllNodes(page))
  <1>2. \A shift : /\ Sound(before(shift)) /\ Kept(page, before(shift))
                  /\ DOMAIN before(shift) = Fields
    BY <1>1, BeforeClick DEF Sound
  <1>3. CASE ClickNode
    <2>1. PICK n \in page.graph \ page.dim, shift \in BOOLEAN :
            UserTurn(IF n \in page.marked THEN deselectNode(before(shift), n)
                     ELSE selectNode(before(shift), n))
      BY <1>3 DEF ClickNode
    <2> HIDE DEF before
    <2>2. n \in NodeObject
      BY <1>1 DEF Sound, GraphSound
    <2>3. Sound(deselectNode(before(shift), n)) /\ Sound(selectNode(before(shift), n))
      BY <1>2, <2>2, selectNodeSound, deselectNodeSound
    <2>4. Kept(page, deselectNode(before(shift), n)) /\ Kept(page, selectNode(before(shift), n))
      <3>1. /\ Kept(before(shift), deselectNode(before(shift), n))
            /\ Kept(before(shift), selectNode(before(shift), n))
        BY <1>2, SimplyKept
      <3> QED
        BY <1>2, <3>1, KeptOn
    <2>5. Carried(deselectNode(before(shift), n)) /\ Carried(selectNode(before(shift), n))
      BY <1>1, <2>3, <2>4, KeptCarried
    <2> QED
      BY <2>1, <2>3, <2>5, UserTurnEnds
  <1>4. CASE ClickEdge
    <2>1. PICK e \in page.adj, shift \in BOOLEAN :
            UserTurn(IF Contains(page.selE, e) THEN deselectEdge(before(shift), e)
                     ELSE selectEdge(before(shift), e))
      BY <1>4 DEF ClickEdge
    <2> HIDE DEF before
    <2>2. e \in 1..Edges(page)
      BY <1>1 DEF Sound, GraphSound, Edges
    <2>3. Sound(deselectEdge(before(shift), e)) /\ Sound(selectEdge(before(shift), e))
      <3>1. Sound(before(shift)) /\ e \in 1..Len(before(shift).edges)
        BY <1>2, <2>2 DEF Kept, KeptBut, SynapsesSame, SameLists, Edges
      <3> QED
        BY <3>1, selectEdgeSound, deselectEdgeSound
    <2>4. Kept(page, deselectEdge(before(shift), e)) /\ Kept(page, selectEdge(before(shift), e))
      <3>1. /\ Kept(before(shift), deselectEdge(before(shift), e))
            /\ Kept(before(shift), selectEdge(before(shift), e))
        BY <1>2, SimplyKept
      <3> QED
        BY <1>2, <3>1, KeptOn
    <2>5. Carried(deselectEdge(before(shift), e)) /\ Carried(selectEdge(before(shift), e))
      BY <1>1, <2>3, <2>4, KeptCarried
    <2> QED
      BY <2>1, <2>3, <2>5, UserTurnEnds
  <1>5. CASE SelectNeighbors
    <2>1. UserTurn(selectNeighbors(page))
      BY <1>5 DEF SelectNeighbors
    <2> QED
      BY <1>1, <2>1, selectNeighborsSound, KeptCarried, UserTurnEnds
  <1> QED
    BY <1>3, <1>4, <1>5

\* The card shows another synapse of the edge.
LEMMA ShowSynapseKeeps ==
    ASSUME Inv, ShowSynapse
    PROVE  Inv' /\ (Links => Links')
  <1>1. PICK e \in page.adj : \E i \in DOMAIN page.edges[e].syns :
               UserTurn(deselectEdge([page EXCEPT !.edges[e].shown = i - 1], e))
    BY DEF ShowSynapse
  <1>2. PICK i \in DOMAIN page.edges[e].syns :
               UserTurn(deselectEdge([page EXCEPT !.edges[e].shown = i - 1], e))
    BY <1>1
  <1>3. /\ Sound(page) /\ DOMAIN page = Fields /\ e \in 1..Edges(page)
        /\ EdgeSound(page.edges[e]) /\ page.edges[e] \in Edge
        /\ page.edge \in [Synapses -> 1..Edges(page) \cup {None}]
    BY DEF Inv, Sound, GraphSound, EdgeSound, Edges
  <1> DEFINE new == [page.edges[e] EXCEPT !.shown = i - 1]
             q == [page EXCEPT !.edges[e].shown = i - 1]
             p == deselectEdge(q, e)
  <1>4. EdgeSound(new) /\ new.ends = page.edges[e].ends
    <2> DEFINE old == page.edges[e]
    <2>1. EdgeSound(old) /\ i \in 1..Len(old.syns) /\ Len(old.syns) \in Nat
      BY <1>3, LenProperties DEF Edge
    <2> HIDE DEF old
    <2>2. i - 1 \in Nat /\ i - 1 < Len(old.syns)
      BY <2>1
    <2>3. /\ [old EXCEPT !.shown = i - 1] \in Edge
          /\ [old EXCEPT !.shown = i - 1].shown = i - 1
          /\ [old EXCEPT !.shown = i - 1].syns = old.syns
          /\ [old EXCEPT !.shown = i - 1].maps = old.maps
          /\ [old EXCEPT !.shown = i - 1].ends = old.ends
      BY <2>1, <2>2 DEF EdgeSound, Edge
    <2>4. EdgeSound([old EXCEPT !.shown = i - 1])
      BY <2>1, <2>2, <2>3 DEF EdgeSound
    <2> QED
      BY <2>3, <2>4 DEF old
  <1>5. q.edges = [page.edges EXCEPT ![e] = new]
    BY <1>3 DEF Fields
  <1>6. /\ DOMAIN q = Fields /\ SameData(page, q) /\ SameFilter(page, q) /\ SameSelection(page, q)
        /\ q.graph = page.graph /\ q.adj = page.adj /\ q.dim = page.dim /\ q.node = page.node
        /\ q.made = page.made /\ q.edge = page.edge /\ q.timers = page.timers
    BY <1>3 DEF Fields, SameData, SameFilter, SameSelection
  <1>7. UserTurn(p)
    BY <1>2
  <1> HIDE DEF q, new
  <1>8. Sound(q) /\ Edges(q) = Edges(page)
    BY <1>3, <1>4, <1>5, <1>6, EdgeReplaced
  <1>9. Kept(page, q)
    <2>1. SameLists(page, q)
      <3>1. Edges(q) = Edges(page) /\ page.edges \in Seq(Edge)
        BY <1>3, <1>8 DEF Sound, GraphSound
      <3>2. new.syns = page.edges[e].syns /\ new.maps = page.edges[e].maps
        BY <1>3 DEF new, Edge
      <3>3. \A f \in 1..Edges(page) : q.edges[f] = IF f = e THEN new ELSE page.edges[f]
        BY <1>3, <1>5, <3>1, LenProperties DEF Edges
      <3> QED
        BY <3>1, <3>2, <3>3 DEF SameLists
    <2>2. TopicsSame(page, q) /\ q.new = page.new
      BY <1>6 DEF TopicsSame, NodesSame, SameData
    <2>3. SynapsesSame(page, q, None)
      BY <1>6, <2>1 DEF SynapsesSame, SameMappings, SameData, HasMapping, RowsOf
    <2> QED
      BY <2>2, <2>3 DEF Kept, KeptBut
  <1>11. Sound(p) /\ Kept(q, p)
    BY <1>6, <1>8, deselectEdgeSound, SimplyKept
  <1> HIDE DEF p
  <1>12. Kept(page, p)
    BY <1>9, <1>11, KeptOn
  <1>10. Carried(p)
    BY <1>3, <1>11, <1>12, KeptCarried
  <1> QED
    BY <1>7, <1>11, <1>10, UserTurnEnds

\* What is selected is removed, deleted or hidden.
LEMMA SelectionTurnsKeep ==
    ASSUME Inv, RemoveSelected \/ DeleteSelected \/ HideSelected
    PROVE  Inv' /\ (Links => Links')
  <1>1. Sound(page) /\ ~page.threw
    BY DEF Inv
  <1>2. CASE RemoveSelected
    <2> DEFINE p == Then(removeSelectedNodes(page), removeSelectedEdges)
               q == Then(removeSelectedEdges(page), removeSelectedNodes)
    <2>1. Turned(page, p) /\ Turned(page, q)
      <3> DEFINE n == removeSelectedNodes(page)
                 e == removeSelectedEdges(page)
      <3>1. Turned(page, n) /\ Turned(page, e) /\ Sound(n) /\ Sound(e)
        BY <1>1, removeSelectedSound DEF Turned
      <3> HIDE DEF n, e
      <3>2. /\ Turned(n, removeSelectedEdges(n)) /\ Turned(e, removeSelectedNodes(e))
            /\ Turned(n, n) /\ Turned(e, e)
        BY <3>1, removeSelectedSound, StaysAsIs
      <3>3. /\ p = (IF n.threw THEN n ELSE removeSelectedEdges(n))
            /\ q = (IF e.threw THEN e ELSE removeSelectedNodes(e))
        BY DEF Then, n, e
      <3>4. Turned(page, removeSelectedEdges(n)) /\ Turned(page, removeSelectedNodes(e))
        BY <3>1, <3>2, TurnedOn
      <3> HIDE DEF p, q
      <3> QED
        BY <3>1, <3>3, <3>4
    <2>2. UserTurn(p) \/ UserTurn(q)
      BY <1>2 DEF RemoveSelected, Then
    <2> HIDE DEF p, q
    <2>3. Sound(p) /\ Sound(q)
      BY <2>1 DEF Turned
    <2>4. Carried(p) /\ Carried(q)
      BY <1>1, <2>1, TurnedCarried
    <2> QED
      BY <2>2, <2>3, <2>4, UserTurnEnds
  <1>3. CASE DeleteSelected
    <2>1. UserTurn(deleteSelected(page))
      BY <1>3 DEF DeleteSelected
    <2>2. Turned(page, deleteSelected(page))
      BY <1>1, deleteSelectedSound
    <2>3. Sound(deleteSelected(page)) /\ Carried(deleteSelected(page))
      BY <1>1, <2>2, TurnedCarried DEF Turned
    <2> QED
      BY <2>1, <2>3, UserTurnEnds
  <1>4. CASE HideSelected
    <2> DEFINE p == Then(hideSelectedNodes(page), hideSelectedEdges)
               q == Then(hideSelectedEdges(page), hideSelectedNodes)
    <2>1. Sound(p) /\ Sound(q) /\ Kept(page, p) /\ Kept(page, q)
      <3> DEFINE n == hideSelectedNodes(page)
                 e == hideSelectedEdges(page)
      <3>1. Sound(n) /\ Sound(e) /\ Kept(page, n) /\ Kept(page, e)
        BY <1>1, hideSelectedSound
      <3> HIDE DEF n, e
      <3>2. /\ Sound(hideSelectedEdges(n)) /\ Kept(n, hideSelectedEdges(n))
            /\ Sound(hideSelectedNodes(e)) /\ Kept(e, hideSelectedNodes(e))
        BY <3>1, hideSelectedSound
      <3>3. /\ p = (IF n.threw THEN n ELSE hideSelectedEdges(n))
            /\ q = (IF e.threw THEN e ELSE hideSelectedNodes(e))
        BY DEF Then, n, e
      <3>4. Kept(page, hideSelectedEdges(n)) /\ Kept(page, hideSelectedNodes(e))
        BY <3>1, <3>2, KeptOn
      <3> HIDE DEF p, q
      <3> QED
        BY <3>1, <3>2, <3>3, <3>4
    <2>2. UserTurn(p) \/ UserTurn(q)
      BY <1>4 DEF HideSelected, Then
    <2> HIDE DEF p, q
    <2>3. Carried(p) /\ Carried(q)
      BY <1>1, <2>1, KeptCarried
    <2> QED
      BY <2>1, <2>2, <2>3, UserTurnEnds
  <1> QED
    BY <1>2, <1>3, <1>4

\* Topic.createTopicLocally, wherever it throws.
LEMMA CreateTopicKeeps ==
    ASSUME Inv, CreateTopic
    PROVE  Inv' /\ (Links => Links')
  <1> DEFINE Out(q, t) == [q EXCEPT !.out = @ \cup {<<"create", t>>}]
             P(t) == Then(Then(Then(AddTopic([page EXCEPT !.new = @ \cup {t}], t),
                                    LAMBDA q : AddDraft(q, t)),
                               LAMBDA q : renderTopic(q, t)),
                          LAMBDA q : Out(q, t))
  <1>1. PICK t \in Topics \cap Own : Fresh(t) /\ page.made[t] = 0 /\ UserTurn(P(t))
    BY DEF CreateTopic
  <1> DEFINE new == page.new \cup {t}
             p0 == [page EXCEPT !.new = new]
             p1 == AddTopic(p0, t)
             p2 == IF p1.threw THEN p1 ELSE AddDraft(p1, t)
             p3 == IF p2.threw THEN p2 ELSE renderTopic(p2, t)
             p4 == IF p3.threw THEN p3 ELSE Out(p3, t)
  <1>2. P(t) = p4
    BY DEF Then
  <1>3. Sound(p0)
    <2>1. new \subseteq Items
      BY DEF Inv, Sound, DataSound, Items
    <2>2. Sound(page) /\ page.mappers \subseteq {Me, Other}
      BY DEF Inv, Sound, DataSound
    <2> HIDE DEF new
    <2> QED
      BY <2>1, <2>2, DataGrows
  <1>4. Links => /\ Linked(p0, wronged, loads) /\ p0.new = new
                 /\ p0.made = page.made
    <2> HIDE DEF new
    <2> QED
      BY NewLinked DEF Inv, Links, TopicsSame, NodesSame
  <1> HIDE DEF p0
  <1>5. Sound(p1) /\ DOMAIN p1 = Fields
    BY <1>3, AddTopicSound DEF Sound
  <1>6. Links => /\ Linked(p1, wronged, loads) /\ p1.new = new
                 /\ p1.made = page.made /\ t \in p1.topics
    BY <1>3, <1>4, AddTopicLinked
  <1> HIDE DEF p1
  <1>7. Sound(p2) /\ Kept(p1, p2)
    <2>1. Kept(p1, p1) /\ Kept(p1, AddDraft(p1, t))
      BY <1>5, SimplyKept, MappingAdded
    <2> QED
      BY <1>5, <2>1, AddDraftSound DEF Items
  <1> HIDE DEF p2
  <1>8. Links => /\ Linked(p2, wronged, loads) /\ p2.new = new
                 /\ p2.made = page.made /\ t \in p2.topics
    BY <1>5, <1>6, <1>7, KeptLinked DEF Kept, KeptBut, TopicsSame, NodesSame
  <1>9. Sound(p3)
    BY <1>7, renderTopicSound
  <1>10. Links => Linked(p3, wronged, loads) /\ p3.new = new
    <2> SUFFICES ASSUME Links PROVE Linked(p3, wronged, loads) /\ p3.new = new
      OBVIOUS
    <2>1. \A l \in loads : l.of # t
      BY <1>1, PrivateNotLoaded DEF Private
    <2>2. TopicToDraw(p2, wronged, loads, t)
      BY <1>1, <1>8, <2>1 DEF TopicToDraw
    <2>3. Linked(renderTopic(p2, t), wronged, loads) /\ renderTopic(p2, t).new = p2.new
      BY <1>7, <1>8, <2>2, renderTopicLinked
    <2> QED
      BY <1>8, <2>3
  <1> HIDE DEF p3
  <1>11. Sound(p4) /\ Kept(p3, p4)
    <2> DEFINE o == p3.out \cup {<<"create", t>>}
    <2>1. DOMAIN p3 = Fields
      BY <1>9 DEF Sound
    <2>2. p4 = IF p3.threw THEN p3 ELSE [p3 EXCEPT !.out = o]
      OBVIOUS
    <2> HIDE DEF o, p4
    <2>3. Sound([p3 EXCEPT !.out = o]) /\ Kept(p3, [p3 EXCEPT !.out = o]) /\ Kept(p3, p3)
      BY <1>9, <2>1, OutSound, SimplyKept
    <2> QED
      BY <1>9, <2>2, <2>3
  <1> HIDE DEF p4, P
  <1>12. Links => Linked(p4, wronged, loads) /\ \A x \in p4.new : Private(x)
    <2> SUFFICES ASSUME Links
                 PROVE  Linked(p4, wronged, loads) /\ \A x \in p4.new : Private(x)
      OBVIOUS
    <2>1. Linked(p4, wronged, loads)
      BY <1>9, <1>10, <1>11, KeptLinked
    <2>2. p4.new = page.new \cup {t}
      BY <1>10, <1>11 DEF Kept, KeptBut
    <2> QED
      BY <1>1, <2>1, <2>2 DEF Links, NewIsFresh, Private
  <1>13. Carried(p4)
    BY <1>11, <1>12, LinkedCarried
  <1> QED
    BY <1>1, <1>2, <1>11, <1>13, UserTurnEnds

\* Synapse.createSynapseLocally, wherever it throws.
LEMMA CreateSynapseKeeps ==
    ASSUME Inv, CreateSynapse
    PROVE  Inv' /\ (Links => Links')
  <1> DEFINE Out(q, s) == IF {Ends[s][1], Ends[s][2]} \cap q.new # {} THEN q
                          ELSE [q EXCEPT !.out = @ \cup {<<"create", s>>}]
             P(s) == Then(Then(Then(AddSynapse([page EXCEPT !.new = @ \cup {s}], s),
                                    LAMBDA q : AddDraft(q, s)),
                               LAMBDA q : renderSynapse(q, s, q.node[Ends[s][1]], q.node[Ends[s][2]])),
                          LAMBDA q : Out(q, s))
  <1>1. PICK s \in Synapses \cap Own :
          /\ Fresh(s) /\ page.edge[s] = None
          /\ {Ends[s][1], Ends[s][2]} \subseteq page.topics
          /\ UserTurn(P(s))
    BY DEF CreateSynapse
  <1> DEFINE new == page.new \cup {s}
             p0 == [page EXCEPT !.new = new]
             p1 == AddSynapse(p0, s)
             p2 == IF p1.threw THEN p1 ELSE AddDraft(p1, s)
             n1 == p2.node[Ends[s][1]]
             n2 == p2.node[Ends[s][2]]
             p3 == IF p2.threw THEN p2 ELSE renderSynapse(p2, s, n1, n2)
             p4 == IF p3.threw THEN p3 ELSE Out(p3, s)
  <1>2. P(s) = p4
    BY DEF Then
  <1>3. Sound(p0)
    <2>1. new \subseteq Items
      BY DEF Inv, Sound, DataSound, Items
    <2>2. Sound(page) /\ page.mappers \subseteq {Me, Other}
      BY DEF Inv, Sound, DataSound
    <2> HIDE DEF new
    <2> QED
      BY <2>1, <2>2, DataGrows
  <1>4. Links => /\ Linked(p0, wronged, loads) /\ p0.new = new
                 /\ p0.topics = page.topics /\ p0.edge = page.edge
    <2> HIDE DEF new
    <2> QED
      BY NewLinked DEF Inv, Links, TopicsSame, SynapsesSame
  <1> HIDE DEF p0
  <1>5. Sound(p1) /\ DOMAIN p1 = Fields
    BY <1>3, AddSynapseSound DEF Sound
  <1>6. Links => /\ Linked(p1, wronged, loads) /\ p1.new = new
                 /\ p1.topics = page.topics /\ s \in p1.syns /\ p1.edge[s] = None
    BY <1>1, <1>3, <1>4, AddSynapseLinked DEF TopicsSame
  <1> HIDE DEF p1
  <1>7. Sound(p2) /\ Kept(p1, p2) /\ (p2.threw \/ HasMapping(p2, s))
    <2>1. /\ Kept(p1, p1) /\ Kept(p1, AddDraft(p1, s))
          /\ HasMapping(AddDraft(p1, s), s)
      BY <1>5, SimplyKept, MappingAdded
    <2> QED
      BY <1>5, <2>1, AddDraftSound DEF Items
  <1> HIDE DEF p2
  <1>8. Links => /\ Linked(p2, wronged, loads) /\ p2.new = new
                 /\ p2.topics = page.topics /\ s \in p2.syns /\ p2.edge[s] = None
    BY <1>5, <1>6, <1>7, KeptLinked DEF Kept, KeptBut, TopicsSame, SynapsesSame
  <1>9. Sound(p3)
    <2>1. Ends[s][1] \in Topics /\ Ends[s][2] \in Topics
      BY PageAssumption
    <2>2. n1 \in NodeObject \cup {None} /\ n2 \in NodeObject \cup {None}
      BY <1>7, <2>1 DEF Sound, GraphSound
    <2> QED
      BY <1>7, <2>2, renderSynapseSound
  <1>10. Links => Linked(p3, wronged, loads) /\ p3.new = new
    <2> SUFFICES ASSUME Links PROVE Linked(p3, wronged, loads) /\ p3.new = new
      OBVIOUS
    <2>1. \A l \in loads : l.of # s
      BY <1>1, PrivateNotLoaded DEF Private
    <2>2. Drawable(p2, wronged, n1) /\ Drawable(p2, wronged, n2)
      <3>1. Ends[s][1] \in p2.topics /\ Ends[s][2] \in p2.topics
        BY <1>1, <1>8
      <3> QED
        BY <1>7, <1>8, <3>1, DrawnAsIs
    <2> HIDE DEF n1, n2
    <2>3. ASSUME ~p2.threw
          PROVE  /\ Linked(renderSynapse(p2, s, n1, n2), wronged, loads)
                 /\ renderSynapse(p2, s, n1, n2).new = p2.new
      <3>1. SynapseToDraw(p2, wronged, loads, s)
        BY <1>7, <1>8, <2>1, <2>3 DEF SynapseToDraw
      <3> QED
        BY <1>7, <1>8, <2>2, <3>1, renderSynapseLinked
    <2> QED
      BY <1>8, <2>3
  <1> HIDE DEF p3
  <1>11. Sound(p4) /\ Kept(p3, p4)
    <2> DEFINE o == p3.out \cup {<<"create", s>>}
    <2>1. DOMAIN p3 = Fields
      BY <1>9 DEF Sound
    <2>2. p4 = p3 \/ p4 = [p3 EXCEPT !.out = o]
      OBVIOUS
    <2> HIDE DEF o, p4
    <2>3. Sound([p3 EXCEPT !.out = o]) /\ Kept(p3, [p3 EXCEPT !.out = o]) /\ Kept(p3, p3)
      BY <1>9, <2>1, OutSound, SimplyKept
    <2> QED
      BY <1>9, <2>2, <2>3
  <1> HIDE DEF p4, P
  <1>12. Links => Linked(p4, wronged, loads) /\ \A x \in p4.new : Private(x)
    <2> SUFFICES ASSUME Links
                 PROVE  Linked(p4, wronged, loads) /\ \A x \in p4.new : Private(x)
      OBVIOUS
    <2>1. Linked(p4, wronged, loads)
      BY <1>9, <1>10, <1>11, KeptLinked
    <2>2. p4.new = page.new \cup {s}
      BY <1>10, <1>11 DEF Kept, KeptBut
    <2> QED
      BY <1>1, <2>1, <2>2 DEF Links, NewIsFresh, Private
  <1>13. Carried(p4)
    BY <1>11, <1>12, LinkedCarried
  <1> QED
    BY <1>1, <1>2, <1>11, <1>13, UserTurnEnds

\* Every turn of the user.
LEMMA UserKeeps ==
    ASSUME Inv, User
    PROVE  Inv' /\ (Links => Links')
  <1>1. ASSUME ToggleMetacode PROVE Inv' /\ (Links => Links')
    <2>1. PICK m \in page.filters : UserTurn(toggleMetacode(page, m))
      BY <1>1 DEF ToggleMetacode
    <2>2. Sound(toggleMetacode(page, m)) /\ Kept(page, toggleMetacode(page, m))
      BY toggleMetacodeSound DEF Inv
    <2>3. Carried(toggleMetacode(page, m))
      BY <2>2, KeptCarried DEF Inv
    <2> QED
      BY <2>1, <2>2, <2>3, UserTurnEnds
  <1> QED
    BY <1>1, ClicksKeep, ShowSynapseKeeps, SelectionTurnsKeep, CreateTopicKeeps,
       CreateSynapseKeeps DEF User

-----------------------------------------------------------------------------
\* The page as it is loaded, and the invariant.

\* The initial states satisfy both invariants.
LEMMA Start ==
    ASSUME Init
    PROVE  Inv /\ Links
  <1>1. PICK X \in Contents, mappers \in {{Me}, {Me, Other}} :
          LET xs == SetToSeq(X)
              rows == [i \in DOMAIN xs |-> Row(i, xs[i], Owner(xs[i]))]
          IN /\ page = Launched(Range(rows), mappers)
             /\ table = rows
             /\ live = DOMAIN xs
             /\ born = X
             /\ held = {} /\ stream = <<>> /\ loads = {} /\ wronged = {}
    BY DEF Init
  <1> DEFINE xs == SetToSeq(X)
             rows == [i \in DOMAIN xs |-> Row(i, xs[i], Owner(xs[i]))]
  <1>2. /\ page = Launched(Range(table), mappers) /\ table = rows /\ live = DOMAIN xs
        /\ born = X /\ held = {} /\ stream = <<>> /\ loads = {} /\ wronged = {}
    BY <1>1
  <1>3. X \subseteq Items /\ IsFiniteSet(X)
    <2>1. X \subseteq Items
      BY DEF Contents
    <2>2. IsFiniteSet(Items)
      BY PageAssumption, FS_Union DEF Items
    <2> QED
      BY <2>1, <2>2, FS_Subset
  <1>4. Sound(page) /\ ~page.threw /\ page.new = {} /\ Linked(page, wronged, loads)
    BY <1>2, LaunchedSound
  <1>5. xs \in Seq(X)
    BY <1>3, SequenceOf
  <1>6. DOMAIN xs = 1..Len(xs) /\ Len(xs) \in Nat
    BY <1>5, LenProperties
  <1>7. rows \in Seq(Rows)
    <2> DEFINE n == Len(xs)
               g(i) == Row(i, xs[i], Owner(xs[i]))
    <2>1. \A i \in 1..n : g(i) \in Rows
      <3> SUFFICES ASSUME NEW i \in 1..n PROVE g(i) \in Rows
        OBVIOUS
      <3>1. xs[i] \in Items /\ i \in Nat
        BY <1>3, <1>5, <1>6, ElementOfSeq
      <3>2. Owner(xs[i]) \in {Me, Other}
        BY OwnerType
      <3> QED
        BY <3>1, <3>2 DEF Row, Rows
    <2>2. n \in Nat /\ rows = [i \in 1..n |-> g(i)]
      BY <1>6
    <2> HIDE DEF rows, n, g
    <2>3. [i \in 1..n |-> g(i)] \in Seq(Rows)
      BY <2>1, <2>2, IsASeq
    <2> QED
      BY <2>2, <2>3
  <1>8. DOMAIN rows = DOMAIN xs
    OBVIOUS
  <1> HIDE DEF xs, rows
  <1>9. <<>> \in Seq(Broadcasts)
    BY EmptySeq
  <1>10. MapSound
    BY <1>2, <1>7, <1>8, <1>9 DEF MapSound
  <1>11. Inv
    BY <1>2, <1>3, <1>4, <1>10 DEF Inv
  <1>12. Len(stream) = 0
    BY <1>2, EmptySeq
  <1>13. LoadsNameRows /\ BroadcastsNameRows /\ LoadedOnce /\ NewIsFresh
    BY <1>2, <1>4, <1>12 DEF LoadsNameRows, BroadcastsNameRows, LoadedOnce, NewIsFresh, In
  <1> QED
    BY <1>4, <1>11, <1>13 DEF Links

\* The invariant is inductive.
THEOREM Invariance == Spec => []Inv
  <1>1. Init => Inv
    BY Start
  <1>2. Inv /\ [Next]_vars => Inv'
    <2> SUFFICES ASSUME Inv, [Next]_vars PROVE Inv'
      OBVIOUS
    <2>1. CASE Environment
      BY <2>1, EnvironmentKeeps
    <2>2. CASE Answers \/ Page
      BY <2>2, ServingKeeps
    <2>3. CASE User
      BY <2>3, UserKeeps
    <2>4. CASE UNCHANGED vars
      <3>1. UNCHANGED <<page, table, live, held, born, stream, loads, wronged>>
        BY <2>4 DEF vars
      <3>2. Sound(page)' /\ ~page'.threw
        BY <3>1, PageStays DEF Inv
      <3>3. MapSound'
        BY <3>1 DEF Inv, MapSound
      <3> QED
        BY <3>1, <3>2, <3>3 DEF Inv
    <2> QED
      BY <2>1, <2>2, <2>3, <2>4 DEF Next
  <1> QED
    BY <1>1, <1>2, PTL DEF Spec

\* What is drawn, what is listed and what is loaded go together at all times.
THEOREM LinksHold == Spec => []Links
  <1>1. Init => Links
    BY Start
  <1>2. Inv /\ Links /\ [Next]_vars => Links'
    <2> SUFFICES ASSUME Inv, Links, [Next]_vars PROVE Links'
      OBVIOUS
    <2>1. CASE Environment
      BY <2>1, EnvironmentLinks
    <2>2. CASE Answers \/ Page
      BY <2>2, ServingLinks
    <2>3. CASE User
      BY <2>3, UserKeeps
    <2>4. CASE UNCHANGED vars
      <3>1. /\ page' = page /\ table' = table /\ born' = born /\ stream' = stream
            /\ loads' = loads /\ wronged' = wronged
        BY <2>4 DEF vars
      <3>2. Kept(page, page')
        <4>1. DOMAIN page = Fields
          BY DEF Inv, Sound
        <4>2. Kept(page, page)
          BY <4>1, SimplyKept
        <4> QED
          BY <3>1, <4>2
      <3>3. StreamFollows
        BY <3>1 DEF StreamFollows
      <3> QED
        BY <3>1, <3>2, <3>3, PageKeptLinks
    <2> QED
      BY <2>1, <2>2, <2>3, <2>4 DEF Next
  <1> QED
    BY <1>1, <1>2, Invariance, PTL DEF Spec

\* The variables of the page keep their types.
THEOREM TypeCorrect == Spec => []TypeOK
  <1>1. Inv => TypeOK
    <2> SUFFICES ASSUME Inv PROVE TypeOK
      OBVIOUS
    <2>1. Sound(page) /\ ~page.threw /\ MapSound
      BY DEF Inv
    <2>2. DataSound(page) /\ GraphSound(page) /\ SelectionSound(page) /\ FilterSound(page)
      BY <2>1 DEF Sound
    <2>3. DOMAIN page.edges = 1..Len(page.edges)
      BY <2>2, LenProperties DEF GraphSound
    <2>4. Range(page.selE) \subseteq DOMAIN page.edges
      BY <2>2, <2>3, InIsRange DEF SelectionSound
    <2>5. \A t \in Topics : page.node[t] \in NodeObject \cup {None}
      BY <2>2 DEF GraphSound
    <2>6. \A s \in Synapses : page.edge[s] \in DOMAIN page.edges \cup {None}
      BY <2>2, <2>3 DEF GraphSound
    <2>7. page.filters \subseteq Metacodes
      BY <2>2, OfferedAreMetacodes DEF DataSound, FilterSound
    <2>8. \A k \in DOMAIN stream : stream[k][1] \in {"added", "removed"} /\ stream[k][2] \in Items
      <3> SUFFICES ASSUME NEW k \in DOMAIN stream
                   PROVE  stream[k][1] \in {"added", "removed"} /\ stream[k][2] \in Items
        OBVIOUS
      <3>1. stream[k] \in Broadcasts
        BY <2>1, LenProperties, ElementOfSeq DEF MapSound
      <3> QED
        BY <3>1 DEF Broadcasts, Removals
    <2>9. \A l \in loads : l.wait \cup l.got \subseteq {"model", "mapping", "mapper"}
      BY DEF Inv, Loads, Wanted
    <2>10. page.adj \subseteq DOMAIN page.edges
      BY <2>2, <2>3 DEF GraphSound
    <2>11. born \subseteq Items /\ wronged \subseteq Items
      BY DEF Inv
    <2> QED
      BY <2>1, <2>2, <2>4, <2>5, <2>6, <2>7, <2>8, <2>9, <2>10, <2>11
      DEF TypeOK, DataSound, GraphSound, SelectionSound, FilterSound, MapSound, Rows
  <1> QED
    BY <1>1, Invariance, PTL

\* What the user will remove or delete is drawn as selected, each item once, and as
\* long as nothing slipped out of the list, all that is drawn so is in it.
THEOREM SelectionIsWhatIsDrawn == Spec => []SelectionIsDrawn
  <1>1. Inv => SelectionIsDrawn
    <2> SUFFICES ASSUME Inv PROVE SelectionIsDrawn
      OBVIOUS
    <2>1. SelectionSound(page)
      BY DEF Inv, Sound
    <2>2. In(page.selN) = Range(page.selN)
      BY <2>1, InIsRange DEF SelectionSound
    <2>3. /\ Cardinality(Range(page.selN)) = Len(page.selN)
          /\ Cardinality(Range(page.selE)) = Len(page.selE)
      BY <2>1, OnceCounts DEF SelectionSound
    <2> QED
      BY <2>1, <2>2, <2>3 DEF SelectionSound, SelectionIsDrawn
  <1> QED
    BY <1>1, Invariance, PTL

\* The filter box offers the metacodes of the topics the page holds, and those it
\* shows are among them, each once.
THEOREM FilterOffersTheMetacodes == Spec => []FilterIsOffered
  <1>1. Inv => FilterIsOffered
    <2> SUFFICES ASSUME Inv PROVE FilterIsOffered
      OBVIOUS
    <2>1. FilterSound(page)
      BY DEF Inv, Sound
    <2>2. In(page.visible) = Range(page.visible)
      BY <2>1, InIsRange DEF FilterSound
    <2>3. Cardinality(Range(page.visible)) = Len(page.visible)
      BY <2>1, OnceCounts DEF FilterSound
    <2> QED
      BY <2>1, <2>2, <2>3 DEF FilterSound, FilterIsOffered
  <1> QED
    BY <1>1, Invariance, PTL

\* The two lists that an edge of the graph has of synapses and their mappings, spliced
\* by one index, go together, and an edge lists what is drawn as it.
THEOREM EdgesListTheirSynapses == Spec => []EdgesMatchSynapses
  <1>1. Inv /\ Links => EdgesMatchSynapses
    <2> SUFFICES ASSUME Inv, Links, NEW e \in DOMAIN page.edges
                 PROVE  LET syns == page.edges[e].syns
                            maps == page.edges[e].maps
                        IN /\ Len(maps) = Len(syns)
                           /\ \A i \in DOMAIN syns : maps[i] = syns[i] \/ syns[i] \in wronged
                           /\ \A s \in page.syns : page.edge[s] = e => Contains(syns, s)
                           /\ page.edges[e].shown = 0 \/ page.edges[e].shown < Len(syns)
      BY DEF EdgesMatchSynapses
    <2> DEFINE syns == page.edges[e].syns
    <2>1. Sound(page) /\ DrawnIsListed(page) /\ ListedIsDrawn(page, wronged)
      BY DEF Inv, Links, Linked, SynapsesLinked
    <2>2. /\ page.edges \in Seq(Edge)
          /\ \A f \in 1..Len(page.edges) : EdgeSound(page.edges[f])
      BY <2>1 DEF Sound, GraphSound
    <2>3. e \in 1..Edges(page) /\ EdgeSound(page.edges[e])
      BY <2>2, LenProperties DEF Edges
    <2>4. syns \in Seq(Synapses) /\ DOMAIN syns = 1..Len(syns)
      BY <2>1, <2>3, ListsOfEdge
    <2>5. \A i \in DOMAIN syns : page.edges[e].maps[i] = syns[i] \/ syns[i] \in wronged
      BY <2>1, <2>3, <2>4 DEF ListedIsDrawn, ListedWell
    <2>6. \A s \in page.syns : page.edge[s] = e => Contains(syns, s)
      <3> SUFFICES ASSUME NEW s \in page.syns, page.edge[s] = e PROVE Contains(syns, s)
        OBVIOUS
      <3>1. e # None
        BY <2>3, PageAssumption
      <3>2. s \in In(syns)
        BY <2>1, <3>1 DEF DrawnIsListed
      <3> HIDE DEF syns
      <3> QED
        BY <2>4, <3>2, InIsRange
    <2> QED
      BY <2>3, <2>5, <2>6 DEF EdgeSound
  <1> QED
    BY <1>1, Invariance, LinksHold, PTL

\* A topic is drawn once, but while a drawing of it fades out: the broadcast of a topic
\* that the page itself has made is not taken for somebody else's.
THEOREM TopicsAreDrawnOnce == Spec => []DrawnOnce
  <1>1. Inv /\ Links => DrawnOnce
    <2> SUFFICES ASSUME Inv, Links, NEW n \in page.graph, NEW m \in page.graph,
                        n[1] = m[1], n # m
                 PROVE  Fading(n[1]) \/ n[1] \in wronged
      BY DEF DrawnOnce
    <2>1. /\ Numbered(page) /\ UnsavedOrFading(page, wronged) /\ UnderCidOnly(page, wronged)
          /\ page.graph \subseteq NodeObject /\ page.timers \in Seq(SUBSET PageKey)
      BY DEF Inv, Sound, GraphSound, Links, Linked, TopicsLinked
    <2>2. n[1] \in Topics /\ n[2] \in BOOLEAN /\ m[2] \in BOOLEAN
      BY <2>1 DEF NodeObject
    <2>3. n[2] # m[2]
      BY <2>1 DEF Numbered, Key
    <2>4. ASSUME NEW a \in page.graph, NEW b \in page.graph, a[1] = n[1], b[1] = n[1],
                 a[2] = TRUE, b[2] = FALSE
          PROVE  Fading(n[1]) \/ n[1] \in wronged
      <3>1. CASE Unsaved(page, n[1])
        BY <2>1, <2>4, <3>1 DEF UnderCidOnly
      <3>2. CASE {Key(a)} \in In(page.timers)
        <4>1. PICK k \in 1..Len(page.timers) : page.timers[k] = {Key(a)}
          BY <3>2 DEF In
        <4>2. k \in DOMAIN page.timers
          BY <2>1, LenProperties
        <4>3. Key(a) \in Keys(n[1])
          BY <2>4 DEF Key, Keys
        <4> QED
          BY <2>2, <4>1, <4>2, <4>3 DEF Fading, IsTopic
      <3> QED
        BY <2>1, <2>4, <3>1, <3>2 DEF UnsavedOrFading
    <2>5. \/ n[2] = TRUE /\ m[2] = FALSE
          \/ n[2] = FALSE /\ m[2] = TRUE
      BY <2>2, <2>3
    <2> QED
      BY <2>4, <2>5
  <1> QED
    BY <1>1, Invariance, LinksHold, PTL

=============================================================================
