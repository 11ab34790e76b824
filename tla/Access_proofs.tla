----------------------------- MODULE Access_proofs -----------------------------
(***************************************************************************)
(* Theorems about access to a map and FollowService, for any number of     *)
(* threads, turns of people and settings.                                  *)
(*                                                                         *)
(* First the types, then ApprovedHaveAccess.  That one is strengthened to  *)
(* say who is at fault while it does not hold: an approval about to create *)
(* the user_map, or a removal that will destroy the request as well.  Then *)
(* FollowMatchesAccess: while one thread at most is at work, what its call *)
(* has loaded is what the rows hold; and UnfollowIsKept, from the order in *)
(* which the rows of one pair are inserted and muted.                      *)
(***************************************************************************)
EXTENDS Access, SequenceFacts

-----------------------------------------------------------------------------
\* Types.

\* Min of module FiniteSetsExt is defined for every set of naturals.
LEMMA MinIsMember ==
    ASSUME NEW S \in SUBSET Nat, S # {}
    PROVE  Min(S) \in S
  BY LowestMember DEF Min

LEMMA RowTypes ==
    /\ Row = [muted : Column, reasons : [Reason -> Column]]
    /\ \A c \in Column : NewRow(c) \in Row
    /\ NoCall \in CallType
  BY DEF Row, NewRow, Column, NoCall, CallType, Reason

\* Where a call can stand.
Point == {"idle", "auto", "find", "create", "insert", "validate", "write",
          "reason", "mark", "returned", "raised"}

LEMMA WithTypes ==
    ASSUME NEW c \in CallType, NEW pc \in Point
    PROVE  /\ WithPc(c, pc) \in CallType
           /\ \A id \in Nat, row \in Row : WithRow(c, id, row, pc) \in CallType
           /\ \A id \in Nat, row \in Row : WithNewRow(c, id, row, pc) \in CallType
           /\ \A b \in BOOLEAN : WithCrossed(c, b) \in CallType
  BY DEF CallType, WithPc, WithRow, WithNewRow, WithCrossed, Point

LEMMA WithRowTypes ==
    ASSUME NEW row \in Row, NEW value \in Column
    PROVE  /\ WithMuted(row, value) \in Row
           /\ \A r \in Reason : WithReason(row, r, value) \in Row
  BY DEF Row, WithMuted, WithReason

LEMMA CalledType ==
    ASSUME NEW op \in {"follow", "unfollow", "remove"}, NEW reason \in Reason
    PROVE  Called(op, reason) \in CallType
  BY RowTypes DEF Called, Entry, NoCall, CallType

LEMMA FollowInitType == FollowInit => FollowTypeOK
  BY RowTypes DEF FollowInit, FollowTypeOK, Ids

\* A step that leaves the rows alone and gives thread t a call of the right type.
LEMMA SameRowsType ==
    ASSUME FollowTypeOK, SameRows, NEW t \in Thread,
           NEW c \in CallType, call' = [call EXCEPT ![t] = c]
    PROVE  FollowTypeOK'
  BY DEF FollowTypeOK, SameRows, Ids

LEMMA InsertingType ==
    ASSUME FollowTypeOK, NEW t \in Thread, NEW muted \in Column, NEW pc \in Point,
           Inserting(t, muted, pc)
    PROVE  FollowTypeOK'
  <1>1. inserted + 1 \in Nat /\ NewRow(muted) \in Row /\ call[t] \in CallType
    BY RowTypes DEF FollowTypeOK
  <1>2. WithNewRow(call[t], inserted + 1, NewRow(muted), pc) \in CallType
    BY <1>1, WithTypes
  <1>3. call' \in [Thread -> CallType]
    BY <1>2 DEF Inserting, FollowTypeOK
  <1>4. /\ Ids' = Ids \cup {inserted'}
        /\ \A i \in Ids' : follows'[i] = IF i = inserted' THEN NewRow(muted) ELSE follows[i]
    BY DEF Inserting, Ids
  <1> QED
    BY <1>1, <1>3, <1>4 DEF Inserting, FollowTypeOK

\* The rows and calls keep their types whatever step of a call is taken.
LEMMA CallStepType ==
    ASSUME FollowTypeOK, NEW t \in Thread, CallStep(t) \/ Unmark(t)
    PROVE  FollowTypeOK'
  <1>1. /\ call[t] \in CallType
        /\ call[t].id \in Nat
        /\ call[t].row \in Row
        /\ call[t].reason \in Reason
    BY DEF FollowTypeOK, CallType
  <1>2. \A pc \in Point : SameRows /\ Goto(t, pc) => FollowTypeOK'
    BY <1>1, WithTypes, SameRowsType DEF Goto
  <1>3. \A i \in Ids : follows[i] \in Row /\ i \in Nat
    BY DEF FollowTypeOK
  <1>4. CASE ShouldAutoFollow(t)
    <2> DEFINE pc == IF MayAutoFollow(call[t].reason) THEN "find" ELSE "returned"
    <2>1. pc \in Point
      BY DEF Point
    <2>2. call' = [call EXCEPT ![t] = WithCrossed(WithPc(call[t], pc), FALSE)] /\ SameRows
      BY <1>4 DEF ShouldAutoFollow
    <2> HIDE DEF pc
    <2>3. WithCrossed(WithPc(call[t], pc), FALSE) \in CallType
      BY <1>1, <2>1, WithTypes
    <2> QED
      BY <2>2, <2>3, SameRowsType
  <1>5. CASE Find(t)
    <2>1. CASE Ids = {}
      BY <1>2, <1>5, <2>1 DEF Find, Point
    <2>2. CASE Ids # {}
      <3> DEFINE pc == IF Calling(t, "remove") THEN "reason" ELSE "validate"
      <3>1. FirstId \in Ids
        BY <2>2, MinIsMember DEF FirstId, FollowTypeOK
      <3>2. pc \in Point
        BY DEF Point
      <3>3. call' = [call EXCEPT ![t] = WithRow(call[t], FirstId, follows[FirstId], pc)] /\ SameRows
        BY <1>5, <2>2 DEF Find
      <3> HIDE DEF pc
      <3>4. WithRow(call[t], FirstId, follows[FirstId], pc) \in CallType
        BY <1>1, <1>3, <3>1, <3>2, WithTypes
      <3> QED
        BY <3>3, <3>4, SameRowsType
    <2> QED
      BY <2>1, <2>2
  <1>6. CASE Create(t)
    BY <1>2, <1>6 DEF Create, Point
  <1>7. CASE Insert(t)
    BY <1>7, InsertingType DEF Insert, Column, Point
  <1>8. CASE Validate(t)
    BY <1>2, <1>8 DEF Validate, Point
  <1>9. CASE Write(t)
    <2> DEFINE muted == IF Calling(t, "unfollow") THEN "t" ELSE "f"
               id == call[t].id
               next == IF Calling(t, "unfollow") THEN "returned" ELSE "reason"
    <2>1. muted \in Column /\ next \in Point
      BY DEF Column, Point
    <2>2. CASE id = 0
      <3>1. Inserting(t, muted, next)
        BY <1>9, <2>2 DEF Write
      <3> QED
        BY <2>1, <3>1, InsertingType
    <2>3. CASE id # 0
      <3>1. /\ follows' = follows \/ (id \in Ids /\ follows' = [follows EXCEPT ![id] = WithMuted(follows[id], muted)])
            /\ call' = [p \in Thread |->
                          IF p = t THEN WithPc(call[t], next)
                          ELSE WithCrossed(call[p], call[p].crossed \/ Calling(t, "unfollow"))]
            /\ inserted' = inserted
        BY <1>9, <2>3 DEF Write
      <3>2. \A p \in Thread : call[p] \in CallType /\ (call[p].crossed \/ Calling(t, "unfollow")) \in BOOLEAN
        BY DEF FollowTypeOK, CallType
      <3> HIDE DEF muted, next, id
      <3>3. \A p \in Thread :
              WithCrossed(call[p], call[p].crossed \/ Calling(t, "unfollow")) \in CallType
        BY <3>2, WithTypes DEF Point
      <3>4. WithPc(call[t], next) \in CallType
        BY <1>1, <2>1, WithTypes
      <3>5. call' \in [Thread -> CallType]
        BY <3>1, <3>3, <3>4
      <3>6. id \in Ids => WithMuted(follows[id], muted) \in Row
        BY <1>3, <2>1, WithRowTypes
      <3>7. Ids' = Ids /\ \A i \in Ids : follows'[i] \in Row
        BY <1>3, <3>1, <3>6 DEF Ids
      <3> QED
        BY <3>1, <3>5, <3>7 DEF FollowTypeOK
    <2> QED
      BY <2>2, <2>3
  <1>10. CASE ReadReason(t)
    <2> DEFINE id == call[t].id
               row == IF call[t].fresh THEN call[t].row ELSE follows[id]
               pc == IF Calling(t, "follow") /\ row.reasons[call[t].reason] = "t"
                     THEN "returned" ELSE "mark"
    <2>1. CASE ~call[t].fresh /\ id \notin Ids
      BY <1>2, <1>10, <2>1 DEF ReadReason, Point
    <2>2. CASE ~(~call[t].fresh /\ id \notin Ids)
      <3>1. pc \in Point
        BY DEF Point
      <3>2. row \in Row
        BY <1>1, <1>3, <2>2
      <3>3. call' = [call EXCEPT ![t] = WithRow(call[t], id, row, pc)] /\ SameRows
        BY <1>10, <2>2 DEF ReadReason
      <3> HIDE DEF pc, row
      <3>4. WithRow(call[t], id, row, pc) \in CallType
        BY <1>1, <3>1, <3>2, WithTypes
      <3> QED
        BY <3>3, <3>4, SameRowsType
    <2> QED
      BY <2>1, <2>2
  <1>11. CASE Mark(t)
    <2> DEFINE id == call[t].id
    <2>1. id \in Ids => WithReason(follows[id], call[t].reason, "t") \in Row
      BY <1>1, <1>3, WithRowTypes DEF Column
    <2>2. Ids' = Ids /\ \A i \in Ids : follows'[i] \in Row
      BY <1>3, <1>11, <2>1 DEF Mark, Ids
    <2>3. WithPc(call[t], "returned") \in CallType
      BY <1>1, WithTypes DEF Point
    <2> QED
      BY <1>11, <2>2, <2>3 DEF Mark, Goto, FollowTypeOK
  <1>12. CASE Unmark(t)
    <2> DEFINE id == call[t].id
    <2>1. id \in Ids => WithReason(follows[id], call[t].reason, "f") \in Row
      BY <1>1, <1>3, WithRowTypes DEF Column
    <2>2. Ids' \subseteq Ids /\ \A i \in Ids' : follows'[i] \in Row
      BY <1>3, <1>12, <2>1 DEF Unmark, Ids
    <2> QED
      BY <1>12, <2>2, RowTypes DEF Unmark, FollowTypeOK
  <1> QED
    BY <1>4, <1>5, <1>6, <1>7, <1>8, <1>9, <1>10, <1>11, <1>12 DEF CallStep

-----------------------------------------------------------------------------
\* What a thread is at, with what it has loaded, fits where it is.
Sound(w, c) ==
    /\ w \in WorkType
    /\ w.op = "idle" => w.pc = "idle"
    /\ w.pc = "save" => w.op \in {"approve", "deny"} /\ w.turn \in Turn
    /\ w.pc = "share" => w.turn \in Turn
    /\ w.pc \in {"list", "destroy", "forget"} => w.op = "revoke"
    /\ w.pc = "job" => w.op \in {"shared", "contributed"} /\ w.id \in Turn
    /\ c.op = "none" => c.pc = "idle"
    /\ c.op # "none" => w.pc \in {"call", "job", "destroy"}
    /\ c.op # "none" /\ w.pc = "destroy" => w.todo # {}

WorkOK ==
    /\ work \in [Thread -> WorkType]
    /\ \A t \in Thread : Sound(work[t], call[t])

RowsOK ==
    /\ DOMAIN requests \subseteq Turn
    /\ \A r \in DOMAIN requests : requests[r] \in Answer
    /\ userMaps \subseteq Turn

\* A job in the table has a run left.
JobsOK ==
    /\ jobs \subseteq Job
    /\ \A j \in jobs : j.attempts < MaxAttempts

HistoryOK ==
    /\ turns \in 0..MaxTurns
    /\ told \subseteq Turn
    /\ overlapped \in BOOLEAN
    /\ failed \in BOOLEAN

IInv == FollowTypeOK /\ WorkOK /\ RowsOK /\ JobsOK /\ HistoryOK

LEMMA IInvTypeOK == IInv => TypeOK
  BY DEF IInv, WorkOK, RowsOK, JobsOK, HistoryOK, Sound, TypeOK

LEMMA IdleSound ==
    /\ Idle \in WorkType
    /\ Sound(Idle, NoCall)
    /\ \A c : c.op = "none" /\ c.pc = "idle" => Sound(Idle, c)
  BY MaxTurnsAssumption, MaxAttemptsAssumption
  DEF Idle, Task, WorkType, Answer, Unanswered, Sound, NoCall

LEMMA InitInvariant == Init => IInv
  <1> SUFFICES ASSUME Init PROVE IInv
    OBVIOUS
  <1>1. FollowTypeOK
    BY FollowInitType DEF Init
  <1>2. WorkOK
    BY IdleSound DEF Init, FollowInit, WorkOK
  <1>3. RowsOK /\ JobsOK
    BY DEF Init, RowsOK, JobsOK
  <1>4. turns = 0 /\ told = {} /\ overlapped = FALSE /\ failed = FALSE
    BY DEF Init
  <1>5. turns \in 0..MaxTurns /\ told \subseteq Turn
    BY <1>4, MaxTurnsAssumption
  <1>6. HistoryOK
    BY <1>4, <1>5, Zenon DEF HistoryOK
  <1> QED
    BY <1>1, <1>2, <1>3, <1>6 DEF IInv

\* A step in which only thread t goes on, to w and c.
LEMMA OneThread ==
    ASSUME IInv, NEW t \in Thread, NEW w, NEW c,
           work' = [work EXCEPT ![t] = w], call' = [call EXCEPT ![t] = c], Sound(w, c)
    PROVE  WorkOK'
  <1>1. /\ DOMAIN work = Thread /\ DOMAIN call = Thread
        /\ w \in WorkType
        /\ \A p \in Thread : work[p] \in WorkType /\ Sound(work[p], call[p])
    BY DEF IInv, WorkOK, FollowTypeOK, Sound
  <1>2. \A p \in Thread : work'[p] = (IF p = t THEN w ELSE work[p])
    BY <1>1
  <1>3. \A p \in Thread : call'[p] = (IF p = t THEN c ELSE call[p])
    BY <1>1
  <1>4. \A p \in Thread : Sound(work'[p], call'[p])
    <2> TAKE p \in Thread
    <2>1. CASE p = t
      BY <1>2, <1>3, <2>1
    <2>2. CASE p # t
      BY <1>1, <1>2, <1>3, <2>2
    <2> QED
      BY <2>1, <2>2
  <1>5. work' \in [Thread -> WorkType]
    BY <1>1
  <1> QED
    BY <1>4, <1>5 DEF WorkOK

\* The same when the thread's call does not change.
LEMMA OneThreadNoCall ==
    ASSUME IInv, NEW t \in Thread, NEW w,
           work' = [work EXCEPT ![t] = w], call' = call, Sound(w, call[t])
    PROVE  WorkOK'
  <1>1. call' = [call EXCEPT ![t] = call[t]]
    BY DEF IInv, FollowTypeOK
  <1> QED
    BY <1>1, OneThread

\* A thread that is free has no call.
LEMMA FreeThread ==
    ASSUME IInv, NEW t \in Thread
    PROVE  /\ work[t].op = "idle" => call[t].op = "none" /\ call[t].pc = "idle"
           /\ work[t].pc \notin {"call", "job", "destroy"} => call[t].op = "none" /\ call[t].pc = "idle"
  BY DEF IInv, WorkOK, Sound

LEMMA SameFollows == ASSUME IInv, UNCHANGED followVars PROVE FollowTypeOK'
  BY DEF IInv, followVars, FollowTypeOK, Ids

\* What people start: the bound on turns leaves room for one more.
LEMMA VisitFacts ==
    ASSUME IInv, NEW t \in Thread, NEW w, Visit(t, w)
    PROVE  /\ turns + 1 \in Turn /\ turns' = turns + 1 /\ turns' \in 0..MaxTurns
           /\ work' = [work EXCEPT ![t] = w]
           /\ overlapped' \in BOOLEAN
           /\ call[t].op = "none" /\ call[t].pc = "idle"
  BY FreeThread, MaxTurnsAssumption DEF Visit, Begin, Busy, Turn, IInv, HistoryOK
\* The records people's requests begin with.
LEMMA TaskFields ==
    \A op, pc, turn, id, row, attempts :
        LET w == Task(op, pc, turn, id, row, attempts)
        IN  w.op = op /\ w.pc = pc /\ w.turn = turn /\ w.id = id /\ w.todo = {}
  BY DEF Task

LEMMA TaskType ==
    ASSUME NEW op \in {"approve", "deny", "grant", "revoke", "follow", "unfollow",
                       "shared", "contributed"},
           NEW pc \in {"save", "share", "list", "call", "job"},
           NEW turn \in {0} \cup Turn, NEW id \in {0} \cup Turn, NEW row \in Answer,
           NEW attempts \in 0..MaxAttempts
    PROVE  Task(op, pc, turn, id, row, attempts) \in WorkType
  BY MaxTurnsAssumption DEF WorkType, Task, Turn

LEMMA Zeros == 0 \in {0} \cup Turn /\ 0 \in 0..MaxAttempts /\ Unanswered \in Answer
  BY MaxAttemptsAssumption DEF Answer, Unanswered

LEMMA Beginnings ==
    ASSUME NEW c, c.op = "none", c.pc = "idle", NEW turn \in Turn
    PROVE  /\ \A op \in {"approve", "deny"}, r \in Turn, row \in Answer :
                Sound(Task(op, "save", turn, r, row, 0), c)
           /\ Sound(Task("grant", "share", turn, 0, Unanswered, 0), c)
           /\ Sound(Task("revoke", "list", 0, 0, Unanswered, 0), c)
  <1>1. ASSUME NEW op \in {"approve", "deny"}, NEW r \in Turn, NEW row \in Answer
        PROVE  Sound(Task(op, "save", turn, r, row, 0), c)
    <2>1. Task(op, "save", turn, r, row, 0) \in WorkType
      BY TaskType, Zeros
    <2> QED
      BY <2>1, TaskFields DEF Sound
  <1>2. Sound(Task("grant", "share", turn, 0, Unanswered, 0), c)
    <2>1. Task("grant", "share", turn, 0, Unanswered, 0) \in WorkType
      BY TaskType, Zeros
    <2> QED
      BY <2>1, TaskFields DEF Sound
  <1>3. Sound(Task("revoke", "list", 0, 0, Unanswered, 0), c)
    <2>1. Task("revoke", "list", 0, 0, Unanswered, 0) \in WorkType
      BY TaskType, Zeros
    <2> QED
      BY <2>1, TaskFields DEF Sound
  <1> QED
    BY <1>1, <1>2, <1>3

LEMMA CallBeginnings ==
    ASSUME NEW c, c.op # "none"
    PROVE  /\ \A op \in {"follow", "unfollow"} : Sound(Task(op, "call", 0, 0, Unanswered, 0), c)
           /\ \A kind \in {"shared", "contributed"}, id \in Turn, n \in 0..MaxAttempts :
                Sound(Task(kind, "job", 0, id, Unanswered, n), c)
  <1>1. ASSUME NEW op \in {"follow", "unfollow"}
        PROVE  Sound(Task(op, "call", 0, 0, Unanswered, 0), c)
    <2>1. Task(op, "call", 0, 0, Unanswered, 0) \in WorkType
      BY TaskType, Zeros
    <2> QED
      BY <2>1, TaskFields DEF Sound
  <1>2. ASSUME NEW kind \in {"shared", "contributed"}, NEW id \in Turn, NEW n \in 0..MaxAttempts
        PROVE  Sound(Task(kind, "job", 0, id, Unanswered, n), c)
    <2>1. Task(kind, "job", 0, id, Unanswered, n) \in WorkType
      BY TaskType, Zeros
    <2> QED
      BY <2>1, TaskFields DEF Sound
  <1> QED
    BY <1>1, <1>2

LEMMA CalledOp == \A op, reason : Called(op, reason).op = op
  BY DEF Called, NoCall

\* Where a request goes on.
LEMMA Continuations ==
    ASSUME NEW w, NEW c, Sound(w, c)
    PROVE  /\ w.pc = "save" /\ w.op = "approve" => Sound([w EXCEPT !.pc = "share"], c)
           /\ \A S \in SUBSET Turn :
                /\ w.pc = "list" => Sound([w EXCEPT !.todo = S, !.pc = "destroy"], c)
                /\ w.pc = "destroy" /\ w.todo = {} => Sound([w EXCEPT !.todo = S, !.pc = "forget"], c)
           /\ w.pc = "forget" => \A r : Sound([w EXCEPT !.todo = w.todo \ {r}], c)
           /\ w.pc = "destroy" => \A r : Sound([w EXCEPT !.todo = w.todo \ {r}], NoCall)
  <1>1. w.pc = "save" /\ w.op = "approve" => Sound([w EXCEPT !.pc = "share"], c)
    BY DEF Sound, WorkType
  <1>2. ASSUME NEW S \in SUBSET Turn, w.pc = "list"
        PROVE  Sound([w EXCEPT !.todo = S, !.pc = "destroy"], c)
    BY <1>2 DEF Sound, WorkType
  <1>3. ASSUME NEW S \in SUBSET Turn, w.pc = "destroy", w.todo = {}
        PROVE  Sound([w EXCEPT !.todo = S, !.pc = "forget"], c)
    BY <1>3 DEF Sound, WorkType
  <1>4. ASSUME NEW r, w.pc = "forget"
        PROVE  Sound([w EXCEPT !.todo = w.todo \ {r}], c)
    BY <1>4 DEF Sound, WorkType
  <1>5. ASSUME NEW r, w.pc = "destroy"
        PROVE  Sound([w EXCEPT !.todo = w.todo \ {r}], NoCall)
    BY <1>5 DEF Sound, WorkType, NoCall
  <1> QED
    BY <1>1, <1>2, <1>3, <1>4, <1>5

LEMMA WithFields ==
    ASSUME NEW c \in CallType, NEW pc
    PROVE  /\ WithPc(c, pc).op = c.op
           /\ WithCrossed(WithPc(c, pc), FALSE).op = c.op
           /\ \A b : WithCrossed(c, b).op = c.op /\ WithCrossed(c, b).pc = c.pc
  BY DEF CallType, WithPc, WithCrossed

LEMMA WithRowFields ==
    ASSUME NEW c \in CallType, NEW pc, NEW id, NEW row
    PROVE  WithRow(c, id, row, pc).op = c.op /\ WithNewRow(c, id, row, pc).op = c.op
  BY DEF CallType, WithRow, WithNewRow

LEMMA OneCall ==
    ASSUME FollowTypeOK, NEW t \in Thread, NEW c, c.op = call[t].op,
           call' = [call EXCEPT ![t] = c]
    PROVE  /\ \A p \in Thread : call'[p].op = call[p].op
           /\ \A p \in Thread : p # t => call'[p].pc = call[p].pc
  BY DEF FollowTypeOK

\* A step of a call leaves what the calls are, and where other threads are in theirs.
LEMMA CallStepSound ==
    ASSUME FollowTypeOK, NEW t \in Thread, CallStep(t)
    PROVE  /\ call[t].pc # "idle"
           /\ \A p \in Thread : call'[p].op = call[p].op
           /\ \A p \in Thread : p # t => call'[p].pc = call[p].pc
  <1>1. \A p \in Thread : call[p] \in CallType
    BY DEF FollowTypeOK
  <1>2. call[t].pc # "idle"
    BY DEF CallStep, ShouldAutoFollow, Find, Create, Insert, Validate, Write, ReadReason, Mark, At
  <1> DEFINE Kept == /\ \A p \in Thread : call'[p].op = call[p].op
                     /\ \A p \in Thread : p # t => call'[p].pc = call[p].pc
  <1> SUFFICES Kept
    BY <1>2
  <1>5. \A pc : Goto(t, pc) => Kept
    <2> TAKE pc
    <2>1. WithPc(call[t], pc).op = call[t].op
      BY <1>1, WithFields
    <2> QED
      BY <2>1, OneCall DEF Goto
  <1>6. \A muted, pc : Inserting(t, muted, pc) => Kept
    <2> TAKE muted, pc
    <2>1. WithNewRow(call[t], inserted', NewRow(muted), pc).op = call[t].op
      BY <1>1, WithRowFields
    <2> QED
      BY <2>1, OneCall DEF Inserting
  <1>7. \A id, row, pc : call' = [call EXCEPT ![t] = WithRow(call[t], id, row, pc)] => Kept
    <2> TAKE id, row, pc
    <2>1. WithRow(call[t], id, row, pc).op = call[t].op
      BY <1>1, WithRowFields
    <2> QED
      BY <2>1, OneCall
  <1>8. CASE ShouldAutoFollow(t)
    <2>1. PICK pc : call' = [call EXCEPT ![t] = WithCrossed(WithPc(call[t], pc), FALSE)]
      BY <1>8 DEF ShouldAutoFollow
    <2>2. WithCrossed(WithPc(call[t], pc), FALSE).op = call[t].op
      BY <1>1, WithFields
    <2> QED
      BY <2>1, <2>2, OneCall
  <1>12. CASE Write(t)
    <2> DEFINE next == IF Calling(t, "unfollow") THEN "returned" ELSE "reason"
    <2>1. CASE call[t].id # 0
      <3>1. call' = [p \in Thread |->
                       IF p = t THEN WithPc(call[t], next)
                       ELSE WithCrossed(call[p], call[p].crossed \/ Calling(t, "unfollow"))]
        BY <1>12, <2>1 DEF Write
      <3> HIDE DEF next
      <3>2. \A p \in Thread : p # t =>
              call'[p] = WithCrossed(call[p], call[p].crossed \/ Calling(t, "unfollow"))
        BY <3>1
      <3>3. call'[t] = WithPc(call[t], next)
        BY <3>1
      <3>4. WithPc(call[t], next).op = call[t].op
        BY <1>1, WithFields
      <3>5. \A p \in Thread : \A b : WithCrossed(call[p], b).op = call[p].op
                              /\ WithCrossed(call[p], b).pc = call[p].pc
        BY <1>1, WithFields
      <3> QED
        BY <3>2, <3>3, <3>4, <3>5
    <2>2. CASE call[t].id = 0
      BY <1>6, <1>12, <2>2 DEF Write
    <2> QED
      BY <2>1, <2>2
  <1> HIDE DEF Kept
  <1>9. CASE Find(t)
    BY <1>5, <1>7, <1>9 DEF Find
  <1>10. CASE Create(t) \/ Validate(t) \/ Mark(t)
    BY <1>5, <1>10 DEF Create, Validate, Mark
  <1>11. CASE Insert(t)
    BY <1>6, <1>11 DEF Insert
  <1>13. CASE ReadReason(t)
    BY <1>5, <1>7, <1>13 DEF ReadReason
  <1> QED
    BY <1>8, <1>9, <1>10, <1>11, <1>12, <1>13 DEF CallStep

-----------------------------------------------------------------------------
\* Every step keeps the invariant.
LEMMA AskForAccessStep ==
    ASSUME IInv, NEW t \in Thread, AskForAccess(t) PROVE IInv'
  <1>1. Visit(t, Idle) /\ UNCHANGED <<followVars, userMaps, jobs, told, failed>>
    BY DEF AskForAccess
  <1>2. FollowTypeOK' /\ call' = call
    BY <1>1, SameFollows DEF followVars
  <1>3. WorkOK'
    BY <1>1, <1>2, VisitFacts, IdleSound, OneThreadNoCall
  <1>4. RowsOK'
    BY <1>1, VisitFacts DEF AskForAccess, IInv, RowsOK, Answer, Unanswered
  <1> QED
    BY <1>1, <1>2, <1>3, <1>4, VisitFacts DEF IInv, JobsOK, HistoryOK

LEMMA ContributeStep ==
    ASSUME IInv, NEW t \in Thread, Contribute(t) PROVE IInv'
  <1>1. Visit(t, Idle) /\ UNCHANGED <<followVars, requests, userMaps, told, failed>>
    BY DEF Contribute
  <1>2. FollowTypeOK' /\ call' = call
    BY <1>1, SameFollows DEF followVars
  <1>3. WorkOK'
    BY <1>1, <1>2, VisitFacts, IdleSound, OneThreadNoCall
  <1>4. JobsOK'
    BY <1>1, VisitFacts, MaxAttemptsAssumption DEF Contribute, IInv, JobsOK, Job
  <1> QED
    BY <1>1, <1>2, <1>3, <1>4, VisitFacts DEF IInv, RowsOK, HistoryOK

LEMMA RespondStep ==
    ASSUME IInv, NEW t \in Thread, NEW op \in {"approve", "deny"}, Respond(t, op) PROVE IInv'
  <1>1. PICK r \in DOMAIN requests :
          Visit(t, Task(op, "save", turns + 1, r, requests[r], 0))
    BY DEF Respond
  <1>2. UNCHANGED <<followVars, requests, userMaps, jobs, told, failed>>
    BY DEF Respond
  <1>3. FollowTypeOK' /\ call' = call
    BY <1>2, SameFollows DEF followVars
  <1>4. r \in Turn /\ requests[r] \in Answer
    BY DEF IInv, RowsOK
  <1> DEFINE w == Task(op, "save", turns + 1, r, requests[r], 0)
  <1>5. Visit(t, w)
    BY <1>1
  <1>6. turns + 1 \in Turn /\ call[t].op = "none" /\ call[t].pc = "idle"
    BY <1>1, VisitFacts
  <1>7. Sound(w, call[t])
    BY <1>4, <1>6, Beginnings
  <1> HIDE DEF w
  <1>8. WorkOK'
    BY <1>3, <1>5, <1>7, VisitFacts, OneThreadNoCall
  <1> QED
    BY <1>2, <1>3, <1>5, <1>8, VisitFacts DEF IInv, RowsOK, JobsOK, HistoryOK
LEMMA SaveStep ==
    ASSUME IInv, NEW t \in Thread, Save(t) PROVE IInv'
  <1>1. /\ work[t].pc = "save"
        /\ UNCHANGED <<followVars, userMaps, jobs, turns, told, overlapped, failed>>
        /\ Sound(work[t], call[t])
    BY DEF Save, Stage, IInv, WorkOK
  <1>2. FollowTypeOK' /\ call' = call
    BY <1>1, SameFollows DEF followVars
  <1>3. WorkOK'
    <2>1. CASE work[t].op = "approve"
      <3>1. work' = [work EXCEPT ![t] = [work[t] EXCEPT !.pc = "share"]]
        BY <2>1 DEF Save
      <3>2. Sound([work[t] EXCEPT !.pc = "share"], call[t])
        BY <1>1, <2>1, Continuations
      <3> QED
        BY <1>2, <3>1, <3>2, OneThreadNoCall
    <2>2. CASE work[t].op # "approve"
      <3>1. work' = [work EXCEPT ![t] = Idle]
        BY <2>2 DEF Save
      <3>2. call[t].op = "none" /\ call[t].pc = "idle"
        BY <1>1, FreeThread
      <3>3. Sound(Idle, call[t])
        BY <3>2, IdleSound
      <3> QED
        BY <1>2, <3>1, <3>3, OneThreadNoCall
    <2> QED
      BY <2>1, <2>2
  <1>4. RowsOK'
    <2> DEFINE W(row) == Written(row, work[t].row, work[t].op = "approve")
    <2>1. \A row \in Answer : W(row) \in Answer
      BY DEF Answer, Written
    <2>2. DOMAIN requests' = DOMAIN requests
      BY DEF Save
    <2>3. \A r \in DOMAIN requests : requests'[r] = requests[r] \/ requests'[r] = W(requests[r])
      BY DEF Save
    <2> HIDE DEF W
    <2> QED
      BY <1>1, <2>1, <2>2, <2>3 DEF IInv, RowsOK
  <1> QED
    BY <1>1, <1>2, <1>3, <1>4 DEF IInv, JobsOK, HistoryOK

LEMMA ShareStep ==
    ASSUME IInv, NEW t \in Thread, Share(t) PROVE IInv'
  <1>1. /\ work[t].pc = "share" /\ work[t].turn \in Turn
        /\ UNCHANGED <<followVars, requests, turns, told, overlapped, failed>>
        /\ work' = [work EXCEPT ![t] = Idle]
    BY DEF Share, Stage, End, IInv, WorkOK, Sound
  <1>2. FollowTypeOK' /\ call' = call
    BY <1>1, SameFollows DEF followVars
  <1>3. WorkOK'
    <2>1. call[t].op = "none" /\ call[t].pc = "idle"
      BY <1>1, FreeThread
    <2>2. Sound(Idle, call[t])
      BY <2>1, IdleSound
    <2> QED
      BY <1>1, <1>2, <2>2, OneThreadNoCall
  <1>4. RowsOK'
    BY <1>1 DEF Share, IInv, RowsOK
  <1>5. JobsOK'
    BY <1>1, MaxAttemptsAssumption DEF Share, SharedJob, Job, IInv, JobsOK
  <1> QED
    BY <1>1, <1>2, <1>3, <1>4, <1>5 DEF IInv, HistoryOK

LEMMA GrantStep ==
    ASSUME IInv, NEW t \in Thread, Grant(t) \/ Revoke(t) PROVE IInv'
  <1>1. UNCHANGED <<followVars, requests, userMaps, jobs, told, failed>>
    BY DEF Grant, Revoke
  <1>2. FollowTypeOK' /\ call' = call
    BY <1>1, SameFollows DEF followVars
  <1>3. \A w : Visit(t, w) /\ Sound(w, call[t]) => WorkOK'
    BY <1>2, VisitFacts, OneThreadNoCall
  <1>4. PICK w : Visit(t, w) /\ Sound(w, call[t])
    <2>1. CASE Grant(t)
      <3>1. Visit(t, Task("grant", "share", turns + 1, 0, Unanswered, 0))
        BY <2>1 DEF Grant
      <3> QED
        BY <3>1, VisitFacts, Beginnings
    <2>2. CASE Revoke(t)
      <3>1. Visit(t, Task("revoke", "list", 0, 0, Unanswered, 0))
        BY <2>2 DEF Revoke
      <3> QED
        BY <3>1, VisitFacts, Beginnings
    <2> QED
      BY <2>1, <2>2
  <1> QED
    BY <1>1, <1>2, <1>3, <1>4, VisitFacts DEF IInv, RowsOK, JobsOK, HistoryOK

LEMMA PressStep ==
    ASSUME IInv, NEW t \in Thread, NEW op \in {"follow", "unfollow"}, Press(t, op) PROVE IInv'
  <1> DEFINE w == Task(op, "call", 0, 0, Unanswered, 0)
             c == Called(op, "followed")
  <1>1. /\ Visit(t, w)
        /\ call' = [call EXCEPT ![t] = c]
        /\ UNCHANGED <<follows, inserted, requests, userMaps, jobs, told, failed>>
    BY DEF Press
  <1>2. c \in CallType /\ c.op # "none"
    BY CalledType, CalledOp DEF Reason
  <1>3. Sound(w, c)
    BY <1>2, CallBeginnings
  <1> HIDE DEF w, c
  <1>4. FollowTypeOK'
    BY <1>1, <1>2, SameRowsType DEF IInv, SameRows
  <1>5. WorkOK'
    BY <1>1, <1>3, VisitFacts, OneThread
  <1> QED
    BY <1>1, <1>4, <1>5, VisitFacts DEF IInv, RowsOK, JobsOK, HistoryOK

\* The steps of a removal.
LEMMA RevokeStep ==
    ASSUME IInv, NEW t \in Thread,
           ListUserMaps(t) \/ ListRequests(t) \/ DestroyRequest(t) \/ Revoked(t)
    PROVE  IInv'
  <1>1. /\ Sound(work[t], call[t]) /\ work[t] \in WorkType
        /\ UNCHANGED <<followVars, userMaps, jobs, turns, told, overlapped, failed>>
    BY DEF ListUserMaps, ListRequests, DestroyRequest, Revoked, accessVars, IInv, WorkOK
  <1>2. FollowTypeOK' /\ call' = call
    BY <1>1, SameFollows DEF followVars
  <1>3. RowsOK'
    <2>1. DOMAIN requests' \subseteq DOMAIN requests
          /\ \A r \in DOMAIN requests' : requests'[r] = requests[r]
      BY DEF ListUserMaps, ListRequests, DestroyRequest, Revoked, accessVars
    <2> QED
      BY <1>1, <2>1 DEF IInv, RowsOK
  <1>4. PICK w : work' = [work EXCEPT ![t] = w] /\ Sound(w, call[t])
    <2>1. CASE ListUserMaps(t)
      <3>1. work' = [work EXCEPT ![t] = [work[t] EXCEPT !.todo = userMaps, !.pc = "destroy"]]
        BY <2>1 DEF ListUserMaps, IInv, WorkOK, WorkType
      <3>2. userMaps \in SUBSET Turn /\ work[t].pc = "list"
        BY <2>1 DEF ListUserMaps, Stage, IInv, RowsOK
      <3> QED
        BY <1>1, <3>1, <3>2, Continuations
    <2>2. CASE ListRequests(t)
      <3>1. work' = [work EXCEPT ![t] = [work[t] EXCEPT !.todo = OldRequests, !.pc = "forget"]]
        BY <2>2 DEF ListRequests, IInv, WorkOK, WorkType
      <3>2. OldRequests \in SUBSET Turn /\ work[t].pc = "destroy" /\ work[t].todo = {}
        BY <2>2 DEF ListRequests, OldRequests, Stage, IInv, RowsOK
      <3> QED
        BY <1>1, <3>1, <3>2, Continuations
    <2>3. CASE DestroyRequest(t)
      <3> DEFINE r == Min(work[t].todo)
      <3>1. work' = [work EXCEPT ![t] = [work[t] EXCEPT !.todo = work[t].todo \ {r}]]
        BY <2>3 DEF DestroyRequest, IInv, WorkOK, WorkType
      <3>2. work[t].pc = "forget"
        BY <2>3 DEF DestroyRequest, Stage
      <3> HIDE DEF r
      <3> QED
        BY <1>1, <3>1, <3>2, Continuations
    <2>4. CASE Revoked(t)
      <3>1. work' = [work EXCEPT ![t] = Idle] /\ work[t].pc = "forget"
        BY <2>4 DEF Revoked, End, Stage
      <3>2. call[t].op = "none" /\ call[t].pc = "idle"
        BY <3>1, FreeThread
      <3>3. Sound(Idle, call[t])
        BY <3>2, IdleSound
      <3> QED
        BY <3>1, <3>3
    <2> QED
      BY <2>1, <2>2, <2>3, <2>4
  <1>5. WorkOK'
    BY <1>2, <1>4, OneThreadNoCall
  <1> QED
    BY <1>1, <1>2, <1>3, <1>5 DEF IInv, JobsOK, HistoryOK
LEMMA DestroyUserMapStep ==
    ASSUME IInv, NEW t \in Thread, DestroyUserMap(t) PROVE IInv'
  <1> DEFINE c == Called("remove", "shared_on")
  <1>1. /\ work[t].pc = "destroy" /\ work[t].todo # {}
        /\ call' = [call EXCEPT ![t] = c]
        /\ UNCHANGED <<follows, inserted, accessVars, work>>
        /\ Sound(work[t], call[t])
    BY DEF DestroyUserMap, Stage, IInv, WorkOK
  <1>2. c \in CallType /\ c.op # "none"
    BY CalledType, CalledOp DEF Reason
  <1> HIDE DEF c
  <1>3. FollowTypeOK'
    BY <1>1, <1>2, SameRowsType DEF IInv, SameRows
  <1>4. Sound(work[t], c)
    BY <1>1, <1>2 DEF Sound
  <1>5. work' = [work EXCEPT ![t] = work[t]]
    BY <1>1 DEF IInv, WorkOK
  <1>6. WorkOK'
    BY <1>1, <1>4, <1>5, OneThread
  <1> QED
    BY <1>1, <1>3, <1>6 DEF accessVars, IInv, RowsOK, JobsOK, HistoryOK

LEMMA DestroyedUserMapStep ==
    ASSUME IInv, NEW t \in Thread, DestroyedUserMap(t) PROVE IInv'
  <1> DEFINE id == Min(work[t].todo)
             w == [work[t] EXCEPT !.todo = work[t].todo \ {id}]
  <1>1. /\ work[t].pc = "destroy"
        /\ call' = [call EXCEPT ![t] = NoCall]
        /\ Unmark(t) \/ SameRows
        /\ userMaps' = userMaps \ {id}
        /\ UNCHANGED <<requests, jobs, turns, told, overlapped, failed>>
        /\ Sound(work[t], call[t])
    BY DEF DestroyedUserMap, Unmark, SameRows, Stage, IInv, WorkOK
  <1>2. work' = [work EXCEPT ![t] = w]
    BY DEF DestroyedUserMap, IInv, WorkOK, WorkType
  <1>3. Sound(w, NoCall)
    BY <1>1, Continuations
  <1> HIDE DEF w
  <1>4. WorkOK'
    BY <1>1, <1>2, <1>3, OneThread
  <1>5. FollowTypeOK'
    BY <1>1, CallStepType, SameRowsType, RowTypes DEF IInv
  <1> QED
    BY <1>1, <1>4, <1>5 DEF IInv, RowsOK, JobsOK, HistoryOK

\* A thread that is done with its call and its work.
LEMMA FinishedStep ==
    ASSUME IInv, NEW t \in Thread, Pressed(t) \/ Fail(t) \/ JobDone(t) \/ JobFails(t)
    PROVE  IInv'
  <1>1. /\ call' = [call EXCEPT ![t] = NoCall]
        /\ work' = [work EXCEPT ![t] = Idle]
        /\ SameRows
        /\ UNCHANGED <<requests, userMaps, turns, overlapped>>
        /\ failed' \in BOOLEAN
    BY DEF Pressed, Fail, JobDone, JobFails, End, SameRows, accessVars, IInv, HistoryOK
  <1>2. FollowTypeOK'
    BY <1>1, SameRowsType, RowTypes DEF IInv
  <1>3. WorkOK'
    BY <1>1, IdleSound, OneThread
  <1>4. work[t] \in WorkType /\ Sound(work[t], call[t])
    BY DEF IInv, WorkOK
  <1>5. told' \subseteq Turn
    BY <1>4 DEF Pressed, Fail, JobDone, JobFails, Stage, accessVars, IInv, HistoryOK, Sound
  <1>6. JobsOK'
    <2>1. CASE jobs' = jobs
      BY <2>1 DEF IInv, JobsOK
    <2>2. CASE jobs' # jobs
      <3> DEFINE j == [kind |-> work[t].op, id |-> work[t].id, attempts |-> work[t].attempts]
      <3>1. work[t].pc = "job" /\ jobs' = jobs \cup {j} /\ work[t].attempts < MaxAttempts
        BY <2>2 DEF Pressed, Fail, JobDone, JobFails, Stage, Again, accessVars
      <3>2. j \in Job /\ j.attempts < MaxAttempts
        BY <1>4, <3>1 DEF Sound, WorkType, Job
      <3> HIDE DEF j
      <3> QED
        BY <3>1, <3>2 DEF IInv, JobsOK
    <2> QED
      BY <2>1, <2>2
  <1> QED
    BY <1>1, <1>2, <1>3, <1>5, <1>6 DEF IInv, RowsOK, HistoryOK

LEMMA TakeJobStep ==
    ASSUME IInv, NEW t \in Thread, TakeJob(t) PROVE IInv'
  <1>1. PICK j \in jobs :
          /\ jobs' = jobs \ {j}
          /\ \/ UNCHANGED <<followVars, work, overlapped>>
             \/ /\ Begin(t, Task(j.kind, "job", 0, j.id, Unanswered, j.attempts + 1))
                /\ call' = [call EXCEPT ![t] = Called("follow",
                               IF j.kind = "shared" THEN "shared_on" ELSE "contributed")]
                /\ UNCHANGED <<follows, inserted>>
    BY DEF TakeJob
  <1>2. UNCHANGED <<requests, userMaps, turns, told, failed>>
    BY DEF TakeJob
  <1>3. JobsOK'
    BY <1>1 DEF IInv, JobsOK
  <1>4. CASE UNCHANGED <<followVars, work, overlapped>>
    <2>1. FollowTypeOK' /\ call' = call
      BY <1>4, SameFollows DEF followVars
    <2> QED
      BY <1>2, <1>3, <1>4, <2>1 DEF IInv, WorkOK, RowsOK, HistoryOK
  <1>5. CASE ~UNCHANGED <<followVars, work, overlapped>>
    <2> DEFINE w == Task(j.kind, "job", 0, j.id, Unanswered, j.attempts + 1)
               reason == IF j.kind = "shared" THEN "shared_on" ELSE "contributed"
               c == Called("follow", reason)
    <2>1. j.kind \in {"shared", "contributed"} /\ j.id \in Turn /\ j.attempts + 1 \in 0..MaxAttempts
      BY MaxAttemptsAssumption DEF IInv, JobsOK, Job
    <2>2. c \in CallType /\ c.op # "none"
      BY CalledType, CalledOp DEF Reason
    <2>3. Sound(w, c)
      BY <2>1, <2>2, CallBeginnings
    <2>4. /\ work' = [work EXCEPT ![t] = w]
          /\ call' = [call EXCEPT ![t] = c]
          /\ SameRows
          /\ overlapped' \in BOOLEAN
      BY <1>1, <1>5 DEF Begin, SameRows, IInv, HistoryOK
    <2> HIDE DEF w, c, reason
    <2>5. FollowTypeOK'
      BY <2>2, <2>4, SameRowsType DEF IInv
    <2>6. WorkOK'
      BY <2>3, <2>4, OneThread
    <2> QED
      BY <1>2, <1>3, <2>4, <2>5, <2>6 DEF IInv, RowsOK, HistoryOK
  <1> QED
    BY <1>1, <1>4, <1>5

LEMMA ServiceStepStep ==
    ASSUME IInv, NEW t \in Thread, ServiceStep(t) PROVE IInv'
  <1>1. CallStep(t) /\ UNCHANGED <<accessVars, work>>
    BY DEF ServiceStep
  <1>2. FollowTypeOK /\ FollowTypeOK'
    BY <1>1, CallStepType DEF IInv
  <1>3. /\ call[t].pc # "idle"
        /\ \A p \in Thread : call'[p].op = call[p].op
        /\ \A p \in Thread : p # t => call'[p].pc = call[p].pc
    BY <1>1, <1>2, CallStepSound
  <1>4. work' = work
    BY <1>1
  <1>5. \A p \in Thread : Sound(work'[p], call'[p])
    <2> TAKE p \in Thread
    <2>1. Sound(work[p], call[p]) /\ call'[p].op = call[p].op
      BY <1>3 DEF IInv, WorkOK
    <2>2. call'[p].op = "none" => call'[p].pc = "idle"
      BY <1>3, <2>1 DEF IInv, WorkOK, Sound
    <2> QED
      BY <1>4, <2>1, <2>2 DEF Sound
  <1> QED
    BY <1>1, <1>2, <1>5 DEF accessVars, IInv, WorkOK, RowsOK, JobsOK, HistoryOK

LEMMA NextInvariant == IInv /\ [Next]_vars => IInv'
  <1> SUFFICES ASSUME IInv, [Next]_vars PROVE IInv'
    OBVIOUS
  <1>1. CASE UNCHANGED vars
    <2>1. FollowTypeOK' /\ call' = call
      BY <1>1, SameFollows DEF vars, followVars
    <2> QED
      BY <1>1, <2>1 DEF vars, accessVars, IInv, WorkOK, RowsOK, JobsOK, HistoryOK
  <1>2. CASE Next
    <2> PICK t \in Thread : Arrive(t) \/ Proceed(t)
      BY <1>2 DEF Next
    <2>1. CASE Arrive(t)
      BY <2>1, AskForAccessStep, ContributeStep, RespondStep, GrantStep, PressStep DEF Arrive
    <2>2. CASE Proceed(t)
      BY <2>2, SaveStep, ShareStep, RevokeStep, DestroyUserMapStep, DestroyedUserMapStep,
         FinishedStep, TakeJobStep, ServiceStepStep
      DEF Proceed
    <2> QED
      BY <2>1, <2>2
  <1> QED
    BY <1>1, <1>2

LEMMA Invariance == Spec => []IInv
  BY InitInvariant, NextInvariant, PTL DEF Spec

\* The rows, jobs, requests and calls keep their types, and a thread is in a call of
\* the service only for work it has, for any number of threads, turns and attempts.
THEOREM TypeCorrect == Spec => []TypeOK
  BY Invariance, IInvTypeOK, PTL
-----------------------------------------------------------------------------
\* ApprovedHaveAccess.

\* Thread t is going to set right that request r is approved without a user_map.
Answerable(t, r) ==
    \/ work[t].op = "approve" /\ work[t].pc = "share"
    \/ work[t].pc = "destroy"
    \/ work[t].pc = "forget" /\ r \in work[t].todo

Covered ==
    \A r \in DOMAIN requests :
        requests[r].approved => userMaps # {} \/ \E t \in Thread : Answerable(t, r)

AInv == failed \/ Covered

LEMMA CoveredApproved == IInv /\ AInv => failed \/ ApprovedHaveAccess
  BY DEF IInv, WorkOK, Sound, AInv, Covered, Answerable, ApprovedHaveAccess

\* A step that approves nothing, keeps the user_maps, and takes no thread from a
\* place where it answers for a request.
LEMMA CoverKept ==
    ASSUME Covered,
           DOMAIN requests' \subseteq DOMAIN requests,
           \A r \in DOMAIN requests' : requests'[r].approved => requests[r].approved,
           userMaps # {} => userMaps' # {},
           \A t \in Thread : \A r \in DOMAIN requests' : Answerable(t, r) => Answerable(t, r)'
    PROVE  Covered'
  <1> SUFFICES ASSUME NEW r \in DOMAIN requests', requests'[r].approved
               PROVE  userMaps' # {} \/ \E t \in Thread : Answerable(t, r)'
    BY DEF Covered
  <1>1. userMaps # {} \/ \E t \in Thread : Answerable(t, r)
    BY DEF Covered
  <1> QED
    BY <1>1

\* Only t goes on, from where it answers for nothing.
LEMMA AnswerKept ==
    ASSUME IInv, NEW t \in Thread, NEW w, work' = [work EXCEPT ![t] = w],
           NEW r, ~Answerable(t, r) \/ Answerable(t, r)'
    PROVE  \A p \in Thread : Answerable(p, r) => Answerable(p, r)'
  BY DEF IInv, WorkOK, Answerable

LEMMA CoverStep == IInv /\ Covered /\ [Next]_vars => failed' \/ Covered'
  <1> SUFFICES ASSUME IInv, Covered, [Next]_vars, ~failed' PROVE Covered'
    BY Zenon
  <1>1. CASE UNCHANGED vars
    BY <1>1 DEF vars, accessVars, Covered, Answerable
  <1>2. CASE Next
    <2> PICK t \in Thread : Arrive(t) \/ Proceed(t)
      BY <1>2 DEF Next
    <2>1. DOMAIN work = Thread /\ work[t] \in WorkType /\ Sound(work[t], call[t])
      BY DEF IInv, WorkOK
    <2>2. ASSUME NEW w, Visit(t, w), UNCHANGED <<requests, userMaps>> PROVE Covered'
      <3>1. work' = [work EXCEPT ![t] = w] /\ work[t].op = "idle"
        BY <2>2 DEF Visit, Begin, Busy
      <3>2. \A r : ~Answerable(t, r)
        BY <2>1, <3>1 DEF Sound, Answerable
      <3> QED
        BY <2>2, <3>1, <3>2, AnswerKept, CoverKept
    <2>3. CASE AskForAccess(t)
      <3>1. /\ work' = [work EXCEPT ![t] = Idle] /\ work[t].op = "idle"
            /\ userMaps' = userMaps
            /\ requests' = [r \in DOMAIN requests \cup {turns'} |->
                               IF r = turns' THEN Unanswered ELSE requests[r]]
        BY <2>3 DEF AskForAccess, Visit, Begin, Busy
      <3>2. \A r : ~Answerable(t, r)
        BY <2>1, <3>1 DEF Sound, Answerable
      <3>3. \A r \in DOMAIN requests' : requests'[r].approved =>
               r \in DOMAIN requests /\ requests[r].approved
        BY <3>1 DEF Unanswered
      <3>4. \A r : \A p \in Thread : Answerable(p, r) => Answerable(p, r)'
        BY <3>1, <3>2, AnswerKept
      <3> QED
        BY <3>1, <3>3, <3>4 DEF Covered
    <2>4. CASE Contribute(t)
      BY <2>2, <2>4 DEF Contribute
    <2>5. ASSUME NEW op, Respond(t, op) PROVE Covered'
      BY <2>2, <2>5 DEF Respond
    <2>6. CASE Grant(t) \/ Revoke(t)
      BY <2>2, <2>6 DEF Grant, Revoke
    <2>7. ASSUME NEW op, Press(t, op) PROVE Covered'
      BY <2>2, <2>7 DEF Press
    <2>8. CASE Save(t)
      <3>1. work[t].pc = "save" /\ userMaps' = userMaps /\ DOMAIN requests' = DOMAIN requests
        BY <2>8 DEF Save, Stage
      <3>2. CASE work[t].op = "approve"
        <4>1. work'[t].op = "approve" /\ work'[t].pc = "share"
          BY <2>1, <2>8, <3>2 DEF Save, WorkType
        <4> QED
          BY <4>1 DEF Covered, Answerable
      <3>3. CASE work[t].op # "approve"
        <4>1. work' = [work EXCEPT ![t] = Idle]
          BY <2>8, <3>3 DEF Save
        <4>2. \A r : ~Answerable(t, r)
          BY <2>1, <3>1 DEF Answerable
        <4>3. \A r \in DOMAIN requests' : requests'[r].approved => requests[r].approved
          BY <2>8, <3>3 DEF Save, Written
        <4> QED
          BY <3>1, <4>1, <4>2, <4>3, AnswerKept, CoverKept
      <3> QED
        BY <3>2, <3>3
    <2>9. CASE Share(t)
      BY <2>9 DEF Share, Covered
    <2>10. CASE ListUserMaps(t)
      <3>1. /\ work' = [work EXCEPT ![t] = [work[t] EXCEPT !.todo = userMaps, !.pc = "destroy"]]
            /\ work[t].pc = "list" /\ UNCHANGED <<requests, userMaps>>
        BY <2>1, <2>10 DEF ListUserMaps, Stage, WorkType, accessVars
      <3>2. \A r : ~Answerable(t, r)
        BY <2>1, <3>1 DEF Sound, Answerable
      <3> QED
        BY <3>1, <3>2, AnswerKept, CoverKept
    <2>11. CASE DestroyUserMap(t) \/ ServiceStep(t)
      BY <2>11 DEF DestroyUserMap, ServiceStep, accessVars, Covered, Answerable
    <2>12. CASE DestroyedUserMap(t)
      <3>1. work[t].pc = "destroy" /\ work'[t].pc = "destroy"
        BY <2>1, <2>12 DEF DestroyedUserMap, Stage, WorkType
      <3> QED
        BY <3>1 DEF Covered, Answerable
    <2>13. CASE ListRequests(t)
      <3>1. work'[t].pc = "forget" /\ work'[t].todo = DOMAIN requests /\ requests' = requests
        BY <2>1, <2>13 DEF ListRequests, OldRequests, WorkType, accessVars
      <3> QED
        BY <3>1 DEF Covered, Answerable
    <2>14. CASE DestroyRequest(t)
      <3> DEFINE r0 == Min(work[t].todo)
                 w == [work[t] EXCEPT !.todo = work[t].todo \ {r0}]
      <3>1. /\ work' = [work EXCEPT ![t] = w]
            /\ work[t].pc = "forget" /\ userMaps' = userMaps
            /\ requests' = [q \in DOMAIN requests \ {r0} |-> requests[q]]
        BY <2>1, <2>14 DEF DestroyRequest, Stage, WorkType
      <3>2. w.pc = "forget" /\ w.todo = work[t].todo \ {r0}
        BY <2>1, <3>1 DEF WorkType
      <3> HIDE DEF r0, w
      <3>3. \A r \in DOMAIN requests' : Answerable(t, r) => Answerable(t, r)'
        BY <2>1, <3>1, <3>2 DEF Answerable
      <3>4. \A r \in DOMAIN requests' : \A p \in Thread : Answerable(p, r) => Answerable(p, r)'
        BY <3>1, <3>3, AnswerKept
      <3> QED
        BY <3>1, <3>4, CoverKept
    <2>15. CASE Revoked(t) \/ Pressed(t) \/ JobDone(t)
      <3>1. /\ work' = [work EXCEPT ![t] = Idle] /\ UNCHANGED <<requests, userMaps>>
            /\ work[t].pc \in {"forget", "call", "job"}
            /\ work[t].pc = "forget" => work[t].todo = {}
        BY <2>15 DEF Revoked, Pressed, JobDone, End, Stage, accessVars
      <3>2. \A r : ~Answerable(t, r)
        BY <2>1, <3>1 DEF Sound, Answerable
      <3> QED
        BY <3>1, <3>2, AnswerKept, CoverKept
    <2>16. CASE Fail(t) \/ JobFails(t)
      BY <2>16 DEF Fail, JobFails
    <2>17. CASE TakeJob(t)
      <3>1. UNCHANGED <<requests, userMaps>>
        BY <2>17 DEF TakeJob
      <3>2. CASE work' = work
        BY <3>1, <3>2 DEF Covered, Answerable
      <3>3. CASE work' # work
        <4>1. PICK w : work' = [work EXCEPT ![t] = w] /\ work[t].op = "idle"
          BY <2>17, <3>3 DEF TakeJob, Begin, Busy
        <4>2. \A r : ~Answerable(t, r)
          BY <2>1, <4>1 DEF Sound, Answerable
        <4> QED
          BY <3>1, <4>1, <4>2, AnswerKept, CoverKept
      <3> QED
        BY <3>2, <3>3
    <2>18. CASE Arrive(t)
      BY <2>3, <2>4, <2>5, <2>6, <2>7, <2>18 DEF Arrive
    <2>19. CASE Proceed(t)
      BY <2>8, <2>9, <2>10, <2>11, <2>12, <2>13, <2>14, <2>15, <2>16, <2>17, <2>19 DEF Proceed
    <2> QED
      BY <2>18, <2>19
  <1> QED
    BY <1>1, <1>2

\* Nothing makes `failed' false again.
LEMMA FailedStays == failed /\ [Next]_vars => failed'
  BY DEF Next, Arrive, Proceed, AskForAccess, Contribute, Respond, Grant, Revoke, Press, Save,
         Share, ListUserMaps, DestroyUserMap, DestroyedUserMap, ListRequests, DestroyRequest,
         Revoked, Pressed, Fail, TakeJob, JobDone, JobFails, ServiceStep, vars, accessVars

\* As long as no call of the service has raised, an approved request has a user_map
\* once no answer and no removal is under way, whatever crossed before.
THEOREM ApprovedKeepAccess == Spec => [](failed \/ ApprovedHaveAccess)
  <1>1. Init => AInv
    BY DEF Init, AInv, Covered
  <1>2. IInv /\ AInv /\ [Next]_vars => AInv'
    BY CoverStep, FailedStays DEF AInv
  <1> QED
    BY <1>1, <1>2, Invariance, CoveredApproved, PTL DEF Spec

-----------------------------------------------------------------------------
\* FollowMatchesAccess.
\*
\* As long as nothing overlaps, one thread at most is at work, and what its call has
\* loaded is what the rows hold.  The invariant then says at each place of its work
\* how far the follow and the user_maps agree.
SharedOn == \E i \in Ids : follows[i].reasons["shared_on"] = "t"

\* The job that makes an editor follow the map is still to come or under way.
Pending(id) ==
    \/ \E j \in jobs : j.kind = "shared" /\ j.id = id
    \/ \E t \in Thread : work[t].op = "shared" /\ work[t].id = id

\* The call of the service a thread is in is the one its work has made.
CallFits(w, c) ==
    /\ w.op \in {"shared", "contributed"} => w.pc = "job"
    /\ w.pc = "job" => c.op = "follow"
    /\ c.op = "follow" => (c.reason = "shared_on" <=> w.op = "shared")
    /\ w.pc = "call" => c.op \in {"follow", "unfollow"}
    /\ c.op = "remove" => c.reason = "shared_on" /\ w.pc = "destroy"
    /\ w.pc = "destroy" => c.op \in {"none", "remove"}

\* What a call has loaded is what the rows hold, and its result is in the rows.
CallSound(c) ==
    /\ c.pc # "raised"
    /\ c.pc \in {"create", "insert"} => Ids = {} /\ c.op = "follow"
    /\ c.pc \in {"validate", "write"} => c.op \in {"follow", "unfollow"}
    /\ c.pc \in {"validate", "write", "reason", "mark"} => Ids = {c.id}
    /\ c.pc \in {"validate", "write", "reason"} /\ c.fresh
          => c.row.reasons = follows[c.id].reasons
    /\ c.pc = "mark" => c.row.reasons = follows[c.id].reasons
    /\ c.pc = "auto" => c.reason \in Automatic
    /\ c.pc = "returned" /\ c.reason = "shared_on" =>
          /\ c.op = "follow" => SharedOn
          /\ c.op = "remove" => ~SharedOn

\* Between two removals of editors, those who may edit are those who follow.
EditorsFollow ==
    /\ SharedOn => userMaps # {}
    /\ \A id \in userMaps : SharedOn \/ Pending(id)

\* Thread t is where its work and its call belong together.
Fits(t) ==
    /\ CallFits(work[t], call[t])
    /\ CallSound(call[t])
    /\ work[t].op = "shared" => work[t].id \in userMaps
    /\ Stage(t, "list") => userMaps # {}
    /\ Stage(t, "destroy") => work[t].todo = userMaps /\ (userMaps = {} => ~SharedOn)

Alone ==
    /\ ~failed
    /\ \A p, q \in Thread : Busy(p) /\ Busy(q) => p = q
    /\ \A i, j \in Ids : i = j
    /\ \A t \in Thread : Fits(t)
    /\ (\A t \in Thread : ~Stage(t, "destroy")) => EditorsFollow

LEMMA AloneMatches == IInv /\ (overlapped \/ Alone) => FollowMatchesAccess
  <1> SUFFICES ASSUME IInv, ~overlapped, Alone
               PROVE  /\ AtMostOneFollow
                      /\ ~failed
                      /\ (\A t \in Thread : ~Busy(t)) /\ (\A j \in jobs : j.kind # "shared")
                         => (userMaps # {} <=> SharedOn)
    BY DEF FollowMatchesAccess, SharedOn
  <1>1. AtMostOneFollow
    <2>1. CASE Ids = {}
      BY <2>1, FS_EmptySet DEF AtMostOneFollow
    <2>2. CASE Ids # {}
      <3>1. PICK i \in Ids : Ids = {i}
        BY <2>2 DEF Alone
      <3> QED
        BY <3>1, FS_Singleton DEF AtMostOneFollow
    <2> QED
      BY <2>1, <2>2
  <1>2. ASSUME \A t \in Thread : ~Busy(t), \A j \in jobs : j.kind # "shared"
        PROVE  userMaps # {} <=> SharedOn
    <2>1. \A t \in Thread : ~Stage(t, "destroy")
      BY <1>2 DEF IInv, WorkOK, Sound, Busy, Stage
    <2>2. \A id : ~Pending(id)
      BY <1>2 DEF Busy, Pending
    <2> QED
      BY <2>1, <2>2 DEF Alone, EditorsFollow
  <1> QED
    BY <1>1, <1>2 DEF Alone

\* Only thread t is at work after the step.
LEMMA AloneKept ==
    ASSUME IInv', NEW t \in Thread, \A p \in Thread : p # t => ~Busy(p)',
           ~failed', (\A i, j \in Ids : i = j)', Fits(t)',
           ~Stage(t, "destroy")' => EditorsFollow'
    PROVE  Alone'
  <1>1. \A p \in Thread : p # t => Fits(p)'
    <2> TAKE p \in Thread
    <2> HAVE p # t
    <2>1. ~Busy(p)'
      OBVIOUS
    <2> QED
      BY <2>1 DEF IInv, WorkOK, Sound, Busy, Fits, Stage, CallFits, CallSound
  <1> QED
    BY <1>1 DEF Alone

LEMMA EditorsKept ==
    ASSUME EditorsFollow, SharedOn' <=> SharedOn, userMaps' = userMaps,
           \A id \in userMaps : Pending(id) => SharedOn \/ Pending(id)'
    PROVE  EditorsFollow'
  BY DEF EditorsFollow

\* The step that begins a piece of work finds every thread idle.
LEMMA BeginsAlone ==
    ASSUME IInv, Alone, NEW t \in Thread, NEW w, Begin(t, w), ~overlapped'
    PROVE  /\ \A p \in Thread : ~Busy(p) /\ ~Stage(p, "destroy")
           /\ work' = [work EXCEPT ![t] = w] /\ work'[t] = w
           /\ \A p \in Thread : p # t => ~Busy(p)'
           /\ EditorsFollow
           /\ \A id \in userMaps : SharedOn \/ \E j \in jobs : j.kind = "shared" /\ j.id = id
  <1>1. /\ \A p \in Thread : ~Busy(p)
        /\ work' = [work EXCEPT ![t] = w]
    BY DEF Begin
  <1>2. \A p \in Thread : ~Stage(p, "destroy") /\ work[p].op # "shared"
    BY <1>1 DEF IInv, WorkOK, Sound, Busy, Stage
  <1>3. EditorsFollow
    BY <1>2 DEF Alone
  <1>4. work'[t] = w /\ \A p \in Thread : p # t => work'[p] = work[p]
    BY <1>1 DEF IInv, WorkOK
  <1>5. \A p \in Thread : p # t => ~Busy(p)'
    BY <1>1, <1>4 DEF Busy
  <1> QED
    BY <1>1, <1>2, <1>3, <1>4, <1>5 DEF EditorsFollow, Pending

\* A person's request, while the follow and the user_maps stay as they are.
LEMMA VisitAlone ==
    ASSUME IInv, IInv', Alone, NEW t \in Thread, NEW w, Visit(t, w), ~overlapped',
           UNCHANGED <<follows, userMaps, failed>>, jobs \subseteq jobs',
           w.pc # "destroy", Fits(t)'
    PROVE  Alone'
  <1>1. Begin(t, w)
    BY DEF Visit
  <1>2. SharedOn' <=> SharedOn
    BY DEF SharedOn, Ids
  <1>3. \A id \in userMaps : Pending(id) => SharedOn \/ Pending(id)'
    <2> TAKE id \in userMaps
    <2>1. SharedOn \/ \E j \in jobs : j.kind = "shared" /\ j.id = id
      BY <1>1, BeginsAlone
    <2> QED
      BY <2>1 DEF Pending
  <1>4. EditorsFollow'
    BY <1>1, <1>2, <1>3, BeginsAlone, EditorsKept
  <1>5. (\A i, j \in Ids : i = j)' /\ ~failed'
    BY DEF Alone, Ids
  <1> QED
    BY <1>1, <1>4, <1>5, BeginsAlone, AloneKept

\* A thread that is idle again.
LEMMA IdleFitsNext ==
    ASSUME IInv', NEW t \in Thread, work'[t].op = "idle"
    PROVE  Fits(t)' /\ ~Stage(t, "destroy")'
  BY DEF IInv, WorkOK, Sound, Fits, Stage, CallFits, CallSound

\* A thread that begins with work that needs no call yet.
LEMMA TaskFits ==
    ASSUME IInv', NEW t \in Thread, call'[t].op = "none",
           work'[t].op \in {"approve", "deny", "grant", "revoke"},
           work'[t].pc \in {"save", "share", "list"},
           work'[t].pc = "list" => userMaps' # {}
    PROVE  Fits(t)'
  BY DEF IInv, WorkOK, Sound, Fits, Stage, CallFits, CallSound

\* What the calls people and jobs make begin with.
LEMMA CalledSound ==
    ASSUME NEW op \in {"follow", "unfollow", "remove"}, NEW reason \in Reason
    PROVE  /\ Called(op, reason).op = op /\ Called(op, reason).reason = reason
           /\ Called(op, reason).pc \in {"auto", "find"}
           /\ Called(op, reason).pc = "auto" => reason \in Automatic
           /\ CallSound(Called(op, reason))
  BY DEF Called, Entry, NoCall, CallSound

LEMMA ArriveAlone ==
    ASSUME IInv, IInv', Alone, NEW t \in Thread, Arrive(t), ~overlapped'
    PROVE  Alone'
  <1>1. DOMAIN work = Thread
    BY DEF IInv, WorkOK
  <1>2. CASE AskForAccess(t) \/ Contribute(t)
    <2>1. /\ Visit(t, Idle) /\ UNCHANGED <<follows, userMaps, failed>> /\ jobs \subseteq jobs'
      BY <1>2 DEF AskForAccess, Contribute, followVars
    <2>2. work'[t].op = "idle"
      BY <1>1, <2>1 DEF Visit, Begin, Idle, Task
    <2>3. Idle.pc # "destroy"
      BY DEF Idle, Task
    <2> QED
      BY <2>1, <2>2, <2>3, IdleFitsNext, VisitAlone
  <1>3. ASSUME NEW w, Visit(t, w), UNCHANGED <<followVars, userMaps, jobs, failed>>,
               w.op \in {"approve", "deny", "grant", "revoke"}, w.pc \in {"save", "share", "list"},
               w.pc = "list" => userMaps # {}
        PROVE  Alone'
    <2>1. work'[t] = w /\ call'[t].op = "none"
      BY <1>1, <1>3, FreeThread DEF Visit, Begin, Busy, followVars
    <2>2. Fits(t)'
      BY <1>3, <2>1, TaskFits
    <2> QED
      BY <1>3, <2>2, VisitAlone DEF followVars
  <1>4. ASSUME NEW op \in {"approve", "deny"}, Respond(t, op) PROVE Alone'
    BY <1>3, <1>4, TaskFields DEF Respond
  <1>5. CASE Grant(t) \/ Revoke(t)
    BY <1>3, <1>5, TaskFields DEF Grant, Revoke
  <1>6. ASSUME NEW op \in {"follow", "unfollow"}, Press(t, op) PROVE Alone'
    <2> DEFINE w == Task(op, "call", 0, 0, Unanswered, 0)
               c == Called(op, "followed")
    <2>1. /\ Visit(t, w) /\ call' = [call EXCEPT ![t] = c]
          /\ UNCHANGED <<follows, userMaps, jobs, failed>>
      BY <1>6 DEF Press
    <2>2. work'[t] = w /\ call'[t] = c
      BY <1>1, <2>1 DEF Visit, Begin, IInv, FollowTypeOK
    <2>3. w.op = op /\ w.pc = "call"
      BY TaskFields
    <2>4. c.op = op /\ c.reason = "followed" /\ c.pc = "find"
      BY DEF Called, Entry, NoCall, Automatic
    <2> HIDE DEF w, c
    <2>5. CallFits(work[t], call[t])'
      BY <2>2, <2>3, <2>4 DEF CallFits
    <2>6. CallSound(call[t])'
      BY <2>2, <2>4 DEF CallSound
    <2>7. Fits(t)'
      BY <2>2, <2>3, <2>5, <2>6 DEF Fits, Stage
    <2> QED
      BY <2>1, <2>3, <2>7, VisitAlone
  <1> QED
    BY <1>2, <1>4, <1>5, <1>6 DEF Arrive

\* What a step of a call does while no other thread is at work.
Steps(t) ==
    /\ call'[t].op = call[t].op /\ call'[t].reason = call[t].reason
    /\ (\A i, j \in Ids : i = j)'
    /\ CallSound(call[t])'
    /\ \/ SharedOn' <=> SharedOn
       \/ SharedOn' /\ call[t].op = "follow" /\ call[t].reason = "shared_on"

LEMMA CallSteps ==
    ASSUME FollowTypeOK, NEW t \in Thread, CallStep(t), \A i, j \in Ids : i = j,
           CallSound(call[t]), call[t].op # "none",
           call[t].op = "remove" => call[t].reason = "shared_on"
    PROVE  Steps(t)
  <1> DEFINE c == call[t]
  <1>1. c \in CallType /\ DOMAIN call = Thread /\ c.row \in Row /\ c.id \in Nat
    BY DEF FollowTypeOK, CallType
  <1>2. \A i \in Ids : follows[i] \in Row /\ i \in Nat /\ i # 0
    BY DEF FollowTypeOK
  <1>3. \A pc : Goto(t, pc) => /\ c'.op = c.op /\ c'.reason = c.reason /\ c'.pc = pc
                               /\ c'.id = c.id /\ c'.row = c.row /\ c'.fresh = c.fresh
    <2> TAKE pc
    <2> HAVE Goto(t, pc)
    <2>1. c' = WithPc(c, pc)
      BY <1>1 DEF Goto
    <2> HIDE DEF c
    <2> QED
      BY <1>1, <2>1 DEF CallType, WithPc, WithCrossed, WithRow, WithNewRow
  <1>4. SameRows => /\ Ids' = Ids /\ (SharedOn' <=> SharedOn)
                    /\ \A i : follows'[i] = follows[i]
    BY DEF SameRows, Ids, SharedOn
  <1>5. CASE ShouldAutoFollow(t)
    <2>1. PICK pc \in {"find", "returned"} :
             call' = [call EXCEPT ![t] = WithCrossed(WithPc(call[t], pc), FALSE)]
      BY <1>5 DEF ShouldAutoFollow
    <2>2. c'.op = c.op /\ c'.reason = c.reason /\ c'.pc = pc
      BY <1>1, <2>1 DEF CallType, WithPc, WithCrossed, WithRow, WithNewRow
    <2>3. c.reason # "shared_on"
      BY <1>5 DEF ShouldAutoFollow, At, CallSound, Automatic
    <2> QED
      BY <1>4, <1>5, <2>2, <2>3 DEF ShouldAutoFollow, Steps, CallSound
  <1>6. CASE Find(t)
    <2>1. SameRows /\ c.pc = "find"
      BY <1>6 DEF Find, At
    <2>2. CASE Ids = {}
      <3>1. Goto(t, IF c.op = "follow" THEN "create" ELSE "returned")
        BY <1>6, <2>2 DEF Find, Calling
      <3>2. /\ c'.pc = IF c.op = "follow" THEN "create" ELSE "returned"
            /\ c'.op = c.op /\ c'.reason = c.reason
        BY <1>3, <3>1
      <3>3. ~SharedOn
        BY <2>2 DEF SharedOn
      <3> QED
        BY <1>4, <2>1, <2>2, <3>2, <3>3 DEF Steps, CallSound
    <2>3. CASE Ids # {}
      <3> DEFINE pc == IF c.op = "remove" THEN "reason" ELSE "validate"
      <3>1. call' = [call EXCEPT ![t] = WithRow(c, FirstId, follows[FirstId], pc)]
        BY <1>6, <2>3 DEF Find, Calling
      <3>2. FirstId \in Ids
        BY <2>3, MinIsMember DEF FirstId, FollowTypeOK
      <3>3. Ids = {FirstId}
        BY <3>2
      <3>4. c' = WithRow(c, FirstId, follows[FirstId], pc)
        BY <1>1, <3>1
      <3> HIDE DEF c, pc
      <3>5. /\ c'.op = c.op /\ c'.reason = c.reason /\ c'.pc = pc
            /\ c'.id = FirstId /\ c'.row = follows[FirstId]
        BY <1>1, <3>4 DEF CallType, WithPc, WithCrossed, WithRow, WithNewRow
      <3>6. CallSound(c)'
        <4>1. Ids' = {c'.id} /\ c'.row.reasons = follows'[c'.id].reasons
          BY <1>4, <2>1, <3>3, <3>5
        <4>2. c.op \in {"follow", "unfollow", "remove"} 
          BY <1>1 DEF CallType, c
        <4> QED
          BY <3>5, <4>1, <4>2 DEF CallSound, pc
      <3> QED
        BY <1>4, <2>1, <3>5, <3>6 DEF Steps, c
    <2> QED
      BY <2>2, <2>3
  <1>7. CASE Create(t)
    <2>1. Ids = {} /\ c.op = "follow" /\ SameRows
      BY <1>7 DEF Create, At, CallSound
    <2>2. Goto(t, "insert")
      BY <1>7, <2>1 DEF Create
    <2> QED
      BY <1>3, <1>4, <2>1, <2>2 DEF Steps, CallSound
  <1>8. CASE Insert(t)
    <2>1. Ids = {} /\ c.op = "follow" /\ Inserting(t, "null", "validate")
      BY <1>8 DEF Insert, At, CallSound
    <2>2. /\ Ids' = {inserted'} /\ follows'[inserted'] = NewRow("null")
          /\ c' = WithNewRow(c, inserted', NewRow("null"), "validate")
      BY <1>1, <2>1 DEF Inserting, Ids
    <2> HIDE DEF c
    <2>3. /\ c'.op = c.op /\ c'.reason = c.reason /\ c'.pc = "validate" /\ c'.id = inserted'
          /\ c'.row = NewRow("null")
      BY <1>1, <2>2 DEF CallType, WithPc, WithCrossed, WithRow, WithNewRow
    <2>4. ~SharedOn /\ ~SharedOn'
      BY <2>1, <2>2 DEF SharedOn, NewRow, Reason
    <2>5. CallSound(c)'
      BY <2>1, <2>2, <2>3 DEF CallSound
    <2> QED
      BY <2>2, <2>3, <2>4, <2>5 DEF Steps, c
  <1>9. CASE Validate(t)
    <2>1. Ids = {c.id} /\ c.op \in {"follow", "unfollow"} /\ SameRows /\ c.pc = "validate"
      BY <1>9 DEF Validate, At, CallSound
    <2>2. Goto(t, "write")
      BY <1>9, <2>1 DEF Validate, Unique
    <2>3. CallSound(c)'
      BY <1>3, <1>4, <2>1, <2>2 DEF CallSound
    <2> QED
      BY <1>3, <1>4, <2>2, <2>1, <2>3 DEF Steps
  <1>10. CASE Write(t)
    <2> DEFINE muted == IF c.op = "unfollow" THEN "t" ELSE "f"
               next == IF c.op = "unfollow" THEN "returned" ELSE "reason"
    <2>1. Ids = {c.id} /\ c.op \in {"follow", "unfollow"} /\ c.pc = "write" /\ c.id # 0
      BY <1>2, <1>10 DEF Write, At, CallSound
    <2>2. /\ follows' = IF c.id \in Ids /\ c.row.muted # muted
                        THEN [follows EXCEPT ![c.id] = WithMuted(follows[c.id], muted)]
                        ELSE follows
          /\ c' = WithPc(c, next)
      BY <1>10, <2>1 DEF Write, Calling
    <2>3. Ids' = Ids /\ \A i \in Ids : follows'[i].reasons = follows[i].reasons
      BY <1>2, <2>1, <2>2 DEF Ids, WithMuted, Row
    <2> HIDE DEF c, next
    <2>4. /\ c'.op = c.op /\ c'.reason = c.reason /\ c'.pc = next /\ c'.id = c.id
          /\ c'.row = c.row /\ c'.fresh = c.fresh
      BY <1>1, <2>2 DEF CallType, WithPc, WithCrossed, WithRow, WithNewRow
    <2>5. SharedOn' <=> SharedOn
      BY <2>3 DEF SharedOn
    <2>6. CallSound(c)'
      BY <2>1, <2>3, <2>4 DEF CallSound, next, c
    <2> QED
      BY <2>3, <2>4, <2>5, <2>6 DEF Steps, c
  <1>11. CASE ReadReason(t)
    <2> DEFINE row == IF c.fresh THEN c.row ELSE follows[c.id]
               pc == IF c.op = "follow" /\ row.reasons[c.reason] = "t" THEN "returned" ELSE "mark"
    <2>1. Ids = {c.id} /\ c.pc = "reason" /\ SameRows
      BY <1>11 DEF ReadReason, At, CallSound
    <2>2. c' = WithRow(c, c.id, row, pc)
      BY <1>1, <1>11, <2>1 DEF ReadReason, Calling
    <2>3. row.reasons = follows[c.id].reasons
      BY <2>1 DEF CallSound
    <2> HIDE DEF c, row, pc
    <2>4. /\ c'.op = c.op /\ c'.reason = c.reason /\ c'.pc = pc /\ c'.id = c.id /\ c'.row = row
      BY <1>1, <2>2 DEF CallType, WithPc, WithCrossed, WithRow, WithNewRow
    <2>5. pc = "returned" /\ c.reason = "shared_on" => SharedOn /\ c.op = "follow"
      BY <2>1, <2>3 DEF SharedOn, pc
    <2>6. CallSound(c)'
      BY <1>4, <2>1, <2>3, <2>4, <2>5 DEF CallSound, pc
    <2> QED
      BY <1>4, <2>1, <2>4, <2>6 DEF Steps, c
  <1>12. CASE Mark(t)
    <2> DEFINE new == WithReason(follows[c.id], c.reason, "t")
    <2>1. Ids = {c.id} /\ c.op = "follow"
      BY <1>12 DEF Mark, At, Calling, CallSound
    <2>2. Goto(t, "returned") /\ follows' = [follows EXCEPT ![c.id] = new]
      BY <1>12, <2>1 DEF Mark
    <2>3. /\ Ids' = Ids /\ follows'[c.id] = new /\ c.reason \in Reason
      BY <1>1, <2>1, <2>2 DEF Ids, CallType
    <2>4. \A r \in Reason : new.reasons[r] = IF r = c.reason THEN "t" ELSE follows[c.id].reasons[r]
      BY <1>1, <1>2, <2>1 DEF WithReason, Row, CallType
    <2> HIDE DEF new
    <2>5. IF c.reason = "shared_on" THEN SharedOn' ELSE SharedOn' <=> SharedOn
      BY <2>1, <2>3, <2>4 DEF SharedOn, Reason
    <2>6. c'.op = c.op /\ c'.reason = c.reason /\ c'.pc = "returned"
      BY <1>3, <2>2
    <2> HIDE DEF c
    <2>7. CallSound(c)'
      BY <2>1, <2>5, <2>6 DEF CallSound
    <2> QED
      BY <2>1, <2>3, <2>5, <2>6, <2>7 DEF Steps, c
  <1> QED
    BY <1>5, <1>6, <1>7, <1>8, <1>9, <1>10, <1>11, <1>12 DEF CallStep

\* The thread that is at work is the only one.
LEMMA OneWorks ==
    ASSUME IInv, Alone, NEW t \in Thread, Busy(t)
    PROVE  /\ Fits(t) /\ Sound(work[t], call[t])
           /\ \A i, j \in Ids : i = j
           /\ ~Stage(t, "destroy") => EditorsFollow
           /\ \A id : Pending(id) => \/ \E j \in jobs : j.kind = "shared" /\ j.id = id
                                     \/ work[t].op = "shared" /\ work[t].id = id
           /\ work' = work => work'[t] = work[t] /\ \A p \in Thread : p # t => ~Busy(p)'
           /\ \A w : work' = [work EXCEPT ![t] = w] =>
                       work'[t] = w /\ \A p \in Thread : p # t => ~Busy(p)'
  <1>1. \A p \in Thread : p # t => ~Busy(p) /\ ~Stage(p, "destroy") /\ work[p].op # "shared"
    BY DEF Alone, IInv, WorkOK, Sound, Busy, Stage
  <1>2. ~Stage(t, "destroy") => EditorsFollow
    BY <1>1 DEF Alone
  <1>3. ASSUME NEW w, work' = [work EXCEPT ![t] = w]
        PROVE  work'[t] = w /\ \A p \in Thread : p # t => ~Busy(p)'
    BY <1>1, <1>3 DEF IInv, WorkOK, Busy
  <1>4. \A id : Pending(id) => \/ \E j \in jobs : j.kind = "shared" /\ j.id = id
                               \/ work[t].op = "shared" /\ work[t].id = id
    BY <1>1 DEF Pending
  <1>5. Fits(t) /\ Sound(work[t], call[t]) /\ \A i, j \in Ids : i = j
    BY DEF Alone, IInv, WorkOK
  <1> QED
    BY <1>1, <1>2, <1>3, <1>4, <1>5 DEF Busy

\* Work goes on, or ends, while the rows stay as they are.
LEMMA WorkGoesOn ==
    ASSUME IInv, IInv', Alone, NEW t \in Thread, Busy(t), NEW w, work' = [work EXCEPT ![t] = w],
           UNCHANGED <<follows, userMaps, jobs, failed>>, Fits(t)',
           ~Stage(t, "destroy") \/ userMaps = {} \/ w.pc = "destroy",
           work[t].op = "shared" => SharedOn \/ (w.op = "shared" /\ w.id = work[t].id)
    PROVE  Alone'
  <1>1. work'[t] = w /\ \A p \in Thread : p # t => ~Busy(p)'
    BY OneWorks
  <1>2. SharedOn' <=> SharedOn
    BY DEF SharedOn, Ids
  <1>3. ASSUME w.pc # "destroy" PROVE EditorsFollow'
    <2>1. CASE Stage(t, "destroy")
      <3>1. userMaps = {} /\ ~SharedOn
        BY <1>3, <2>1, OneWorks DEF Fits
      <3> QED
        BY <1>2, <3>1 DEF EditorsFollow
    <2>2. CASE ~Stage(t, "destroy")
      <3>1. \A id \in userMaps : Pending(id) => SharedOn \/ Pending(id)'
        BY <1>1, OneWorks DEF Pending
      <3> QED
        BY <1>2, <2>2, <3>1, OneWorks, EditorsKept
    <2> QED
      BY <2>1, <2>2
  <1>4. (\A i, j \in Ids : i = j)' /\ ~failed'
    BY DEF Alone, Ids
  <1> QED
    BY <1>1, <1>3, <1>4, AloneKept DEF Stage

LEMMA AnswerAlone ==
    ASSUME IInv, IInv', Alone, NEW t \in Thread, Save(t) \/ Share(t)
    PROVE  Alone'
  <1>1. Busy(t) /\ call'[t].op = "none" /\ ~Stage(t, "destroy") /\ work[t].op # "shared"
        /\ call' = call
    <2>1. work[t].pc \in {"save", "share"} /\ call' = call
      BY DEF Save, Share, Stage, followVars
    <2>2. Sound(work[t], call[t]) /\ CallFits(work[t], call[t])
      BY DEF IInv, WorkOK, Alone, Fits
    <2> QED
      BY <2>1, <2>2 DEF Sound, CallFits, Busy, Stage
  <1>2. CASE Save(t)
    <2> DEFINE w == IF work[t].op = "approve" THEN [work[t] EXCEPT !.pc = "share"] ELSE Idle
    <2>1. work' = [work EXCEPT ![t] = w] /\ UNCHANGED <<follows, userMaps, jobs, failed>>
      BY <1>2 DEF Save, followVars
    <2>2. work'[t] = w
      BY <2>1 DEF IInv, WorkOK
    <2>3. \/ w.op = "idle"
          \/ w.op = "approve" /\ w.pc = "share"
      <3>1. Idle.op = "idle"
        BY DEF Idle, Task
      <3> QED
        BY <3>1 DEF IInv, WorkOK, WorkType
    <2> HIDE DEF w
    <2>4. Fits(t)'
      BY <1>1, <2>2, <2>3, IdleFitsNext, TaskFits
    <2> QED
      BY <1>1, <2>1, <2>4, WorkGoesOn
  <1>3. CASE Share(t)
    <2> DEFINE id == work[t].turn
    <2>1. /\ work' = [work EXCEPT ![t] = Idle] /\ UNCHANGED <<follows, failed>>
          /\ userMaps' = userMaps \cup {id} /\ jobs' = jobs \cup SharedJob(id)
      BY <1>3 DEF Share, End, followVars
    <2>2. \E j \in jobs' : j.kind = "shared" /\ j.id = id
      <3> DEFINE j == [kind |-> "shared", id |-> id, attempts |-> 0]
      <3>1. j \in jobs' /\ j.kind = "shared" /\ j.id = id
        BY <2>1 DEF SharedJob
      <3> QED
        BY <3>1
    <2>3. work'[t] = Idle /\ (\A p \in Thread : p # t => ~Busy(p)')
      BY <1>1, <2>1, OneWorks
    <2>8. work'[t].op = "idle"
      BY <2>3 DEF Idle, Task
    <2>4. EditorsFollow /\ (SharedOn' <=> SharedOn)
      BY <1>1, <2>1, OneWorks DEF SharedOn, Ids
    <2>5. \A i \in userMaps : Pending(i) => Pending(i)'
      BY <1>1, <2>1, OneWorks DEF Pending
    <2> HIDE DEF id
    <2>6. EditorsFollow'
      BY <2>1, <2>2, <2>4, <2>5 DEF EditorsFollow, Pending
    <2>7. (\A i, j \in Ids : i = j)' /\ ~failed'
      BY <2>1 DEF Alone, Ids
    <2> QED
      BY <2>3, <2>6, <2>7, <2>8, IdleFitsNext, AloneKept
  <1> QED
    BY <1>2, <1>3

\* Unmark leaves no follow with the reason.
LEMMA UnmarkClears ==
    ASSUME FollowTypeOK, NEW t \in Thread, Unmark(t), CallSound(call[t]), 
           call[t].reason = "shared_on"
    PROVE  ~SharedOn' /\ (\A i, j \in Ids : i = j)'
  <1> DEFINE id == call[t].id
             row == call[t].row
             left == WithReason(row, "shared_on", "f").reasons
  <1>1. /\ Ids = {id} /\ row.reasons = follows[id].reasons /\ follows[id] \in Row /\ row \in Row
    BY DEF Unmark, At, CallSound, FollowTypeOK, CallType
  <1>2. \A r \in Reason : left[r] = IF r = "shared_on" THEN "f" ELSE row.reasons[r]
    BY <1>1 DEF WithReason, Row
  <1>3. CASE ~HasReason(left)
    <2>1. Ids' = {}
      BY <1>1, <1>3 DEF Unmark, Ids
    <2> QED
      BY <2>1 DEF SharedOn
  <1>4. CASE HasReason(left) /\ row.reasons["shared_on"] # "f"
    <2>1. follows' = [follows EXCEPT ![id] = WithReason(follows[id], "shared_on", "f")]
      BY <1>1, <1>4 DEF Unmark
    <2>2. WithReason(follows[id], "shared_on", "f").reasons["shared_on"] = "f"
      BY <1>1 DEF WithReason, Row, Reason
    <2>3. Ids' = {id} /\ follows'[id].reasons["shared_on"] = "f"
      BY <1>1, <2>1, <2>2 DEF Ids
    <2> QED
      BY <2>3 DEF SharedOn
  <1>5. CASE HasReason(left) /\ row.reasons["shared_on"] = "f"
    <2>1. follows' = follows
      BY <1>5 DEF Unmark
    <2> QED
      BY <1>1, <1>5, <2>1 DEF SharedOn, Ids
  <1> QED
    BY <1>3, <1>4, <1>5

LEMMA RemovalAlone ==
    ASSUME IInv, IInv', Alone, NEW t \in Thread,
           \/ ListUserMaps(t) \/ DestroyUserMap(t) \/ DestroyedUserMap(t)
           \/ ListRequests(t) \/ DestroyRequest(t) \/ Revoked(t)
    PROVE  Alone'
  <1> DEFINE w == work[t]
  <1>1. /\ w \in WorkType /\ call[t] \in CallType /\ DOMAIN call = Thread
        /\ w.op = "revoke" /\ Busy(t) /\ Fits(t) /\ Sound(w, call[t])
    BY DEF ListUserMaps, DestroyUserMap, DestroyedUserMap, ListRequests, DestroyRequest, Revoked,
           IInv, WorkOK, FollowTypeOK, Sound, Stage, Busy, Alone
  <1>2. CASE ListUserMaps(t)
    <2> DEFINE new == [w EXCEPT !.todo = userMaps, !.pc = "destroy"]
    <2>1. /\ work' = [work EXCEPT ![t] = new] /\ UNCHANGED <<follows, call, userMaps, jobs, failed>>
          /\ w.pc = "list" /\ userMaps # {}
      BY <1>1, <1>2 DEF ListUserMaps, followVars, accessVars, Stage, Fits
    <2>2. new.op = "revoke" /\ new.pc = "destroy" /\ new.todo = userMaps
      BY <1>1 DEF WorkType
    <2> HIDE DEF new
    <2>3. work'[t] = new
      BY <2>1 DEF IInv, WorkOK
    <2>4. call'[t].op = "none" /\ call'[t].pc = "idle"
      BY <1>1, <2>1 DEF Sound
    <2>5. Fits(t)'
      BY <2>1, <2>2, <2>3, <2>4 DEF Fits, CallFits, CallSound, Stage
    <2> QED
      BY <1>1, <2>1, <2>2, <2>5, WorkGoesOn
  <1>3. CASE DestroyUserMap(t)
    <2>1. /\ call'[t] = Called("remove", "shared_on") /\ UNCHANGED <<follows, work, userMaps, jobs, failed>>
          /\ w.pc = "destroy"
      BY <1>1, <1>3 DEF DestroyUserMap, accessVars, Stage
    <2>2. CallFits(work[t], call[t])' /\ CallSound(call[t])'
      BY <1>1, <2>1, CalledSound DEF CallFits, CallSound, Reason, Automatic
    <2>3. Fits(t)'
      BY <1>1, <2>1, <2>2 DEF Fits, Stage, SharedOn, Ids
    <2>4. (\A i, j \in Ids : i = j)' /\ ~failed' /\ Stage(t, "destroy")'
      BY <2>1 DEF Alone, Ids, Stage
    <2> QED
      BY <1>1, <2>1, <2>3, <2>4, OneWorks, AloneKept
  <1>4. CASE DestroyedUserMap(t)
    <2> DEFINE id == Min(w.todo)
               new == [w EXCEPT !.todo = @ \ {id}]
    <2>1. /\ userMaps' = userMaps \ {id} /\ work' = [work EXCEPT ![t] = new]
          /\ w.pc = "destroy" /\ w.todo = userMaps /\ UNCHANGED <<jobs, failed>>
          /\ call[t].op = "remove" /\ call[t].reason = "shared_on" /\ CallSound(call[t])
      BY <1>1, <1>4 DEF DestroyedUserMap, Stage, Fits, CallFits
    <2>2. new.op = "revoke" /\ new.pc = "destroy" /\ new.todo = userMaps'
      BY <1>1, <2>1 DEF WorkType
    <2>3. call'[t].op = "none" /\ call'[t].pc = "idle"
      BY <1>1, <1>4 DEF DestroyedUserMap, Unmark, NoCall
    <2>4. ~SharedOn' /\ (\A i, j \in Ids : i = j)'
      <3>1. CASE Unmark(t)
        BY <2>1, <3>1, UnmarkClears DEF IInv
      <3>2. CASE At(t, "returned") /\ UNCHANGED follows
        BY <2>1, <3>2 DEF At, CallSound, SharedOn, Ids, Alone
      <3> QED
        BY <1>4, <3>1, <3>2 DEF DestroyedUserMap
    <2> HIDE DEF new, id
    <2>5. work'[t] = new /\ \A p \in Thread : p # t => ~Busy(p)'
      BY <1>1, <2>1, OneWorks
    <2>6. Fits(t)' /\ Stage(t, "destroy")'
      BY <2>2, <2>3, <2>4, <2>5 DEF Fits, CallFits, CallSound, Stage
    <2> QED
      BY <2>1, <2>4, <2>5, <2>6, AloneKept DEF Alone
  <1>5. CASE ListRequests(t) \/ DestroyRequest(t)
    <2>1. PICK todo, pc : 
             /\ pc = "forget" /\ work' = [work EXCEPT ![t] = [w EXCEPT !.todo = todo, !.pc = pc]]
             /\ UNCHANGED <<follows, call, userMaps, jobs, failed>>
             /\ w.pc = "destroy" => w.todo = {}
      <3>1. CASE ListRequests(t)
        BY <3>1 DEF ListRequests, followVars, accessVars
      <3>2. CASE DestroyRequest(t)
        <4>1. [w EXCEPT !.todo = @ \ {Min(w.todo)}]
                 = [w EXCEPT !.todo = w.todo \ {Min(w.todo)}, !.pc = "forget"]
          BY <1>1, <3>2 DEF WorkType, DestroyRequest, Stage
        <4> QED
          BY <3>2, <4>1 DEF DestroyRequest, Stage, followVars
      <3> QED
        BY <1>5, <3>1, <3>2
    <2> DEFINE new == [w EXCEPT !.todo = todo, !.pc = pc]
    <2>2. new.op = "revoke" /\ new.pc = "forget"
      BY <1>1, <2>1 DEF WorkType
    <2>3. work' = [work EXCEPT ![t] = new]
      BY <2>1
    <2> HIDE DEF new
    <2>4. work'[t] = new
      BY <2>3 DEF IInv, WorkOK
    <2>5. Sound(work[t], call[t])'
      BY DEF IInv, WorkOK
    <2>6. call'[t].op = "none" /\ call'[t].pc = "idle"
      BY <2>2, <2>4, <2>5 DEF Sound
    <2>7. Fits(t)'
      BY <2>2, <2>4, <2>6 DEF Fits, CallFits, CallSound, Stage
    <2>8. ~Stage(t, "destroy") \/ userMaps = {}
      BY <1>1, <2>1 DEF Stage, Fits
    <2> QED
      BY <1>1, <2>1, <2>3, <2>7, <2>8, WorkGoesOn
  <1>6. CASE Revoked(t)
    <2>1. work' = [work EXCEPT ![t] = Idle] /\ UNCHANGED <<follows, userMaps, jobs, failed>>
          /\ ~Stage(t, "destroy")
      BY <1>6 DEF Revoked, End, followVars, accessVars, Stage
    <2>2. work'[t].op = "idle"
      BY <2>1 DEF Idle, Task, IInv, WorkOK
    <2> QED
      BY <1>1, <2>1, <2>2, IdleFitsNext, WorkGoesOn
  <1> QED
    BY <1>2, <1>3, <1>4, <1>5, <1>6

LEMMA FinishedAlone ==
    ASSUME IInv, IInv', Alone, NEW t \in Thread, Pressed(t) \/ JobDone(t)
    PROVE  Alone'
  <1>1. /\ work' = [work EXCEPT ![t] = Idle] /\ UNCHANGED <<follows, userMaps, jobs, failed>>
        /\ work[t].pc \in {"call", "job"} /\ At(t, "returned")
    BY DEF Pressed, JobDone, End, Stage, accessVars
  <1>2. work'[t].op = "idle"
    BY <1>1 DEF Idle, Task, IInv, WorkOK
  <1>3. Sound(work[t], call[t]) /\ CallFits(work[t], call[t]) /\ CallSound(call[t])
    BY DEF Alone, Fits, IInv, WorkOK
  <1>4. Busy(t) /\ ~Stage(t, "destroy")
    BY <1>1, <1>3 DEF Sound, Busy, Stage
  <1>5. work[t].op = "shared" => SharedOn
    BY <1>1, <1>3 DEF CallFits, CallSound, At
  <1>6. Fits(t)'
    BY <1>2, IdleFitsNext
  <1> HIDE DEF Idle
  <1> QED
    BY <1>1, <1>4, <1>5, <1>6, WorkGoesOn

\* A call of the service raises only when something overlaps.
LEMMA NothingRaises ==
    ASSUME Alone, NEW t \in Thread
    PROVE  ~Fail(t) /\ ~JobFails(t)
  BY DEF Alone, Fits, CallSound, Fail, JobFails, At

\* A step that leaves the threads and the rows alone.
LEMMA AloneStays ==
    ASSUME Alone, UNCHANGED <<follows, call, work, userMaps, failed>>,
           EditorsFollow => EditorsFollow'
    PROVE  Alone'
  <1>1. Ids' = Ids /\ (SharedOn' <=> SharedOn)
    BY DEF Ids, SharedOn
  <1>2. \A c : CallSound(c) => CallSound(c)'
    BY <1>1 DEF CallSound
  <1>3. \A t \in Thread : Fits(t) => Fits(t)'
    BY <1>1, <1>2 DEF Fits, Stage
  <1> QED
    BY <1>1, <1>3 DEF Alone, Busy, Stage

LEMMA TakeJobAlone ==
    ASSUME IInv, IInv', Alone, NEW t \in Thread, TakeJob(t), ~overlapped'
    PROVE  Alone'
  <1>1. PICK j \in jobs :
          /\ jobs' = jobs \ {j}
          /\ \/ /\ j.kind = "shared" => j.id \notin userMaps
                /\ UNCHANGED <<followVars, work>>
             \/ /\ j.kind = "shared" => j.id \in userMaps
                /\ Begin(t, Task(j.kind, "job", 0, j.id, Unanswered, j.attempts + 1))
                /\ call' = [call EXCEPT ![t] = Called("follow",
                               IF j.kind = "shared" THEN "shared_on" ELSE "contributed")]
                /\ follows' = follows
    BY DEF TakeJob
  <1>2. UNCHANGED <<follows, userMaps, failed>> /\ j.kind \in {"shared", "contributed"}
    BY <1>1 DEF TakeJob, followVars, IInv, JobsOK, Job
  <1>3. SharedOn' <=> SharedOn
    BY <1>2 DEF SharedOn, Ids
  <1>4. CASE /\ j.kind = "shared" => j.id \notin userMaps
             /\ UNCHANGED <<call, work>>
    <2>1. \A id \in userMaps : Pending(id) => Pending(id)'
      BY <1>1, <1>4 DEF Pending
    <2>2. EditorsFollow => EditorsFollow'
      BY <1>2, <1>3, <2>1, EditorsKept
    <2> QED
      BY <1>2, <1>3, <1>4, <2>2, AloneStays
  <1>5. CASE /\ j.kind = "shared" => j.id \in userMaps
             /\ Begin(t, Task(j.kind, "job", 0, j.id, Unanswered, j.attempts + 1))
             /\ call' = [call EXCEPT ![t] = Called("follow",
                            IF j.kind = "shared" THEN "shared_on" ELSE "contributed")]
    <2> DEFINE w == Task(j.kind, "job", 0, j.id, Unanswered, j.attempts + 1)
               reason == IF j.kind = "shared" THEN "shared_on" ELSE "contributed"
    <2>1. w.op = j.kind /\ w.pc = "job" /\ w.id = j.id
      BY TaskFields
    <2>2. Begin(t, w) /\ call'[t] = Called("follow", reason)
      BY <1>5 DEF IInv, FollowTypeOK
    <2>3. reason \in Reason /\ (reason = "shared_on" <=> j.kind = "shared")
      BY DEF Reason, Automatic
    <2> HIDE DEF w, reason
    <2>4. /\ work'[t] = w /\ \A p \in Thread : p # t => ~Busy(p)'
          /\ EditorsFollow
          /\ \A id \in userMaps : SharedOn \/ \E k \in jobs : k.kind = "shared" /\ k.id = id
      BY <2>2, BeginsAlone
    <2>5. CallFits(work[t], call[t])' /\ CallSound(call[t])'
      BY <2>1, <2>2, <2>3, <2>4, CalledSound DEF CallFits, CallSound
    <2>6. Fits(t)'
      BY <1>2, <1>5, <2>1, <2>4, <2>5 DEF Fits, Stage
    <2>7. \A id \in userMaps : SharedOn \/ Pending(id)'
      BY <1>1, <2>1, <2>4 DEF Pending
    <2>8. EditorsFollow'
      BY <1>2, <1>3, <2>4, <2>7, EditorsKept
    <2>9. (\A i, k \in Ids : i = k)' /\ ~failed'
      BY <1>2 DEF Alone, Ids
    <2> QED
      BY <2>4, <2>6, <2>8, <2>9, AloneKept
  <1> QED
    BY <1>1, <1>4, <1>5 DEF followVars

LEMMA ServiceStepAlone ==
    ASSUME IInv, IInv', Alone, NEW t \in Thread, ServiceStep(t)
    PROVE  Alone'
  <1>1. CallStep(t) /\ UNCHANGED <<work, userMaps, jobs, failed>>
    BY DEF ServiceStep, accessVars
  <1>2. call[t].pc # "idle"
    BY <1>1 DEF CallStep, ShouldAutoFollow, Find, Create, Insert, Validate, Write, ReadReason, Mark, At
  <1>3. Sound(work[t], call[t]) /\ Fits(t)
    BY DEF Alone, IInv, WorkOK
  <1>4. call[t].op # "none" /\ Busy(t) /\ work[t].pc # "list"
        /\ (work[t].pc = "destroy" => work[t].todo # {})
    BY <1>2, <1>3 DEF Sound, Busy
  <1>5. Steps(t)
    BY <1>1, <1>3, <1>4, CallSteps DEF IInv, Alone, Fits, CallFits
  <1>6. Fits(t)'
    BY <1>1, <1>3, <1>4, <1>5 DEF Fits, CallFits, Steps, Stage
  <1>7. ASSUME ~Stage(t, "destroy") PROVE EditorsFollow'
    <2>1. EditorsFollow
      BY <1>4, <1>7, OneWorks
    <2>2. \A id : Pending(id) => Pending(id)'
      BY <1>1 DEF Pending
    <2>3. CASE SharedOn' <=> SharedOn
      BY <1>1, <2>1, <2>2, <2>3, EditorsKept
    <2>4. CASE SharedOn' /\ call[t].op = "follow" /\ call[t].reason = "shared_on"
      BY <1>1, <1>3, <2>4 DEF Fits, CallFits, EditorsFollow
    <2> QED
      BY <1>5, <2>3, <2>4 DEF Steps
  <1> QED
    BY <1>1, <1>4, <1>5, <1>6, <1>7, OneWorks, AloneKept DEF Steps, Stage, Alone

LEMMA AloneStep == IInv /\ IInv' /\ Alone /\ [Next]_vars /\ ~overlapped' => Alone'
  <1> SUFFICES ASSUME IInv, IInv', Alone, [Next]_vars, ~overlapped'
               PROVE  Alone'
    OBVIOUS
  <1>1. CASE UNCHANGED vars
    BY <1>1, AloneStays DEF vars, accessVars, followVars, EditorsFollow, SharedOn, Pending, Ids
  <1>2. ASSUME NEW t \in Thread, Proceed(t) PROVE Alone'
    BY <1>2, AnswerAlone, RemovalAlone, FinishedAlone, NothingRaises, TakeJobAlone,
       ServiceStepAlone DEF Proceed
  <1> QED
    BY <1>1, <1>2, ArriveAlone DEF Next

\* Nothing makes `overlapped' false again.
LEMMA OverlappedStays == IInv /\ overlapped /\ [Next]_vars => overlapped'
  BY DEF Next, Arrive, Proceed, AskForAccess, Contribute, Respond, Grant, Revoke, Press, Save,
         Share, ListUserMaps, DestroyUserMap, DestroyedUserMap, ListRequests, DestroyRequest,
         Revoked, Pressed, Fail, TakeJob, JobDone, JobFails, ServiceStep, vars, accessVars,
         Visit, Begin

LEMMA InitAlone == Init => Alone
  BY DEF Init, FollowInit, Alone, Fits, CallFits, CallSound, EditorsFollow, SharedOn, Busy, Stage,
         Ids, Idle, Task, NoCall

\* As long as nothing overlaps, there is one follow at most, no call of the service
\* raises, and once the jobs have run the follow has the reason `shared_on' exactly
\* when the user is an editor, however often the user is let in and removed.
THEOREM FollowersAreEditors == Spec => []FollowMatchesAccess
  <1> DEFINE FInv == overlapped \/ Alone
  <1>1. Init => FInv
    BY InitAlone
  <1>2. IInv /\ IInv' /\ FInv /\ [Next]_vars => FInv'
    BY AloneStep, OverlappedStays
  <1>3. IInv /\ FInv => FollowMatchesAccess
    BY AloneMatches
  <1> HIDE DEF FInv
  <1> QED
    BY <1>1, <1>2, <1>3, Invariance, PTL DEF Spec

-----------------------------------------------------------------------------
\* UnfollowIsKept.

\* Only a follow inserts, and only a follow or an unfollow writes.  The row an unfollow is
\* about to mute is the first one, and stays the first one: ids grow.
UnfollowsFirst(c) ==
    /\ c.op = "none" => c.pc = "idle"
    /\ c.pc \in {"create", "insert"} => c.op = "follow"
    /\ c.pc \in {"validate", "write"} => c.op \in {"follow", "unfollow"}
    /\ c.op = "unfollow" /\ c.pc \in {"validate", "write"} =>
          c.id \in 1..inserted /\ \A j \in Ids : c.id <= j

\* An automatic follow that has looked goes on only while no row is muted.
LookedWell(c) ==
    /\ c.op = "follow"
    /\ c.reason \in Automatic
    /\ c.pc \notin {"auto", "returned", "raised"}
    /\ ~c.crossed
    => \A i \in Ids : follows[i].muted # "t"

\* should_auto_follow looks at the first row only, and that is enough.
MutedIsFirst == \A i, j \in Ids : follows[i].muted = "t" => i <= j

MInv ==
    /\ MutedIsFirst
    /\ \A t \in Thread : UnfollowsFirst(call[t]) /\ LookedWell(call[t])

\* A step that mutes no row, and inserts at the end.
Tame ==
    /\ inserted' \in Nat /\ inserted <= inserted'
    /\ \A i \in Ids' : i \in Ids \/ (i \in Nat /\ i > inserted)
    /\ \A i \in Ids' : follows'[i].muted = "t" => i \in Ids /\ follows[i].muted = "t"

\* A step that makes and unmutes no row.
Keeps == \A i \in Ids' : follows'[i].muted # "t" => i \in Ids /\ follows[i].muted # "t"

\* A step of a follow that may do so.
Follows(t) ==
    /\ call[t].op = "follow"
    /\ call[t].pc \in {"insert", "write"}
    /\ call'[t].pc # call[t].pc

\* Tame steps keep what is said of the rows and of each call that stays as it is.
LEMMA TameRows ==
    ASSUME FollowTypeOK, MInv, Tame
    PROVE  /\ MutedIsFirst'
           /\ \A c : UnfollowsFirst(c) => UnfollowsFirst(c)'
           /\ \A c : LookedWell(c) => LookedWell(c)'
  <1>1. inserted \in Nat /\ inserted' \in Nat /\ inserted <= inserted'
    BY DEF FollowTypeOK, Tame
  <1>2. \A i \in Ids : i \in 1..inserted
    BY DEF FollowTypeOK
  <1>3. \A i \in Ids' : i \in Ids \/ (i \in Nat /\ i > inserted)
    BY DEF Tame
  <1>4. \A i \in Ids' : follows'[i].muted = "t" => i \in Ids /\ follows[i].muted = "t"
    BY DEF Tame
  <1>5. \A i, j \in Ids : follows[i].muted = "t" => i <= j
    BY DEF MInv, MutedIsFirst
  <1>6. MutedIsFirst'
    BY <1>1, <1>2, <1>3, <1>4, <1>5 DEF MutedIsFirst
  <1>7. \A c : UnfollowsFirst(c) => UnfollowsFirst(c)'
    BY <1>1, <1>2, <1>3 DEF UnfollowsFirst
  <1>8. \A c : LookedWell(c) => LookedWell(c)'
    BY <1>4 DEF LookedWell
  <1> QED
    BY <1>6, <1>7, <1>8

\* A step that leaves the rows alone is both.
LEMMA SameRowsTame ==
    FollowTypeOK /\ SameRows => Tame /\ Keeps
  BY DEF FollowTypeOK, SameRows, Tame, Keeps, Ids

\* One call moves on while the rows are treated gently.
LEMMA OneMoves ==
    ASSUME FollowTypeOK, MInv, Tame, NEW t \in Thread, NEW c, call' = [call EXCEPT ![t] = c],
           UnfollowsFirst(c)', LookedWell(c)'
    PROVE  MInv'
  <1>1. \A p \in Thread : call'[p] = IF p = t THEN c ELSE call[p]
    BY DEF FollowTypeOK
  <1>2. ASSUME NEW p \in Thread PROVE UnfollowsFirst(call[p])' /\ LookedWell(call[p])'
    <2>1. CASE p = t
      <3>1. call'[p] = c
        BY <1>1, <2>1
      <3> QED
        BY <3>1 DEF UnfollowsFirst, LookedWell
    <2>2. CASE p # t
      <3>1. call'[p] = call[p]
        BY <1>1, <2>2
      <3> DEFINE d == call[p]
      <3>2. UnfollowsFirst(d) /\ LookedWell(d)
        BY DEF MInv
      <3>3. /\ inserted' \in Nat /\ inserted <= inserted'
            /\ \A i \in Ids' : i \in Ids \/ (i \in Nat /\ i > inserted)
            /\ \A i \in Ids' : follows'[i].muted = "t" => i \in Ids /\ follows[i].muted = "t"
            /\ inserted \in Nat
        BY DEF Tame, FollowTypeOK
      <3>4. UnfollowsFirst(call[p])'
        BY <3>1, <3>2, <3>3 DEF UnfollowsFirst
      <3>5. LookedWell(call[p])'
        BY <3>1, <3>2, <3>3 DEF LookedWell
      <3> QED
        BY <3>4, <3>5
    <2> QED
      BY <2>1, <2>2
  <1> QED
    BY <1>2, TameRows DEF MInv

\* What a call that goes on, or has ended, is left with.
LEMMA MovesOn ==
    ASSUME FollowTypeOK, MInv, Tame, NEW t \in Thread, NEW c,
           call[t].pc # "idle",
           c.op = call[t].op, c.reason = call[t].reason, c.crossed = call[t].crossed,
           \/ /\ c.pc \in {"create", "insert", "validate", "write"} => c.op = "follow"
              /\ call[t].pc \notin {"auto", "returned", "raised"}
           \/ c.pc \in {"returned", "raised"}
    PROVE  UnfollowsFirst(c)' /\ LookedWell(c)'
  <1>1. LookedWell(call[t]) /\ call[t].op # "none"
    BY DEF MInv, UnfollowsFirst
  <1>2. \A i \in Ids' : follows'[i].muted = "t" => i \in Ids /\ follows[i].muted = "t"
    BY DEF Tame
  <1>3. UnfollowsFirst(c)'
    BY <1>1 DEF UnfollowsFirst
  <1>4. LookedWell(c)'
    BY <1>1, <1>2 DEF LookedWell
  <1> QED
    BY <1>3, <1>4

\* Ids grow, so an insertion never comes before a muted row.
LEMMA InsertingTame ==
    ASSUME FollowTypeOK, NEW t \in Thread, NEW muted \in {"null", "f"}, NEW pc,
           Inserting(t, muted, pc)
    PROVE  Tame
  <1>1. /\ inserted \in Nat /\ inserted' = inserted + 1
        /\ Ids' = Ids \cup {inserted'}
        /\ \A i \in Ids' : follows'[i] = IF i = inserted' THEN NewRow(muted) ELSE follows[i]
        /\ \A i \in Ids : i \in 1..inserted
    BY DEF Inserting, Ids, FollowTypeOK
  <1>2. NewRow(muted).muted # "t"
    BY DEF NewRow
  <1>3. \A i \in Ids : i \in Ids' /\ i # inserted' /\ follows'[i] = follows[i]
    BY <1>1
  <1> QED
    BY <1>1, <1>2, <1>3 DEF Tame

\* A reason is written without touching `muted'.
LEMMA WithMutedFields ==
    ASSUME NEW row \in Row
    PROVE  /\ \A m : WithMuted(row, m).muted = m
           /\ \A reason, value : WithReason(row, reason, value).muted = row.muted
  BY DEF Row, WithMuted, WithReason

\* The steps of a call that write no `muted' of a row that is there.
LEMMA GentleSteps ==
    ASSUME FollowTypeOK, MInv, NEW t \in Thread, CallStep(t), ~(At(t, "write") /\ call[t].id # 0)
    PROVE  MInv' /\ (Keeps \/ Follows(t))
  <1>1. /\ call[t] \in CallType
        /\ UnfollowsFirst(call[t]) /\ LookedWell(call[t])
    BY DEF FollowTypeOK, MInv
  <1>2. \A i \in Ids : follows[i] \in Row /\ i \in Nat /\ i \in 1..inserted
    BY DEF FollowTypeOK
  <1>3. CASE ShouldAutoFollow(t)
    <2> DEFINE pc == IF MayAutoFollow(call[t].reason) THEN "find" ELSE "returned"
    <2>8. call' = [call EXCEPT ![t] = WithCrossed(WithPc(call[t], pc), FALSE)] /\ SameRows
      BY <1>3 DEF ShouldAutoFollow
    <2>9. PICK c : c = WithCrossed(WithPc(call[t], pc), FALSE)
      OBVIOUS
    <2>1. call' = [call EXCEPT ![t] = c] /\ SameRows
      BY <2>8, <2>9
    <2>2. c.op = call[t].op /\ c.reason = call[t].reason /\ c.pc = pc
      BY <1>1, <2>9 DEF CallType, WithPc, WithRow, WithNewRow, WithCrossed
    <2>10. call[t].op # "none"
      BY <1>1, <1>3 DEF ShouldAutoFollow, At, UnfollowsFirst
    <2>3. Tame /\ Keeps
      BY <2>1, SameRowsTame
    <2>4. pc = "find" => \A i \in Ids : follows[i].muted # "t"
      <3> SUFFICES ASSUME MayAutoFollow(call[t].reason), NEW i \in Ids, follows[i].muted = "t"
                   PROVE  FALSE
        OBVIOUS
      <3>1. FirstId \in Ids
        BY <1>2, MinIsMember DEF FirstId
      <3>2. \A j \in Ids : FirstId <= j
        BY <1>2, LowestMember DEF FirstId, Min
      <3>3. i <= FirstId
        BY <3>1 DEF MInv, MutedIsFirst
      <3>4. i = FirstId
        BY <1>2, <3>1, <3>2, <3>3
      <3> QED
        BY <3>4 DEF MayAutoFollow
    <2>5. pc \in {"find", "returned"}
      OBVIOUS
    <2> HIDE DEF pc
    <2>6. UnfollowsFirst(c)'
      BY <2>2, <2>5, <2>10 DEF UnfollowsFirst
    <2>7. LookedWell(c)'
      BY <2>1, <2>2, <2>4, <2>5 DEF LookedWell, SameRows, Ids
    <2> QED
      BY <2>1, <2>3, <2>6, <2>7, OneMoves
  <1>4. CASE Find(t)
    <2>1. SameRows
      BY <1>4 DEF Find
    <2>2. Tame /\ Keeps
      BY <2>1, SameRowsTame
    <2>3. CASE Ids = {}
      <3> DEFINE pc == IF Calling(t, "follow") THEN "create" ELSE "returned"
      <3>7. PICK c : c = WithPc(call[t], pc)
        OBVIOUS
      <3>1. call' = [call EXCEPT ![t] = c] /\ call[t].pc = "find"
        BY <1>4, <2>3, <3>7 DEF Find, Goto, At
      <3>2. c.op = call[t].op /\ c.reason = call[t].reason /\ c.crossed = call[t].crossed /\ c.pc = pc
        BY <1>1, <3>7 DEF CallType, WithPc, WithRow, WithNewRow, WithCrossed
      <3>3. c.pc \in {"create", "returned"} /\ (c.pc = "create" => c.op = "follow")
        BY <3>2 DEF Calling
      <3> HIDE DEF pc
      <3>4. UnfollowsFirst(c)' /\ LookedWell(c)'
        BY <2>2, <3>1, <3>2, <3>3, MovesOn
      <3> QED
        BY <2>2, <3>1, <3>4, OneMoves
    <2>4. CASE Ids # {}
      <3> DEFINE pc == IF Calling(t, "remove") THEN "reason" ELSE "validate"
      <3>7. PICK c : c = WithRow(call[t], FirstId, follows[FirstId], pc)
        OBVIOUS
      <3>1. call' = [call EXCEPT ![t] = c] /\ call[t].pc = "find"
        BY <1>4, <2>4, <3>7 DEF Find, At
      <3>2. /\ c.op = call[t].op /\ c.reason = call[t].reason /\ c.crossed = call[t].crossed
            /\ c.pc = pc /\ c.id = FirstId
        BY <1>1, <3>7 DEF CallType, WithPc, WithRow, WithNewRow, WithCrossed
      <3>3. FirstId \in Ids /\ \A j \in Ids : FirstId <= j
        BY <1>2, <2>4, LowestMember DEF FirstId, Min
      <3>4. /\ pc \in {"reason", "validate"}
            /\ pc = "validate" => call[t].op # "remove"
        BY DEF Calling
      <3>8. call[t].op \in {"follow", "unfollow", "remove"}
        BY <1>1, <3>1 DEF UnfollowsFirst, CallType
      <3> HIDE DEF pc
      <3>5. UnfollowsFirst(c)'
        BY <1>2, <2>1, <3>2, <3>3, <3>4, <3>8 DEF UnfollowsFirst, SameRows, Ids
      <3>6. LookedWell(c)'
        BY <1>1, <2>1, <3>1, <3>2 DEF LookedWell, SameRows, Ids
      <3> QED
        BY <2>2, <3>1, <3>5, <3>6, OneMoves
    <2> QED
      BY <2>3, <2>4
  <1>5. CASE Create(t)
    <2> DEFINE pc == IF Ids = {} THEN "insert" ELSE "validate"
    <2>7. PICK c : c = WithPc(call[t], pc)
      OBVIOUS
    <2>1. call' = [call EXCEPT ![t] = c] /\ call[t].pc = "create" /\ SameRows
      BY <1>5, <2>7 DEF Create, Goto, At
    <2>2. c.op = call[t].op /\ c.reason = call[t].reason /\ c.crossed = call[t].crossed
      BY <1>1, <2>7 DEF CallType, WithPc, WithRow, WithNewRow, WithCrossed
    <2>3. Tame /\ Keeps
      BY <2>1, SameRowsTame
    <2>4. call[t].op = "follow"
      BY <1>1, <2>1 DEF UnfollowsFirst
    <2> HIDE DEF pc
    <2>5. UnfollowsFirst(c)' /\ LookedWell(c)'
      BY <2>1, <2>2, <2>3, <2>4, MovesOn
    <2> QED
      BY <2>1, <2>3, <2>5, OneMoves
  <1>6. ASSUME NEW muted \in {"null", "f"}, NEW pc \in {"validate", "reason"}, Inserting(t, muted, pc),
               call[t].op = "follow", call[t].pc \in {"insert", "write"}
        PROVE  MInv' /\ Follows(t)
    <2>5. PICK c : c = WithNewRow(call[t], inserted', NewRow(muted), pc)
      OBVIOUS
    <2>1. call' = [call EXCEPT ![t] = c]
      BY <1>6, <2>5 DEF Inserting
    <2>2. Tame
      BY <1>6, InsertingTame
    <2>3. /\ c.op = call[t].op /\ c.reason = call[t].reason /\ c.crossed = call[t].crossed
          /\ c.pc = pc
      BY <1>1, <2>5 DEF CallType, WithPc, WithRow, WithNewRow, WithCrossed
    <2>6. call'[t].pc = pc
      BY <2>1, <2>3 DEF FollowTypeOK
    <2>7. Follows(t)
      BY <1>6, <2>6 DEF Follows
    <2>4. UnfollowsFirst(c)' /\ LookedWell(c)'
      BY <1>6, <2>2, <2>3, MovesOn
    <2> QED
      BY <2>1, <2>2, <2>4, <2>7, OneMoves
  <1>7. CASE Insert(t)
    <2>1. call[t].pc = "insert" /\ Inserting(t, "null", "validate")
      BY <1>7 DEF Insert, At
    <2>2. call[t].op = "follow"
      BY <1>1, <2>1 DEF UnfollowsFirst
    <2> QED
      BY <1>6, <2>1, <2>2
  <1>8. CASE Validate(t)
    <2> DEFINE pc == IF Unique(call[t].id) THEN "write" ELSE "raised"
    <2>7. PICK c : c = WithPc(call[t], pc)
      OBVIOUS
    <2>1. call' = [call EXCEPT ![t] = c] /\ call[t].pc = "validate" /\ SameRows
      BY <1>8, <2>7 DEF Validate, Goto, At
    <2>2. /\ c.op = call[t].op /\ c.reason = call[t].reason /\ c.crossed = call[t].crossed
          /\ c.pc = pc /\ c.id = call[t].id
      BY <1>1, <2>7 DEF CallType, WithPc, WithRow, WithNewRow, WithCrossed
    <2>3. Tame /\ Keeps
      BY <2>1, SameRowsTame
    <2>4. pc \in {"write", "raised"}
      OBVIOUS
    <2> HIDE DEF pc
    <2>5. UnfollowsFirst(c)'
      BY <1>1, <2>1, <2>2, <2>4 DEF UnfollowsFirst, SameRows, Ids
    <2>6. LookedWell(c)'
      BY <1>1, <2>1, <2>2 DEF LookedWell, SameRows, Ids
    <2> QED
      BY <2>1, <2>3, <2>5, <2>6, OneMoves
  <1>9. CASE Write(t)
    <2>1. call[t].id = 0 /\ call[t].pc = "write"
      BY <1>9 DEF Write, At
    <2>2. call[t].op = "follow"
      BY <1>1, <2>1 DEF UnfollowsFirst
    <2>3. Inserting(t, "f", "reason")
      BY <1>9, <2>1, <2>2 DEF Write, Calling
    <2> QED
      BY <1>6, <2>1, <2>2, <2>3
  <1>10. CASE ReadReason(t)
    <2>1. SameRows /\ call[t].pc = "reason"
      BY <1>10 DEF ReadReason, At
    <2>2. Tame /\ Keeps
      BY <2>1, SameRowsTame
    <2>3. \E c : /\ call' = [call EXCEPT ![t] = c]
                 /\ c.op = call[t].op /\ c.reason = call[t].reason /\ c.crossed = call[t].crossed
                 /\ c.pc \in {"raised", "returned", "mark"}
      <3>1. CASE ~call[t].fresh /\ call[t].id \notin Ids
        <4>1. PICK c : c = WithPc(call[t], "raised")
          OBVIOUS
        <4>2. call' = [call EXCEPT ![t] = c]
          BY <1>10, <3>1, <4>1 DEF ReadReason, Goto
        <4>3. c.op = call[t].op /\ c.reason = call[t].reason /\ c.crossed = call[t].crossed
              /\ c.pc = "raised"
          BY <1>1, <4>1 DEF CallType, WithPc
        <4> QED
          BY <4>2, <4>3
      <3>2. CASE ~(~call[t].fresh /\ call[t].id \notin Ids)
        <4>1. PICK row : \E pc \in {"returned", "mark"} :
                  call' = [call EXCEPT ![t] = WithRow(call[t], call[t].id, row, pc)]
          BY <1>10, <3>2 DEF ReadReason
        <4>4. PICK pc \in {"returned", "mark"} :
                call' = [call EXCEPT ![t] = WithRow(call[t], call[t].id, row, pc)]
          BY <4>1
        <4>2. PICK c : c = WithRow(call[t], call[t].id, row, pc)
          OBVIOUS
        <4>3. c.op = call[t].op /\ c.reason = call[t].reason /\ c.crossed = call[t].crossed
              /\ c.pc \in {"returned", "mark"}
          BY <1>1, <4>2 DEF CallType, WithRow
        <4> QED
          BY <4>4, <4>2, <4>3
      <3> QED
        BY <3>1, <3>2
    <2>4. PICK c : /\ call' = [call EXCEPT ![t] = c]
                   /\ c.op = call[t].op /\ c.reason = call[t].reason /\ c.crossed = call[t].crossed
                   /\ c.pc \in {"raised", "returned", "mark"}
      BY <2>3
    <2>5. UnfollowsFirst(c)' /\ LookedWell(c)'
      BY <2>1, <2>2, <2>4, MovesOn
    <2> QED
      BY <2>2, <2>4, <2>5, OneMoves
  <1>11. CASE Mark(t)
    <2>6. PICK c : c = WithPc(call[t], "returned")
      OBVIOUS
    <2>1. call' = [call EXCEPT ![t] = c] /\ call[t].pc = "mark" /\ inserted' = inserted
      BY <1>11, <2>6 DEF Mark, Goto, At
    <2>2. /\ c.op = call[t].op /\ c.reason = call[t].reason /\ c.crossed = call[t].crossed
          /\ c.pc = "returned"
      BY <1>1, <2>6 DEF CallType, WithPc, WithRow, WithNewRow, WithCrossed
    <2>3. Ids' = Ids /\ \A i \in Ids : follows'[i].muted = follows[i].muted
      BY <1>2, <1>11, WithMutedFields DEF Mark, Ids
    <2>4. Tame /\ Keeps
      BY <1>2, <2>1, <2>3 DEF Tame, Keeps, FollowTypeOK
    <2>5. UnfollowsFirst(c)' /\ LookedWell(c)'
      BY <2>1, <2>2, <2>4, MovesOn
    <2> QED
      BY <2>1, <2>4, <2>5, OneMoves
  <1> QED
    BY <1>3, <1>4, <1>5, <1>7, <1>8, <1>9, <1>10, <1>11 DEF CallStep

\* The write of an unfollow mutes the first row, and crosses every follow that is under
\* way; only the write of a follow unmutes its row.
LEMMA WriteStep ==
    ASSUME FollowTypeOK, MInv, NEW t \in Thread, Write(t), call[t].id # 0
    PROVE  /\ MInv'
           /\ Calling(t, "unfollow") => Keeps
           /\ Calling(t, "unfollow") \/ Follows(t)
  <1> DEFINE muted == IF Calling(t, "unfollow") THEN "t" ELSE "f"
             next == IF Calling(t, "unfollow") THEN "returned" ELSE "reason"
             id == call[t].id
  <1>1. /\ \A p \in Thread : call[p] \in CallType
        /\ \A p \in Thread : UnfollowsFirst(call[p]) /\ LookedWell(call[p])
    BY DEF FollowTypeOK, MInv
  <1>2. \A i \in Ids : follows[i] \in Row /\ i \in 1..inserted
    BY DEF FollowTypeOK
  <1>3. /\ follows' = IF id \in Ids /\ call[t].row.muted # muted
                      THEN [follows EXCEPT ![id] = WithMuted(follows[id], muted)]
                      ELSE follows
        /\ call' = [p \in Thread |->
                      IF p = t THEN WithPc(call[t], next)
                      ELSE WithCrossed(call[p], call[p].crossed \/ Calling(t, "unfollow"))]
        /\ inserted' = inserted
        /\ call[t].pc = "write"
    BY DEF Write, At
  <1>4. Ids' = Ids /\ \A i \in Ids : \/ follows'[i].muted = follows[i].muted
                                     \/ i = id /\ follows'[i].muted = muted
    BY <1>2, <1>3, WithMutedFields DEF Ids
  <1>5. /\ call'[t].op = call[t].op /\ call'[t].reason = call[t].reason
        /\ call'[t].crossed = call[t].crossed /\ call'[t].pc = next
    BY <1>1, <1>3 DEF CallType, WithPc
  <1>6. ASSUME NEW p \in Thread, p # t
        PROVE  /\ call'[p].op = call[p].op /\ call'[p].reason = call[p].reason
               /\ call'[p].pc = call[p].pc /\ call'[p].id = call[p].id
               /\ call'[p].crossed = (call[p].crossed \/ Calling(t, "unfollow"))
    BY <1>1, <1>3, <1>6 DEF CallType, WithCrossed
  <1>7. Calling(t, "unfollow") => muted = "t" /\ next = "returned" /\ \A j \in Ids : id <= j
    BY <1>1, <1>3 DEF UnfollowsFirst, Calling
  <1>8. ~Calling(t, "unfollow") => muted = "f"
    OBVIOUS
  <1>14. next \in {"returned", "reason"}
    OBVIOUS
  <1> HIDE DEF muted, next
  <1>9. MutedIsFirst'
    BY <1>4, <1>7, <1>8 DEF MInv, MutedIsFirst
  <1>10. ASSUME NEW p \in Thread PROVE UnfollowsFirst(call[p])'
    <2>1. CASE p = t
      <3>1. call[t].op \in {"follow", "unfollow"}
        BY <1>1, <1>3 DEF UnfollowsFirst
      <3> QED
        BY <1>5, <1>7, <1>14, <2>1, <3>1 DEF UnfollowsFirst, Calling
    <2>2. CASE p # t
      <3>1. UnfollowsFirst(call[p])
        BY <1>1
      <3> QED
        BY <1>3, <1>4, <1>6, <2>2, <3>1 DEF UnfollowsFirst
    <2> QED
      BY <2>1, <2>2
  <1>11. ASSUME NEW p \in Thread PROVE LookedWell(call[p])'
    <2>1. LookedWell(call[p])
      BY <1>1
    <2>2. CASE p = t
      BY <1>3, <1>4, <1>5, <1>7, <1>8, <2>1, <2>2 DEF LookedWell, Calling
    <2>3. CASE p # t
      BY <1>4, <1>6, <1>8, <2>1, <2>3 DEF LookedWell
    <2> QED
      BY <2>2, <2>3
  <1>12. Calling(t, "unfollow") => Keeps
    BY <1>4, <1>7 DEF Keeps
  <1>13. Calling(t, "unfollow") \/ Follows(t)
    BY <1>1, <1>3, <1>5, <1>14 DEF Follows, Calling, UnfollowsFirst
  <1> QED
    BY <1>9, <1>10, <1>11, <1>12, <1>13 DEF MInv

\* remove_reason deletes rows or clears a reason.
LEMMA UnmarkTame == FollowTypeOK /\ (\E t \in Thread : Unmark(t)) => Tame /\ Keeps
  <1> SUFFICES ASSUME FollowTypeOK, NEW t \in Thread, Unmark(t) PROVE Tame /\ Keeps
    OBVIOUS
  <1>1. \A i \in Ids : follows[i] \in Row
    BY DEF FollowTypeOK
  <1>2. Ids' \subseteq Ids /\ \A i \in Ids' : follows'[i].muted = follows[i].muted
    BY <1>1, WithMutedFields DEF Unmark, Ids
  <1>3. inserted' = inserted /\ inserted \in Nat
    BY DEF Unmark, FollowTypeOK
  <1> QED
    BY <1>2, <1>3 DEF Tame, Keeps

\* What is no step of the service begins a call, or ends one.
LEMMA Around ==
    ASSUME IInv, MInv, NEW t \in Thread, Arrive(t) \/ Proceed(t), ~ServiceStep(t)
    PROVE  MInv' /\ Keeps
  <1>1. /\ \/ Tame /\ Keeps
           \/ SameRows
        /\ \/ call' = call
           \/ call' = [call EXCEPT ![t] = NoCall]
           \/ \E op \in {"follow", "unfollow", "remove"}, reason \in Reason :
                call' = [call EXCEPT ![t] = Called(op, reason)]
    <2>1. CASE DestroyedUserMap(t)
      <3>1. FollowTypeOK
        BY DEF IInv
      <3>2. CASE Unmark(t)
        BY <3>1, <3>2, UnmarkTame DEF Unmark
      <3>3. CASE ~Unmark(t)
        BY <2>1, <3>3 DEF DestroyedUserMap, SameRows
      <3> QED
        BY <3>2, <3>3
    <2>2. CASE TakeJob(t)
      BY <2>2 DEF TakeJob, followVars, SameRows, Reason
    <2>3. CASE Press(t, "follow") \/ Press(t, "unfollow") \/ DestroyUserMap(t)
      BY <2>3 DEF Press, DestroyUserMap, SameRows, Reason
    <2> QED
      BY <2>1, <2>2, <2>3
      DEF Arrive, Proceed, AskForAccess, Contribute, Respond, Grant, Revoke, Save, Share,
          ListUserMaps, ListRequests, DestroyRequest, Revoked, Pressed, Fail, JobDone, JobFails,
          followVars, SameRows
  <1>2. FollowTypeOK /\ Tame /\ Keeps
    BY <1>1, SameRowsTame DEF IInv
  <1>3. \A p \in Thread : UnfollowsFirst(call[p]) /\ LookedWell(call[p])
    BY DEF MInv
  <1>4. CASE call' = call
    <2>1. call' = [call EXCEPT ![t] = call[t]]
      BY <1>2, <1>4 DEF FollowTypeOK
    <2>2. PICK c : c = call[t]
      OBVIOUS
    <2>3. UnfollowsFirst(c) /\ LookedWell(c)
      BY <1>3, <2>2
    <2>4. UnfollowsFirst(c)' /\ LookedWell(c)'
      BY <1>2, <2>3, TameRows
    <2> QED
      BY <1>2, <2>1, <2>2, <2>4, OneMoves
  <1>5. CASE call' = [call EXCEPT ![t] = NoCall]
    <2>1. UnfollowsFirst(NoCall)' /\ LookedWell(NoCall)'
      BY DEF NoCall, UnfollowsFirst, LookedWell
    <2> QED
      BY <1>2, <1>5, <2>1, OneMoves
  <1>6. ASSUME NEW op \in {"follow", "unfollow", "remove"}, NEW reason \in Reason,
               call' = [call EXCEPT ![t] = Called(op, reason)]
        PROVE  MInv'
    <2>1. UnfollowsFirst(Called(op, reason))' /\ LookedWell(Called(op, reason))'
      BY DEF Called, NoCall, Entry, UnfollowsFirst, LookedWell
    <2> QED
      BY <1>2, <1>6, <2>1, OneMoves
  <1> QED
    BY <1>1, <1>2, <1>4, <1>5, <1>6

\* Every step keeps MInv, and only a step of a follow makes or unmutes a row.
LEMMA MStep ==
    ASSUME IInv, MInv, Next
    PROVE  /\ MInv'
           /\ Keeps \/ \E t \in Thread : Follows(t)
  <1>1. PICK t \in Thread : Arrive(t) \/ Proceed(t)
    BY DEF Next
  <1>2. FollowTypeOK
    BY DEF IInv
  <1>3. CASE ~ServiceStep(t)
    BY <1>1, <1>3, Around
  <1>4. CASE ServiceStep(t)
    <2>1. CallStep(t)
      BY <1>4 DEF ServiceStep
    <2>2. CASE ~(At(t, "write") /\ call[t].id # 0)
      BY <1>2, <2>1, <2>2, GentleSteps
    <2>3. CASE At(t, "write") /\ call[t].id # 0
      <3>1. Write(t)
        BY <2>1, <2>3 DEF CallStep, ShouldAutoFollow, Find, Create, Insert, Validate,
                          ReadReason, Mark, At
      <3> QED
        BY <1>2, <2>3, <3>1, WriteStep
    <2> QED
      BY <2>2, <2>3
  <1> QED
    BY <1>3, <1>4

\* There is no row and no call yet.
LEMMA MInit == Init => MInv
  BY DEF Init, FollowInit, MInv, MutedIsFirst, UnfollowsFirst, LookedWell, NoCall, Ids

\* As long as a row says that the user has unfollowed the entity, only a step of a follow
\* gives him one that says otherwise, and of an automatic one only if the unfollow was
\* written after it looked: for any number of threads, whatever calls run at the same time
\* and however many rows the races of first_or_create leave.
THEOREM UnfollowStays == Spec => UnfollowIsKept
  <1> DEFINE A == \A i \in DOMAIN follows' :
                    /\ \E k \in Ids : follows[k].muted = "t"
                    /\ follows'[i].muted # "t"
                    /\ i \in Ids => follows[i].muted = "t"
                    => \E t \in Thread :
                         /\ call[t].op = "follow" /\ call'[t] # call[t]
                         /\ call[t].reason \notin Automatic \/ call[t].crossed
  <1>1. IInv /\ MInv /\ [Next]_vars => MInv'
    BY MStep DEF vars, followVars, MInv, MutedIsFirst, UnfollowsFirst, LookedWell, Ids
  <1>2. ASSUME IInv, MInv, [Next]_vars PROVE [A]_followVars
    <2>1. CASE UNCHANGED vars
      BY <2>1 DEF vars, followVars
    <2>2. CASE Keeps
      BY <2>2 DEF Keeps, Ids
    <2>3. CASE \E t \in Thread : Follows(t)
      <3>1. PICK t \in Thread : Follows(t)
        BY <2>3
      <3>2. call[t].op = "follow" /\ call'[t] # call[t]
        BY <3>1 DEF Follows
      <3>3. ASSUME NEW k \in Ids, follows[k].muted = "t"
            PROVE  call[t].reason \notin Automatic \/ call[t].crossed
        <4>1. LookedWell(call[t])
          BY <1>2 DEF MInv
        <4> QED
          BY <3>1, <3>3, <4>1 DEF Follows, LookedWell
      <3> QED
        BY <3>2, <3>3
    <2> QED
      BY <1>2, <2>1, <2>2, <2>3, MStep
  <1>3. IInv /\ MInv /\ [Next]_vars => [A]_followVars
    BY <1>2
  <1>4. UnfollowIsKept <=> [][A]_followVars
    BY DEF UnfollowIsKept
  <1> HIDE DEF A
  <1> QED
    BY <1>1, <1>3, <1>4, MInit, Invariance, PTL DEF Spec
=============================================================================
