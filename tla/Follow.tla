-------------------------------- MODULE Follow --------------------------------
(***************************************************************************)
(* FollowService: the rows of the tables follows and follow_reasons that   *)
(* belong to one user and one entity (a map or a topic), and the calls     *)
(* that read and write them.  Rows of another user or entity are never     *)
(* touched by these calls, so one pair stands for all.  (The validation of *)
(* Follow would also see a followed entity of the other kind that has the  *)
(* same number; there is none here.)                                       *)
(*                                                                         *)
(* A call runs in a thread: one of puma's, or the one of the job worker.   *)
(* Each SQL statement is a step, since Postgres isolates transactions at   *)
(* READ COMMITTED: between two statements of one thread another one may    *)
(* commit.  A follow and its follow_reason are inserted and deleted in one *)
(* transaction, so they are one row here.  No index keeps the pair unique: *)
(* the validation of Follow is a SELECT like any other.                    *)
(*                                                                         *)
(* ActiveRecord writes a column only if it differs from what was loaded,   *)
(* and an UPDATE of a row that is gone changes nothing and raises nothing. *)
(***************************************************************************)
EXTENDS Naturals, FiniteSets, FiniteSetsExt

CONSTANTS
    Thread,      \* threads that can call the service at a time
    AutoFollow   \* the automatic reasons the user's settings ask for

Reason == {"created", "contributed", "followed", "shared_on"}
Automatic == {"created", "contributed"}

ASSUME AutoFollowAssumption == AutoFollow \subseteq Automatic

VARIABLES
    follows,   \* the rows, by id
    inserted,  \* how many ids the sequence of the table has given out
    call       \* call[t]: the call thread t is in, with what it has loaded

followVars == <<follows, inserted, call>>

\* Columns are NULL until they are written.
Column == {"null", "t", "f"}

Row == [muted : Column, reasons : [Reason -> Column]]

NewRow(muted) == [muted |-> muted, reasons |-> [r \in Reason |-> "null"]]

\* `id' is 0 for a record that is not saved; `fresh' says that the call holds the
\* follow_reason it made itself; `crossed' is history: an unfollow was written
\* since the call last looked whether the user had muted the entity.
NoCall == [op |-> "none", pc |-> "idle", reason |-> "followed", id |-> 0,
           row |-> NewRow("null"), fresh |-> FALSE, crossed |-> FALSE]

Ids == DOMAIN follows
FirstId == Min(Ids)

Calling(t, op) == call[t].op = op
At(t, pc) == call[t].pc = pc

\* Where a call starts: automatic follows first ask should_auto_follow.
Entry(op, reason) == IF op = "follow" /\ reason \in Automatic THEN "auto" ELSE "find"

Called(op, reason) == [NoCall EXCEPT !.op = op, !.reason = reason, !.pc = Entry(op, reason)]

\* A call is over when it has returned or raised; the thread goes on from there.
Over(t) == call[t].pc \in {"returned", "raised"}

\* What a step leaves of a call, or of a row.
WithPc(c, pc) == [c EXCEPT !.pc = pc]
WithRow(c, id, row, pc) == [c EXCEPT !.id = id, !.row = row, !.pc = pc]
WithNewRow(c, id, row, pc) == [WithRow(c, id, row, pc) EXCEPT !.fresh = TRUE]
WithCrossed(c, crossed) == [c EXCEPT !.crossed = crossed]
WithMuted(row, muted) == [row EXCEPT !.muted = muted]
WithReason(row, reason, value) == [row EXCEPT !.reasons[reason] = value]

Goto(t, pc) == call' = [call EXCEPT ![t] = WithPc(call[t], pc)]

SameRows == UNCHANGED <<follows, inserted>>

-----------------------------------------------------------------------------
\* Mutant of MayAutoFollow: an unfollow does not hold automatic follows off.
MayAutoFollow_Muted(reason) == reason \in AutoFollow

\* should_auto_follow, with the first row of the pair if there is one.
MayAutoFollow(reason) ==
    /\ Ids # {} => follows[FirstId].muted # "t"
    /\ reason \in AutoFollow

ShouldAutoFollow(t) ==
    /\ At(t, "auto")
    /\ LET pc == IF MayAutoFollow(call[t].reason) THEN "find" ELSE "returned"
       IN  call' = [call EXCEPT ![t] = WithCrossed(WithPc(call[t], pc), FALSE)]
    /\ SameRows

\* Follow.where(...).first
Find(t) ==
    /\ At(t, "find")
    /\ IF Ids = {}
       THEN Goto(t, IF Calling(t, "follow") THEN "create" ELSE "returned")
       ELSE LET pc == IF Calling(t, "remove") THEN "reason" ELSE "validate"
            IN  call' = [call EXCEPT ![t] = WithRow(call[t], FirstId, follows[FirstId], pc)]
    /\ SameRows

\* first_or_create: create validates that the user has no other follow; when one
\* has come up since Find, the record stays unsaved and update tries again.
Create(t) ==
    /\ At(t, "create")
    /\ Goto(t, IF Ids = {} THEN "insert" ELSE "validate")
    /\ SameRows

Inserting(t, muted, pc) ==
    /\ inserted' = inserted + 1
    /\ follows' = [i \in Ids \cup {inserted'} |->
                      IF i = inserted' THEN NewRow(muted) ELSE follows[i]]
    /\ call' = [call EXCEPT ![t] = WithNewRow(call[t], inserted', NewRow(muted), pc)]

Insert(t) ==
    /\ At(t, "insert")
    /\ Inserting(t, "null", "validate")

\* The validation of follow.update: no other row has the pair.
Unique(id) == Ids \subseteq {id}

Validate(t) ==
    /\ At(t, "validate")
    /\ Goto(t, IF Unique(call[t].id) THEN "write" ELSE "raised")
    /\ SameRows

\* The write of follow.update(muted: ...).  An unfollow crosses every follow that
\* is under way.
Write(t) ==
    LET muted == IF Calling(t, "unfollow") THEN "t" ELSE "f"
        id == call[t].id
        next == IF Calling(t, "unfollow") THEN "returned" ELSE "reason"
    IN  /\ At(t, "write")
        /\ \/ /\ id = 0
              /\ Inserting(t, muted, next)
           \/ /\ id # 0
              /\ follows' = IF id \in Ids /\ call[t].row.muted # muted
                            THEN [follows EXCEPT ![id] = WithMuted(follows[id], muted)]
                            ELSE follows
              /\ call' = [p \in Thread |->
                            IF p = t THEN WithPc(call[t], next)
                            ELSE WithCrossed(call[p], call[p].crossed \/ Calling(t, "unfollow"))]
              /\ UNCHANGED inserted

\* follow.follow_reason: nil, and an exception, when the follow is gone.
ReadReason(t) ==
    LET id == call[t].id
        reason == call[t].reason
        row == IF call[t].fresh THEN call[t].row ELSE follows[id]
    IN  /\ At(t, "reason")
        /\ IF ~call[t].fresh /\ id \notin Ids
           THEN Goto(t, "raised")
           ELSE LET pc == IF Calling(t, "follow") /\ row.reasons[reason] = "t"
                          THEN "returned" ELSE "mark"
                IN  call' = [call EXCEPT ![t] = WithRow(call[t], id, row, pc)]
        /\ SameRows

\* update_attribute(reason, true)
Mark(t) ==
    LET id == call[t].id IN
    /\ At(t, "mark")
    /\ Calling(t, "follow")
    /\ follows' = IF id \in Ids
                  THEN [follows EXCEPT ![id] = WithReason(follows[id], call[t].reason, "t")]
                  ELSE follows
    /\ Goto(t, "returned")
    /\ UNCHANGED inserted

HasReason(reasons) == \E r \in Reason : reasons[r] = "t"

\* remove_reason: the reason is cleared, then the follow destroyed when none of
\* those LOADED is left.  It runs inside the transaction that destroys a UserMap,
\* so both show when that commits.
Unmark(t) ==
    LET id == call[t].id
        reason == call[t].reason
        left == WithReason(call[t].row, reason, "f").reasons
    IN  /\ At(t, "mark")
        /\ Calling(t, "remove")
        /\ follows' =
             IF ~HasReason(left) THEN [i \in Ids \ {id} |-> follows[i]]
             ELSE IF id \in Ids /\ call[t].row.reasons[reason] # "f"
                  THEN [follows EXCEPT ![id] = WithReason(follows[id], reason, "f")]
                  ELSE follows
        /\ call' = [call EXCEPT ![t] = NoCall]
        /\ UNCHANGED inserted

\* The steps of a call; Unmark is left to the transaction it is part of.
CallStep(t) ==
    \/ ShouldAutoFollow(t) \/ Find(t) \/ Create(t) \/ Insert(t)
    \/ Validate(t) \/ Write(t) \/ ReadReason(t) \/ Mark(t)

-----------------------------------------------------------------------------
FollowInit ==
    /\ follows = [i \in {} |-> NewRow("null")]
    /\ inserted = 0
    /\ call = [t \in Thread |-> NoCall]

CallType ==
    [op : {"none", "follow", "unfollow", "remove"},
     pc : {"idle", "auto", "find", "create", "insert", "validate", "write",
           "reason", "mark", "returned", "raised"},
     reason : Reason, id : Nat, row : Row, fresh : BOOLEAN, crossed : BOOLEAN]

\* Type invariant of the rows and the calls.
FollowTypeOK ==
    /\ inserted \in Nat
    /\ Ids \subseteq 1..inserted
    /\ \A i \in Ids : follows[i] \in Row
    /\ call \in [Thread -> CallType]

\* At most one row says that the user follows the entity: what the validation of
\* models/follow.rb 10 declares, "This entity is already followed by this user".
AtMostOneFollow == Cardinality(Ids) <= 1

\* As long as a row says that the user has unfollowed the entity, no step gives the user
\* one that says otherwise, new or unmuted, but a step of a follow that was asked for (the
\* button, or letting the user in), or of an automatic one (a background job, for what the
\* user created or contributed) that looked before the unfollow was written: services/
\* follow_service.rb 40.
UnfollowIsKept ==
    [][\A i \in DOMAIN follows' :
         /\ \E k \in Ids : follows[k].muted = "t"
         /\ follows'[i].muted # "t"
         /\ i \in Ids => follows[i].muted = "t"
         => \E t \in Thread :
              /\ call[t].op = "follow" /\ call'[t] # call[t]
              /\ call[t].reason \notin Automatic \/ call[t].crossed]_followVars
=============================================================================
