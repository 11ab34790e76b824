-------------------------------- MODULE Access --------------------------------
(***************************************************************************)
(* One user and one map of another owner: the user's access requests       *)
(* (models/access_request.rb), the user_maps that make the user an editor  *)
(* (models/user_map.rb), what AccessController does to them, and what the  *)
(* service of module Follow is called for on the way.                      *)
(*                                                                         *)
(* The owner's list of editors names every user, but what it does to one   *)
(* reads and writes the rows of that one only.  A web thread serves one    *)
(* request at a time, a statement or a transaction per step; a background  *)
(* job runs in the worker, is tried again when it raises, and is given up  *)
(* after MaxAttempts or when its record is gone.  The mails and the        *)
(* notifications of the owner are left out.  The map may be a commons map, *)
(* so that the user can follow it and contribute without being an editor.  *)
(***************************************************************************)
EXTENDS Follow

CONSTANTS
    Web,          \* threads of the web server; the others are job workers
    MaxTurns,     \* bound on what people do
    MaxAttempts   \* runs of a job that keeps raising (25 in delayed_job)

ASSUME WebAssumption == Web \subseteq Thread
ASSUME MaxTurnsAssumption == MaxTurns \in Nat
ASSUME MaxAttemptsAssumption == MaxAttempts \in Nat \ {0}

VARIABLES
    requests,    \* the rows of access_requests, by id
    userMaps,    \* the ids of the rows of user_maps
    jobs,        \* the rows of delayed_jobs
    work,        \* work[t]: the request or job thread t is at
    turns,       \* what people have done so far; also the source of ids
    told,        \* user_maps whose user has been notified
    overlapped,  \* history: something started while another thread was busy
    failed       \* history: a call of the service raised

accessVars == <<requests, userMaps, jobs, turns, told, overlapped, failed>>
vars == <<followVars, accessVars, work>>

Turn == 1..MaxTurns
Worker == Thread \ Web

Answer == [approved : BOOLEAN, answered : BOOLEAN]
Unanswered == [approved |-> FALSE, answered |-> FALSE]

Job == [kind : {"shared", "contributed"}, id : Turn, attempts : 0..MaxAttempts]

\* `turn' is when the work was started, `row' the request `id' as it was loaded,
\* `todo' the rows of a batch that find_each has still to destroy.
Task(op, pc, turn, id, row, attempts) ==
    [op |-> op, pc |-> pc, turn |-> turn, id |-> id, row |-> row, todo |-> {},
     attempts |-> attempts]

Idle == Task("idle", "idle", 0, 0, Unanswered, 0)

Busy(t) == work[t].op # "idle"
Stage(t, pc) == work[t].pc = pc

Begin(t, w) ==
    /\ ~Busy(t)
    /\ work' = [work EXCEPT ![t] = w]
    /\ overlapped' = (overlapped \/ \E p \in Thread : Busy(p))

End(t) == work' = [work EXCEPT ![t] = Idle]

\* A person's request arrives at a web thread.
Visit(t, w) ==
    /\ t \in Web
    /\ turns < MaxTurns
    /\ turns' = turns + 1
    /\ Begin(t, w)

-----------------------------------------------------------------------------
\* The user asks for access: AccessRequest.create.
AskForAccess(t) ==
    /\ Visit(t, Idle)
    /\ requests' = [r \in DOMAIN requests \cup {turns'} |->
                       IF r = turns' THEN Unanswered ELSE requests[r]]
    /\ UNCHANGED <<followVars, userMaps, jobs, told, failed>>

\* The user puts a topic on the map: the callback after_created_async of Mapping.
Contribute(t) ==
    /\ Visit(t, Idle)
    /\ jobs' = jobs \cup {[kind |-> "contributed", id |-> turns', attempts |-> 0]}
    /\ UNCHANGED <<followVars, requests, userMaps, told, failed>>

\* The owner answers a request, from the mail or from the page, and as often as
\* the links are followed: AccessRequest.find.
Respond(t, op) ==
    /\ \E r \in DOMAIN requests :
         Visit(t, Task(op, "save", turns + 1, r, requests[r], 0))
    /\ UNCHANGED <<followVars, requests, userMaps, jobs, told, failed>>

\* What `save' writes: the columns that differ from what was loaded.
Written(row, loaded, yes) ==
    [approved |-> IF loaded.approved = yes THEN row.approved ELSE yes, answered |-> TRUE]

\* The save of approve and deny.
Save(t) ==
    LET r == work[t].id
        yes == work[t].op = "approve"
    IN  /\ Stage(t, "save")
        /\ requests' = IF r \in DOMAIN requests
                       THEN [requests EXCEPT ![r] = Written(requests[r], work[t].row, yes)]
                       ELSE requests
        /\ work' = [work EXCEPT ![t] = IF yes THEN [work[t] EXCEPT !.pc = "share"] ELSE Idle]
        /\ UNCHANGED <<followVars, userMaps, jobs, turns, told, overlapped, failed>>

\* Mutant of SharedJob: the callback is not enqueued.
SharedJob_None(id) == {}

SharedJob(id) == {[kind |-> "shared", id |-> id, attempts |-> 0]}

\* UserMap.create, by approve and by add_new_collaborators, with its callback
\* after_created_async: the row and the job are committed together.
Share(t) ==
    LET id == work[t].turn IN
    /\ Stage(t, "share")
    /\ userMaps' = userMaps \cup {id}
    /\ jobs' = jobs \cup SharedJob(id)
    /\ End(t)
    /\ UNCHANGED <<followVars, requests, turns, told, overlapped, failed>>

\* The owner's list has the user: add_new_collaborators, unless the user is an
\* editor already, when nothing happens.
Grant(t) ==
    /\ userMaps = {}
    /\ Visit(t, Task("grant", "share", turns + 1, 0, Unanswered, 0))
    /\ UNCHANGED <<followVars, requests, userMaps, jobs, told, failed>>

\* The owner's list has not: remove_old_collaborators, if the user is an editor.
Revoke(t) ==
    /\ userMaps # {}
    /\ Visit(t, Task("revoke", "list", 0, 0, Unanswered, 0))
    /\ UNCHANGED <<followVars, requests, userMaps, jobs, told, failed>>

\* user_maps.where(...).find_each loads the rows ...
ListUserMaps(t) ==
    /\ Stage(t, "list")
    /\ work' = [work EXCEPT ![t].todo = userMaps, ![t].pc = "destroy"]
    /\ UNCHANGED <<followVars, accessVars>>

\* ... and destroys one after the other; before_destroyed calls remove_reason.
DestroyUserMap(t) ==
    /\ Stage(t, "destroy")
    /\ work[t].todo # {}
    /\ call[t].op = "none"
    /\ call' = [call EXCEPT ![t] = Called("remove", "shared_on")]
    /\ UNCHANGED <<follows, inserted, accessVars, work>>

\* The transaction commits: with what remove_reason writes, if it found a follow,
\* or without.
DestroyedUserMap(t) ==
    LET id == Min(work[t].todo) IN
    /\ Stage(t, "destroy")
    /\ call[t].op = "remove"
    /\ \/ Unmark(t)
       \/ /\ At(t, "returned")
          /\ call' = [call EXCEPT ![t] = NoCall]
          /\ UNCHANGED <<follows, inserted>>
    /\ userMaps' = userMaps \ {id}
    /\ work' = [work EXCEPT ![t].todo = @ \ {id}]
    /\ UNCHANGED <<requests, jobs, turns, told, overlapped, failed>>

\* Mutant of OldRequests: the requests that were answered are kept.
OldRequests_Open == {r \in DOMAIN requests : ~requests[r].answered}

\* access_requests.where(user_id: old_user_id)
OldRequests == DOMAIN requests

ListRequests(t) ==
    /\ Stage(t, "destroy")
    /\ work[t].todo = {}
    /\ work' = [work EXCEPT ![t].todo = OldRequests, ![t].pc = "forget"]
    /\ UNCHANGED <<followVars, accessVars>>

DestroyRequest(t) ==
    LET r == Min(work[t].todo) IN
    /\ Stage(t, "forget")
    /\ work[t].todo # {}
    /\ requests' = [q \in DOMAIN requests \ {r} |-> requests[q]]
    /\ work' = [work EXCEPT ![t].todo = @ \ {r}]
    /\ UNCHANGED <<followVars, userMaps, jobs, turns, told, overlapped, failed>>

Revoked(t) ==
    /\ Stage(t, "forget")
    /\ work[t].todo = {}
    /\ End(t)
    /\ UNCHANGED <<followVars, accessVars>>

\* The buttons of MapsController#follow and #unfollow.
Press(t, op) ==
    /\ Visit(t, Task(op, "call", 0, 0, Unanswered, 0))
    /\ call' = [call EXCEPT ![t] = Called(op, "followed")]
    /\ UNCHANGED <<follows, inserted, requests, userMaps, jobs, told, failed>>

Pressed(t) ==
    /\ Stage(t, "call")
    /\ At(t, "returned")
    /\ call' = [call EXCEPT ![t] = NoCall]
    /\ End(t)
    /\ UNCHANGED <<follows, inserted, accessVars>>

\* An exception ends a request; a transaction it leaves is rolled back.
Fail(t) ==
    /\ t \in Web
    /\ At(t, "raised")
    /\ call' = [call EXCEPT ![t] = NoCall]
    /\ failed' = TRUE
    /\ End(t)
    /\ UNCHANGED <<follows, inserted, requests, userMaps, jobs, turns, told, overlapped>>

-----------------------------------------------------------------------------
\* The worker takes a job.  A record that is gone (a user_map, or a mapping that has
\* been taken off the map) cannot be deserialized: the job fails for good.
TakeJob(t) ==
    /\ t \in Worker
    /\ \E j \in jobs :
         /\ jobs' = jobs \ {j}
         /\ \/ /\ j.kind = "shared" => j.id \notin userMaps
               /\ ~Busy(t)
               /\ UNCHANGED <<followVars, work, overlapped>>
            \/ /\ j.kind = "shared" => j.id \in userMaps
               /\ Begin(t, Task(j.kind, "job", 0, j.id, Unanswered, j.attempts + 1))
               /\ call' = [call EXCEPT ![t] = Called("follow",
                              IF j.kind = "shared" THEN "shared_on" ELSE "contributed")]
               /\ UNCHANGED <<follows, inserted>>
    /\ UNCHANGED <<requests, userMaps, turns, told, failed>>

\* after_created_async of UserMap goes on to tell the user: access_approved or
\* invite_to_edit.
JobDone(t) ==
    /\ Stage(t, "job")
    /\ At(t, "returned")
    /\ told' = IF work[t].op = "shared" THEN told \cup {work[t].id} ELSE told
    /\ call' = [call EXCEPT ![t] = NoCall]
    /\ End(t)
    /\ UNCHANGED <<follows, inserted, requests, userMaps, jobs, turns, overlapped, failed>>

\* Mutant of Again: a failed job is tried for ever.
Again_Always(attempts) == TRUE

Again(attempts) == attempts < MaxAttempts

\* A job that raises is put back, unless it has been tried often enough.
JobFails(t) ==
    /\ Stage(t, "job")
    /\ At(t, "raised")
    /\ jobs' = IF Again(work[t].attempts)
               THEN jobs \cup {[kind |-> work[t].op, id |-> work[t].id,
                                attempts |-> work[t].attempts]}
               ELSE jobs
    /\ failed' = TRUE
    /\ call' = [call EXCEPT ![t] = NoCall]
    /\ End(t)
    /\ UNCHANGED <<follows, inserted, requests, userMaps, turns, told, overlapped>>

ServiceStep(t) ==
    /\ CallStep(t)
    /\ UNCHANGED <<accessVars, work>>

-----------------------------------------------------------------------------
Init ==
    /\ FollowInit
    /\ requests = [r \in {} |-> Unanswered]
    /\ userMaps = {}
    /\ jobs = {}
    /\ work = [t \in Thread |-> Idle]
    /\ turns = 0
    /\ told = {}
    /\ overlapped = FALSE
    /\ failed = FALSE

\* What people start.
Arrive(t) ==
    \/ AskForAccess(t) \/ Contribute(t)
    \/ Respond(t, "approve") \/ Respond(t, "deny")
    \/ Grant(t) \/ Revoke(t)
    \/ Press(t, "follow") \/ Press(t, "unfollow")

\* What a thread does with it.
Proceed(t) ==
    \/ Save(t) \/ Share(t)
    \/ ListUserMaps(t) \/ DestroyUserMap(t) \/ DestroyedUserMap(t)
    \/ ListRequests(t) \/ DestroyRequest(t) \/ Revoked(t)
    \/ Pressed(t) \/ Fail(t)
    \/ TakeJob(t) \/ JobDone(t) \/ JobFails(t)
    \/ ServiceStep(t)

Next == \E t \in Thread : Arrive(t) \/ Proceed(t)

Fairness == \A t \in Thread : WF_vars(Proceed(t))

Spec == Init /\ [][Next]_vars /\ Fairness

-----------------------------------------------------------------------------
WorkType ==
    [op : {"idle", "approve", "deny", "grant", "revoke", "follow", "unfollow",
           "shared", "contributed"},
     pc : {"idle", "save", "share", "list", "destroy", "forget", "call", "job"},
     turn : 0..MaxTurns, id : 0..MaxTurns, row : Answer, todo : SUBSET Turn,
     attempts : 0..MaxAttempts]

\* Type invariant.  A thread is in a call of the service only for work it has.
TypeOK ==
    /\ FollowTypeOK
    /\ DOMAIN requests \subseteq Turn
    /\ \A r \in DOMAIN requests : requests[r] \in Answer
    /\ userMaps \subseteq Turn
    /\ jobs \subseteq Job
    /\ work \in [Thread -> WorkType]
    /\ \A t \in Thread : call[t].op # "none" => work[t].pc \in {"call", "job", "destroy"}
    /\ turns \in 0..MaxTurns
    /\ told \subseteq Turn
    /\ overlapped \in BOOLEAN
    /\ failed \in BOOLEAN

\* A request stays approved only as long as its user can edit: whatever answers,
\* invitations and removals of the owner cross each other, once none of them is
\* under way an approved request (access_request.rb 10) has a user_map, and a
\* removal (map.rb 131) takes the requests along.
ApprovedHaveAccess ==
    (\A t \in Thread : work[t].op \notin {"approve", "revoke"})
        => ((\E r \in DOMAIN requests : requests[r].approved) => userMaps # {})

\* As long as nothing overlaps, the reason `shared_on' is there exactly for an
\* editor, once the jobs of user_map.rb 20 have run, and no call of the service
\* raises or finds a second follow, however often people are let in and removed.
FollowMatchesAccess ==
    ~overlapped =>
        /\ AtMostOneFollow
        /\ ~failed
        /\ (\A t \in Thread : ~Busy(t)) /\ (\A j \in jobs : j.kind # "shared")
           => (userMaps # {} <=> \E i \in Ids : follows[i].reasons["shared_on"] = "t")

\* Whoever is let in is told in the end, unless removed before or a call of the
\* service has raised: the notification comes after the follow (user_map.rb 20-25).
EditorsAreTold ==
    \A id \in Turn : (id \in userMaps) ~> (id \in told \/ id \notin userMaps \/ failed)
=============================================================================
