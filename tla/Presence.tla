------------------------------- MODULE Presence -------------------------------
(***************************************************************************)
(* What the store of the realtime server promises: who is on which map and *)
(* who is talking there.  A step is about one user and one map, except     *)
(* that a call of two may end for both, and that the server may forget     *)
(* everything at once.                                                     *)
(***************************************************************************)
CONSTANTS User, Map

VARIABLES
    on,       \* on[m] is the set of users listed on map m
    talking   \* talking[m] is the set of those in the map's call

Init ==
    /\ on = [m \in Map |-> {}]
    /\ talking = [m \in Map |-> {}]

\* u arrives on m, or arrives again: not in the call.
Enter(u, m) ==
    /\ on' = [on EXCEPT ![m] = @ \cup {u}]
    /\ talking' = [talking EXCEPT ![m] = @ \ {u}]

\* u goes away; the call ends if u leaves a single person behind.
Exit(u, m) ==
    /\ on' = [on EXCEPT ![m] = @ \ {u}]
    /\ \/ talking' = [talking EXCEPT ![m] = @ \ {u}]
       \/ /\ \E v \in User : on[m] = {u, v}
          /\ talking' = [talking EXCEPT ![m] = {}]

StartTalking(u, m) ==
    /\ on' = [on EXCEPT ![m] = @ \cup {u}]
    /\ talking' = [talking EXCEPT ![m] = @ \cup {u}]

\* u hangs up; the call ends for both when two people are on the map.
StopTalking(u, m) ==
    /\ u \in on[m]
    /\ \/ talking' = [talking EXCEPT ![m] = @ \ {u}]
       \/ /\ \E v \in User : on[m] = {u, v}
          /\ talking' = [talking EXCEPT ![m] = {}]
    /\ UNCHANGED on

Reset ==
    /\ on' = [m \in Map |-> {}]
    /\ talking' = [m \in Map |-> {}]

Next ==
    \/ Reset
    \/ \E u \in User, m \in Map :
          Enter(u, m) \/ Exit(u, m) \/ StartTalking(u, m) \/ StopTalking(u, m)

Spec == Init /\ [][Next]_<<on, talking>>
=============================================================================
