------------------------------- MODULE MCAccess -------------------------------
(***************************************************************************)
(* Instances of Access for TLC.                                            *)
(***************************************************************************)
EXTENDS Access, TLC

CONSTANTS w1, w2, worker

\* The settings of a user who also follows what he or she contributes to.
FollowsContributions == {"created", "contributed"}

\* The user has asked for access, as if in the first turn, and nothing else yet.
Asked ==
    /\ FollowInit
    /\ requests = [r \in {1} |-> Unanswered]
    /\ userMaps = {}
    /\ jobs = {}
    /\ work = [t \in Thread |-> Idle]
    /\ turns = 1
    /\ told = {}
    /\ overlapped = FALSE
    /\ failed = FALSE

SpecAsked == Asked /\ [][Next]_vars /\ Fairness
=============================================================================
