--------------------------- MODULE MCRealtimeServer ---------------------------
(***************************************************************************)
(* Instances of RealtimeServer for TLC.                                    *)
(***************************************************************************)
EXTENDS RealtimeServer, FiniteSets, TLC

CONSTANTS u1, u2, u3, m1, m2

\* One user moves between the two maps, the others stay on the first.
OpenedMaps == [u \in User |-> IF u = u1 THEN {m1, m2} ELSE {m1}]

\* One page per user: a connection is named after the user who opens it.
OwnPage == [s \in Socket |-> s]

\* The messages of the last event are output only: they tell no states apart.
View == <<serverVars, strays>>

Symmetric == Permutations({u2, u3})

\* The connection u3 is a second tab of user u2, or an earlier connection of its
\* page that the server has not given up yet.
TwoTabs == [s \in Socket |-> IF s = u3 THEN u2 ELSE s]
=============================================================================
