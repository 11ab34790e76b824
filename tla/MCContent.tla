----------------------------- MODULE MCContent -----------------------------
(* Instances of Content for TLC. *)
EXTENDS Content

CONSTANTS u1, u2, m1, m2, t1, t2, s1

MCUsers == {u1, u2}
MCMaps == {m1, m2}
MCTopics == {t1, t2}
MCSynapses == {s1}
MCEnds == [s \in {s1} |-> {t1, t2}]

Budget(m, t, s, e) == [map |-> m, topic |-> t, synapse |-> s, mapping |-> e]
MCRequests == {Budget(2, 1, 0, 0), Budget(1, 2, 0, 0), Budget(1, 1, 0, 1),
               Budget(0, 2, 1, 1), Budget(0, 1, 2, 1), Budget(1, 0, 0, 2)}

(* The state some requests on: a map with a topic on it that defers to it, *)
(* and perhaps another user's map.                                         *)
MCInit ==
    \E p \in Perms, u \in Users :
        LET Owned(x, q) == [owner |-> x, perm |-> q, colls |-> {}]
        IN /\ \E other \in {None} \cup {Owned(u2, q) : q \in Perms} :
                 maps = [x \in Maps |-> IF x = m1 THEN Owned(u1, p) ELSE other]
           /\ topics = [t \in Topics |-> IF t = t1 THEN [owner |-> u, perm |-> p, defer |-> m1]
                                         ELSE None]
           /\ synapses = [s \in Synapses |-> None]
           /\ mappings = {<<m1, t1, u>>}
           /\ placing = {} /\ orphans = {} /\ strayed = {}
           /\ creating = [t \in Topics |-> None]
           /\ changing = [x \in Maps |-> None]
           /\ seen = [t \in Topics |-> IF t = t1 THEN {[perm |-> p, defer |-> m1]} ELSE {}]
           /\ left \in Requests

MCSpec == MCInit /\ [][Next]_vars
=============================================================================
