------------------------------ MODULE MCCable ------------------------------
(* Instances of Cable for TLC. *)
EXTENDS Cable

CONSTANTS t1, t2, s1, s2, m1, m2

MCTopics == {t1, t2}
MCSynapses == {s1, s2}
MCEnds == [s \in {s1, s2} |-> IF s = s1 THEN <<t1, t2>> ELSE <<t2, t1>>]
MCMetacodes == {m1, m2}
MCMetacode == [t \in {t1, t2} |-> IF t = t1 THEN m1 ELSE m2]
MCOwn == {t2, s2}

Budget(o, m, e, c, f) ==
    [others |-> o, makes |-> m, edits |-> e, clicks |-> c, filters |-> f]
MCBudgets == {Budget(1, 1, 1, 1, 0), Budget(2, 0, 1, 1, 0), Budget(2, 0, 0, 1, 1),
              Budget(3, 0, 0, 0, 0), Budget(0, 1, 1, 1, 1), Budget(0, 2, 0, 1, 1),
              Budget(1, 0, 1, 2, 0), Budget(0, 1, 2, 2, 0)}
=============================================================================
