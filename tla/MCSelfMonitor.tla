---------------------------- MODULE MCSelfMonitor ----------------------------
(* Instances of SelfMonitor for TLC.                                       *)
EXTENDS SelfMonitor

CONSTANTS s1, s2, d1, d2

OneSpot == {s1}
TwoSpot == {s1, s2}
OneNode == {d1}
TwoNodes == {d1, d2}
OneOfEach == {s1, d1}
TwoSpotOneNode == {s1, s2, d1}
OneSpotTwoNodes == {s1, d1, d2}
MCMin == [g \in Groups |-> 0]
MCMax == [g \in Groups |-> 2]

=============================================================================
