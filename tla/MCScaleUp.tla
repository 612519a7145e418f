------------------------------ MODULE MCScaleUp ------------------------------
(***************************************************************************)
(* ScaleUp for TLC: one spot instance in service, and up to two pods that  *)
(* scale up for it.                                                        *)
(***************************************************************************)
EXTENDS ScaleUp

CONSTANTS s1, s2, s3, d1, d2, p1, p2

TwoSpot == {s1, s2}
ThreeSpot == {s1, s2, s3}
OneOnDemand == {d1}
TwoOnDemand == {d1, d2}
OneRunning == {s1}
OnePod == {p1}
TwoPods == {p1, p2}
MCMin == [g \in Groups |-> 0]
MCMax == [g \in Groups |-> IF g = "spot" THEN 3 ELSE 2]
WideSpotMax == [g \in Groups |-> IF g = "spot" THEN 4 ELSE 1]
=============================================================================
