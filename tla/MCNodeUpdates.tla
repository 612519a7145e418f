--------------------------- MODULE MCNodeUpdates ----------------------------
(***************************************************************************)
(* NodeUpdates for TLC: one or two workers, on a spot and on an on-demand  *)
(* node, with every combination of the capacity-type labels.               *)
(***************************************************************************)
EXTENDS NodeUpdates

CONSTANTS w1, w2

OneTaint == [w \in Worker |-> "spot"]
TwoTaints == [w \in Worker |-> IF w = w1 THEN "spot" ELSE "scheduled"]

(***************************************************************************)
(* A copy matters only until it is sent back.  What a stale copy holds     *)
(* makes no difference: it is refused.                                     *)
(***************************************************************************)
CopyOf(p) ==
  IF pc[p] # "update" THEN <<>> ELSE IF stale[p] THEN <<{}>> ELSE <<copy[p], stale[p]>>

View ==
  <<object, pc, op, [p \in Proc |-> CopyOf(p)],
    [p \in Proc |-> late[p] /\ pc[p] \in {"refresh", "update"}], returned,
    IF pc["canceller"] = "idle" THEN <<>> ELSE removeVars, role, kind, expired, bounds>>
=============================================================================
