--------------------------- MODULE EventLifecycle ---------------------------
(***************************************************************************)
(* What the handler promises about an interruption event, whatever the     *)
(* monitors send again: it waits until one of the workers takes it, is     *)
(* handled by that worker alone, and then is settled (the node was         *)
(* drained), given up (it is forgotten, so that the next announcement      *)
(* starts over) or abandoned (it stays where it is, and is not handled     *)
(* again).  Settled events are collected from time to time.                *)
(***************************************************************************)
EXTENDS Integers, FiniteSets

CONSTANTS
  Event,     \* events nobody but their worker takes out of the store
  Workers    \* number of workers

VARIABLE phase   \* Event -> where in its life it is

Phases == {"absent", "waiting", "taken", "settled", "abandoned"}

Taken == {e \in Event : phase[e] = "taken"}

Init == phase = [e \in Event |-> "absent"]

Moves(e, from, to) ==
  /\ phase[e] = from
  /\ phase' = [phase EXCEPT ![e] = to]

Arrive(e) == Moves(e, "absent", "waiting")

Take(e) == Cardinality(Taken) < Workers /\ Moves(e, "waiting", "taken")

Settle(e) == Moves(e, "taken", "settled")

GiveUp(e) == Moves(e, "taken", "absent")

Abandon(e) == Moves(e, "taken", "abandoned")

Collect ==
  phase' = [e \in Event |-> IF phase[e] = "settled" THEN "absent" ELSE phase[e]]

Next ==
  \/ \E e \in Event : Arrive(e) \/ Take(e) \/ Settle(e) \/ GiveUp(e) \/ Abandon(e)
  \/ Collect

Spec == Init /\ [][Next]_phase
=============================================================================
