------------------------------ MODULE Capacity -------------------------------
(***************************************************************************)
(* Two calculations that decide a scale-down: how many spot nodes to have  *)
(* before an on-demand node is drained (CalculatePreScaleNodes in          *)
(* pkg/spotguard/health_checker.go), and whether the cluster has room      *)
(* without it (hasClusterCapacityBuffer in safety_checker.go).  The code   *)
(* computes in float64.  Here the quotients are kept exact, and rounding   *)
(* is a choice: a quotient that is exactly an integer may come out a       *)
(* little above it, and is then rounded up once more.                      *)
(*                                                                         *)
(* The specification evaluates both on an arbitrary input: one question is *)
(* put, and its answer computed.                                           *)
(***************************************************************************)
EXTENDS Integers

CONSTANTS MaxNodes,      \* bound: nodes of a group
          Percentages,   \* utilisations, targets and buffers, in percent
          MaxAmount      \* bound: CPU or memory of the cluster, in units

ASSUME CapacityAssumption ==
  /\ MaxNodes \in Nat /\ MaxAmount \in Nat
  /\ Percentages \subseteq Nat

VARIABLES question,   \* the input
          answered,   \* the call has returned
          nodes,      \* what CalculatePreScaleNodes returned
          room        \* what hasClusterCapacityBuffer returned

capacityVars == <<question, answered, nodes, room>>

-----------------------------------------------------------------------------
(* The pre-scale calculation                                               *)

(* A mutant of Ceilings: int(x) alone.                                     *)
Truncated(a, b) == {n \in 0 .. a + 1 : n * b <= a /\ (n + 1) * b > a}

(* int(x), and one more if x is above it, for x = a / b.                   *)
Ceilings(a, b) == {n \in 0 .. a + 1 : n * b >= a /\ (n - 1) * b <= a}

(* totalWorkload / (targetUtilization / 100), rounded up.                  *)
Required(q) == Ceilings((q.spot + q.ondemand) * q.util, q.target)

(* The safety buffer is put on the additional nodes, if there are any.     *)
Buffered(q, additional) ==
  IF q.buffer > 0 /\ additional > 0
  THEN Ceilings(additional * (100 + q.buffer), 100)
  ELSE {additional}

(* At least one node if utilisation is above the target.                   *)
Additional(q) ==
  UNION {{IF n < 1 THEN 1 ELSE n : n \in Buffered(q, r - q.spot)} :
           r \in Required(q)}

(* A mutant of NodesNeeded: what the workload requires, whatever there is. *)
NodesRequired(q) == Required(q)

(* NodesNeeded, the desired capacity the spot group is given.              *)
NodesNeeded(q) ==
  IF q.util <= q.target
  THEN {q.spot}
  ELSE {q.spot + n : n \in Additional(q)}

-----------------------------------------------------------------------------
(* The capacity buffer                                                     *)

(* A mutant of Exceeds: a division by zero is avoided, and is no load.     *)
ExceedsGuarded(used, remaining, limit) ==
  remaining > 0 /\ used * 100 > limit * remaining

(* used / remaining * 100 > limit in float64: a positive number over zero  *)
(* is infinite, zero over zero is not a number and exceeds nothing, and    *)
(* over a negative number the quotient is not positive.                    *)
Exceeds(used, remaining, limit) ==
  \/ remaining > 0 /\ used * 100 > limit * remaining
  \/ remaining = 0 /\ used > 0

NotANumber(used, remaining) == used = 0 /\ remaining = 0

(* A node that is not ready is not in the total, but is taken from it.     *)
Remaining(q, others, mine) ==
  (IF q.ready THEN others + mine ELSE others) - mine

RemainingCPU(q) == Remaining(q, q.otherCpu, q.cpu)
RemainingMemory(q) == Remaining(q, q.otherMem, q.mem)

(* The larger of the two is compared with the limit; nothing is larger     *)
(* than a CPU utilisation that is not a number.                            *)
HasClusterCapacityBuffer(q) ==
  \/ NotANumber(q.usedCpu, RemainingCPU(q))
  \/ /\ ~Exceeds(q.usedCpu, RemainingCPU(q), q.limit)
     /\ ~Exceeds(q.usedMem, RemainingMemory(q), q.limit)

(* A utilisation exactly at the limit may be rounded to just above it.     *)
AtLimit(q) ==
  \/ RemainingCPU(q) > 0 /\ q.usedCpu * 100 = q.limit * RemainingCPU(q)
  \/ RemainingMemory(q) > 0 /\ q.usedMem * 100 = q.limit * RemainingMemory(q)

-----------------------------------------------------------------------------
(* One question and its answer                                             *)

(* Both read the groups and the nodes again, after the spot group was      *)
(* found healthy: by then either may be empty, and the other nodes may     *)
(* have no capacity left.                                                  *)
PreScaleQuestion ==
  [kind : {"prescale"}, spot : 0 .. MaxNodes, ondemand : 0 .. MaxNodes,
   util : Percentages, target : Percentages \ {0}, buffer : Percentages]

BufferQuestion ==
  [kind : {"buffer"}, ready : BOOLEAN, cpu : 1 .. MaxAmount,
   mem : 1 .. MaxAmount, otherCpu : 0 .. MaxAmount, otherMem : 0 .. MaxAmount,
   usedCpu : 0 .. MaxAmount, usedMem : 0 .. MaxAmount,
   limit : Percentages \ {0}]

CapacityInit ==
  /\ question \in PreScaleQuestion \cup BufferQuestion
  /\ answered = FALSE /\ nodes = 0 /\ room = FALSE

CalculatePreScaleNodes ==
  /\ question.kind = "prescale"
  /\ nodes' \in NodesNeeded(question)
  /\ UNCHANGED room

CheckBuffer ==
  /\ question.kind = "buffer"
  /\ \/ room' = HasClusterCapacityBuffer(question)
     \/ AtLimit(question) /\ room' = FALSE
  /\ UNCHANGED nodes

CapacityNext ==
  /\ ~answered /\ answered' = TRUE
  /\ CalculatePreScaleNodes \/ CheckBuffer
  /\ UNCHANGED question

CapacitySpec == CapacityInit /\ [][CapacityNext]_capacityVars

PreScaled == question.kind = "prescale" /\ answered

HasRoom == question.kind = "buffer" /\ answered /\ room

-----------------------------------------------------------------------------
(* When the utilisation is above the target, the spot nodes asked for can  *)
(* carry the whole workload, the drained node's included, at or below the  *)
(* target, whatever the buffer and the rounding.                           *)
PreScaleSuffices ==
  PreScaled /\ question.util > question.target
    => nodes * question.target
         >= (question.spot + question.ondemand) * question.util

(* A pre-scale never asks the spot group to shrink, even when the group is *)
(* larger than the workload needs: SetDesiredCapacity would terminate      *)
(* nodes in use.                                                           *)
PreScaleNeverShrinks ==
  PreScaled => nodes >= question.spot
                 + (IF question.util > question.target THEN 1 ELSE 0)

(* "CalculatePreScaleNodes determines how many spot nodes to add to        *)
(* achieve target utilization after draining on-demand"                    *)
(* (health_checker.go:607-608).                                            *)
TargetAfterDrain ==
  PreScaled
    => nodes * question.target
         >= (question.spot + question.ondemand) * question.util

Fits(used, others, limit) == used * 100 <= limit * others

Meaningful(q) ==
  RemainingCPU(q) >= 0 /\ RemainingMemory(q) >= 0 /\ q.usedCpu > 0

(* The buffer check passes only if the other ready nodes can carry, within *)
(* the limit, all the CPU and all the memory that is requested: for a node *)
(* that is ready and for one that is not, and where nothing at all would   *)
(* remain.  It is not so where a negative capacity would remain, or where  *)
(* no CPU is requested and none would remain (BufferAlwaysMeansRoom).      *)
BufferMeansRoom ==
  HasRoom /\ Meaningful(question)
    => /\ Fits(question.usedCpu, question.otherCpu, question.limit)
       /\ Fits(question.usedMem, question.otherMem, question.limit)

(* "hasClusterCapacityBuffer checks if cluster has sufficient capacity     *)
(* buffer" (safety_checker.go:280), for every node it is asked about.      *)
BufferAlwaysMeansRoom ==
  HasRoom
    => /\ Fits(question.usedCpu, question.otherCpu, question.limit)
       /\ Fits(question.usedMem, question.otherMem, question.limit)

=============================================================================
