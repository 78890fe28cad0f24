---------------------------- MODULE CyclePacing ----------------------------
(***************************************************************************)
(* The pacing of the deployed control loop, src/main_realtime.c:592-598    *)
(* and 657-661: absolute deadlines one period apart, cycles run back to    *)
(* back to catch up, a fresh start after a stall of more than two periods. *)
(***************************************************************************)
EXTENDS Integers

CONSTANTS
  Period,    \* period_ticks
  Latency,   \* Bound: how late a thread that waited is scheduled.
  MaxTime    \* Bound: the uptime at which the instance ends.

ASSUME PacingAssumption ==
  Period \in Nat \ {0} /\ Latency \in Nat /\ MaxTime \in Nat

VARIABLES
  pc,                \* "run", "resync" (between 658 and 659) or "sleep"
  uptime,            \* k_uptime_ticks()
  next_cycle_ticks,
  starts,            \* History: starts[j]: when the j-th last cycle began.
  cycle,             \* History: cycles begun before the running one.
  late, resynced     \* History: k_sleep found its time over; 659 was executed.

vars == <<pc, uptime, next_cycle_ticks, starts, cycle, late, resynced>>

History == 0 .. 4

Init ==
  /\ pc = "run"
  /\ uptime = 0
  /\ next_cycle_ticks = 0
  /\ starts = [j \in History |-> -j * Period]
  /\ cycle = 0
  /\ late = FALSE
  /\ resynced = FALSE

(* Time passes: the cycle works, is preempted or sleeps.                   *)
Tick ==
  /\ uptime < MaxTime
  /\ pc = "sleep" /\ ~late => uptime < next_cycle_ticks + Latency
  /\ uptime' = uptime + 1
  /\ UNCHANGED <<pc, next_cycle_ticks, starts, cycle, late, resynced>>

RelativeNext == uptime + Period                            \* mutant
NextCycle == next_cycle_ticks + Period
StallOfThree(next) == uptime > next + 3 * Period           \* mutant
Stalled(next) == uptime > next + 2 * Period

EndCycle ==
  /\ pc = "run"
  /\ next_cycle_ticks' = NextCycle
  /\ pc' = IF Stalled(next_cycle_ticks') THEN "resync" ELSE "sleep"
  /\ late' = (uptime > next_cycle_ticks')
  /\ UNCHANGED <<uptime, starts, cycle, resynced>>

Resync ==
  /\ pc = "resync"
  /\ next_cycle_ticks' = uptime
  /\ resynced' = TRUE
  /\ pc' = "sleep"
  /\ UNCHANGED <<uptime, starts, cycle, late>>

StartCycle ==
  /\ pc = "sleep"
  /\ uptime >= next_cycle_ticks
  /\ starts' = [j \in History |-> IF j = 0 THEN uptime ELSE starts[j - 1]]
  /\ cycle' = cycle + 1
  /\ pc' = "run"
  /\ UNCHANGED <<uptime, next_cycle_ticks, late, resynced>>

(* The end of the instance. *)
TimeOver == uptime = MaxTime /\ pc = "sleep" /\ UNCHANGED vars

Next == Tick \/ EndCycle \/ Resync \/ StartCycle \/ TimeOver

Spec == Init /\ [][Next]_vars

-----------------------------------------------------------------------------
(* Properties *)

(* The model is stepped with a fixed time step, so cycles must not run     *)
(* faster than time for long: catching up after a late cycle, any five     *)
(* consecutive cycles still take at least a period from the first start to *)
(* the last (lines 657-661).                                               *)
BurstBounded == starts[0] - starts[4] >= Period

(* "relative sleep adds the work time to every cycle, stretching the       *)
(* model's fixed dt" (lines 593-594): here neither the work, nor the time  *)
(* it takes to be scheduled, nor a cycle late by up to two periods adds    *)
(* up.  A cycle that was waited for starts at its multiple of the period.  *)
NoDrift ==
  pc = "run" /\ ~late /\ ~resynced =>
    starts[0] \in cycle * Period .. cycle * Period + Latency

(* Why BurstBounded holds: the j-th last start is no later than j - 3      *)
(* periods before the deadline (one for each deadline since, less the two  *)
(* a cycle may be late).                                                   *)
PacingInv ==
  /\ pc \in {"run", "resync", "sleep"}
  /\ uptime \in Nat /\ next_cycle_ticks \in Int /\ starts \in [History -> Int]
  /\ starts[0] <= uptime
  /\ pc = "run" =>
       /\ next_cycle_ticks <= starts[0]
       /\ \A j \in 1 .. 4 : next_cycle_ticks >= starts[j] + (j - 3) * Period
  /\ pc = "resync" =>
       \A j \in 0 .. 3 : uptime >= starts[j] + (j - 2) * Period
  /\ pc = "sleep" =>
       \A j \in 0 .. 3 : next_cycle_ticks >= starts[j] + (j - 2) * Period
  /\ BurstBounded

(* Why NoDrift holds: the deadline is a multiple of the period until the   *)
(* first resynchronisation, and a wait ends soon after it.                 *)
DriftInv ==
  /\ cycle \in Nat /\ late \in BOOLEAN /\ resynced \in BOOLEAN
  /\ ~resynced =>
       next_cycle_ticks = (IF pc = "run" THEN cycle ELSE cycle + 1) * Period
  /\ pc = "sleep" /\ ~late => uptime <= next_cycle_ticks + Latency
  /\ NoDrift
=============================================================================
