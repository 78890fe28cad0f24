-------------------------- MODULE MissionTelemetry --------------------------
(***************************************************************************)
(* What src/main_realtime.c tells the ground station of the flight plan:   *)
(* progress and targets in every cycle, and the plan itself one leg at a   *)
(* time, a leg per broadcast period, while runtime control may replace the *)
(* plan in any cycle.  A row of a plan is its plan and its index.          *)
(***************************************************************************)
EXTENDS Integers

CONSTANTS
  MaxLegs,          \* CUBS2_MAX_POINTS - 1
  BroadcastPeriod,  \* CUBS2_MISSION_BROADCAST_PERIOD
  MaxPlans          \* Bound: how often the plan is replaced.

ASSUME MissionAssumption ==
  /\ MaxLegs \in Nat \ {0} /\ BroadcastPeriod \in Nat \ {0}
  /\ MaxPlans \in Nat

VARIABLES
  route,                        \* The model's plan: its number and its legs.
  currentWaypoint,              \* The model's active leg, 1 the first.
  mission_broadcast_countdown,
  mission_broadcast_seq,
  mission_progress,
  local_position_command,       \* The row of its position.
  navigation_target,            \* The row of its target, Nowhere if none.
  trajectory_segment,
  received,                     \* The ground station: the rows it knows.
  age                           \* History: cycles since the plan in force was
                                \* taken over, until its broadcast is complete.

model == <<route, currentWaypoint>>
broadcast == <<mission_broadcast_countdown, mission_broadcast_seq,
               trajectory_segment, received>>
vars == <<model, mission_progress, local_position_command, navigation_target,
          broadcast, age>>

Plans == 0 .. MaxPlans
Rows == [plan : Plans, row : 1 .. MaxLegs]
Nowhere == [plan |-> 0, row |-> 0]
Row(n) == [plan |-> route.plan, row |-> n]

Init ==
  /\ route \in [plan : {0}, legs : 1 .. MaxLegs]
  /\ currentWaypoint \in 0 .. 1
  /\ mission_broadcast_countdown = 0
  /\ mission_broadcast_seq = 0
  /\ mission_progress = [current_seq |-> 0, total |-> 0, active |-> FALSE]
  /\ local_position_command = Nowhere
  /\ navigation_target = Nowhere
  /\ trajectory_segment = [seq |-> 0, row |-> Nowhere, flags |-> {}]
  /\ received = [seq \in 0 .. MaxLegs - 1 |-> Nowhere]
  /\ age = 0

(* cubs2_runtime_control_apply takes over a plan; its active leg is kept   *)
(* within it (RuntimeControl!WithRoute).                                   *)
ReplacePlan(legs) ==
  /\ route.plan < MaxPlans
  /\ route' = [plan |-> route.plan + 1, legs |-> legs]
  /\ currentWaypoint' = IF currentWaypoint < 1 THEN 1
                        ELSE IF currentWaypoint > legs THEN legs
                        ELSE currentWaypoint
  /\ age' = 0
  /\ UNCHANGED <<mission_progress, local_position_command, navigation_target,
                 broadcast>>

(* EFMI_STEP moves along the plan. *)
MoveLeg(n) ==
  /\ n \in 1 .. route.legs
  /\ currentWaypoint' = n
  /\ UNCHANGED <<route, mission_progress, local_position_command,
                 navigation_target, broadcast, age>>

(* The second bound is a safeguard: the active leg is kept within the plan *)
(* by ReplacePlan and MoveLeg.                                             *)
CurrentSeq ==
  LET seq == IF currentWaypoint >= 1 THEN currentWaypoint - 1 ELSE 0
  IN IF route.legs > 0 /\ seq >= route.legs THEN route.legs - 1 ELSE seq

UpdateNavigationTarget ==
  navigation_target' = IF currentWaypoint \in 1 .. route.legs
                         THEN Row(currentWaypoint) ELSE Nowhere

ProgressAndTarget(active) ==
  /\ mission_progress' = [current_seq |-> CurrentSeq, total |-> route.legs,
                          active |-> active]
  /\ local_position_command' = Row(CurrentSeq + 1)

BroadcastSeqKept == mission_broadcast_seq                  \* mutant
BroadcastSeqFromOne ==                                     \* mutant
  IF mission_broadcast_seq >= route.legs
    THEN IF route.legs > 1 THEN 1 ELSE 0 ELSE mission_broadcast_seq
BroadcastSeq ==
  IF mission_broadcast_seq >= route.legs THEN 0 ELSE mission_broadcast_seq

Final(seq) == seq + 1 = route.legs

(* The segment is sent; the ground station files it under its number. *)
BroadcastSegment(seq) ==
  /\ trajectory_segment' =
       [seq |-> seq, row |-> Row(seq + 1),
        flags |-> {f \in {"Start", "Final"} :
                     \/ f = "Start" /\ seq = 0
                     \/ f = "Final" /\ Final(seq)}]
  /\ received' = [s \in DOMAIN received |->
                    IF s = seq THEN Row(seq + 1) ELSE received[s]]
  /\ mission_broadcast_seq' = seq + 1

BroadcastRestartLate == BroadcastPeriod                    \* mutant
BroadcastRestart == BroadcastPeriod - 1

(* One turn for each leg of the plan. *)
BroadcastTime == route.legs * BroadcastPeriod

(* update_navigation_target and update_mission_telemetry of one cycle *)
Telemetry(active) ==
  /\ UpdateNavigationTarget
  /\ ProgressAndTarget(active)
  /\ IF mission_broadcast_countdown > 0
       THEN /\ mission_broadcast_countdown' = mission_broadcast_countdown - 1
            /\ UNCHANGED <<mission_broadcast_seq, trajectory_segment, received>>
       ELSE /\ mission_broadcast_countdown' = BroadcastRestart
            /\ IF route.legs = 0
                 THEN UNCHANGED <<mission_broadcast_seq, trajectory_segment,
                                  received>>
                 ELSE BroadcastSegment(BroadcastSeq)
  /\ age' = IF age < BroadcastTime THEN age + 1 ELSE age
  /\ UNCHANGED model

Cycle == \E active \in BOOLEAN : Telemetry(active)

Next ==
  \/ \E legs \in 1 .. MaxLegs : ReplacePlan(legs)
  \/ \E n \in 1 .. MaxLegs : MoveLeg(n)
  \/ Cycle

Spec == Init /\ [][Next]_vars

(* Every cycle ends with its telemetry; cycles go on for ever. *)
FairSpec == Spec /\ WF_vars(Cycle)

-----------------------------------------------------------------------------
(* Properties *)

TypeOK ==
  /\ route \in [plan : Plans, legs : 1 .. MaxLegs]
  /\ currentWaypoint \in 0 .. MaxLegs
  /\ mission_broadcast_countdown \in 0 .. BroadcastPeriod - 1
  /\ mission_broadcast_seq \in 0 .. MaxLegs
  /\ mission_progress \in [current_seq : 0 .. MaxLegs - 1,
                           total : 0 .. MaxLegs, active : BOOLEAN]
  /\ local_position_command \in Rows \union {Nowhere}
  /\ navigation_target \in Rows \union {Nowhere}
  /\ trajectory_segment \in [seq : 0 .. MaxLegs - 1,
                             row : Rows \union {Nowhere},
                             flags : SUBSET {"Start", "Final"}]
  /\ received \in [0 .. MaxLegs - 1 -> Rows \union {Nowhere}]
  /\ age \in 0 .. BroadcastTime

(* However short the plan that replaces another in the middle of its       *)
(* broadcast or flight, no row beyond the plan in force is sent (lines     *)
(* 363-387, 410-418, 460-464).                                             *)
RowsInPlan ==
  [][Cycle => /\ local_position_command'.row \in 1 .. route.legs
              /\ navigation_target'.row \in 0 .. route.legs
              /\ mission_broadcast_seq' # mission_broadcast_seq =>
                   trajectory_segment'.row.row \in 1 .. route.legs]_vars

(* How many legs are broadcast before this one, and the age the plan in    *)
(* force has at the end of the cycle that broadcasts it.                   *)
Ahead(seq) ==
  IF seq >= BroadcastSeq THEN seq - BroadcastSeq
                         ELSE seq - BroadcastSeq + route.legs
DueAt(seq) ==
  age + mission_broadcast_countdown + Ahead(seq) * BroadcastPeriod + 1

(* Wherever the broadcast of another plan stood when a plan was taken over,*)
(* every leg of the new one that the ground station does not know yet has  *)
(* its turn before the plan is one broadcast period old for each of its    *)
(* legs; from then on all of its legs are known (lines 401-443).           *)
PlanKnownInTime ==
  \A seq \in 0 .. route.legs - 1 :
    received[seq] # Row(seq + 1) => DueAt(seq) <= BroadcastTime

(* Once plans are no longer replaced the ground station gets to know every *)
(* leg of the plan in force, though no message names the plan's version    *)
(* and the broadcast goes on where it was (lines 401-443).                 *)
PlanGetsThrough ==
  <>[](\A seq \in 0 .. route.legs - 1 : received[seq] = Row(seq + 1))
=============================================================================
