---------------------- MODULE MissionTelemetryProofs ----------------------
(***************************************************************************)
(* The mission's telemetry is well-formed and sends no row beyond the plan *)
(* in force, and a plan is known to the ground station in time, for plans  *)
(* of any length and every broadcast period.                               *)
(***************************************************************************)
EXTENDS MissionTelemetry, TLAPS

USE MissionAssumption

LEMMA TimeType == TypeOK => BroadcastTime \in Nat
  BY DEF TypeOK, BroadcastTime

LEMMA TypeInit == Init => TypeOK
<1> SUFFICES ASSUME Init PROVE TypeOK
  OBVIOUS
<1>1. route \in [plan : Plans, legs : 1 .. MaxLegs]
  BY DEF Init, Plans
<1>2. currentWaypoint \in 0 .. MaxLegs
  BY DEF Init
<1>3. mission_progress \in [current_seq : 0 .. MaxLegs - 1,
                            total : 0 .. MaxLegs, active : BOOLEAN]
  BY DEF Init
<1>4. trajectory_segment \in [seq : 0 .. MaxLegs - 1,
                              row : Rows \union {Nowhere},
                              flags : SUBSET {"Start", "Final"}]
  BY DEF Init
<1>5. age \in 0 .. BroadcastTime
  BY DEF Init, BroadcastTime
<1> QED
  BY <1>1, <1>2, <1>3, <1>4, <1>5 DEF Init, TypeOK

(* A leg number within the plan in force names a row of it.                *)
LEMMA RowType ==
  ASSUME TypeOK, NEW n \in 1 .. route.legs
  PROVE  Row(n) \in Rows /\ Row(n) # Nowhere /\ Row(n).row = n
  BY DEF TypeOK, Row, Rows, Nowhere, Plans

(* The leg named by the progress is one of the plan in force.              *)
LEMMA CurrentSeqInPlan ==
  ASSUME TypeOK
  PROVE  /\ CurrentSeq \in 0 .. route.legs - 1
         /\ currentWaypoint \in 1 .. route.legs =>
              CurrentSeq = currentWaypoint - 1
  BY DEF TypeOK, CurrentSeq

(* So is the leg whose turn it is in the broadcast.                        *)
LEMMA BroadcastSeqInPlan ==
  ASSUME TypeOK PROVE BroadcastSeq \in 0 .. route.legs - 1
  BY DEF TypeOK, BroadcastSeq

LEMMA BroadcastTyped ==
  ASSUME TypeOK, NEW seq \in 0 .. route.legs - 1, BroadcastSegment(seq)
  PROVE  /\ mission_broadcast_seq' \in 0 .. MaxLegs
         /\ trajectory_segment' \in [seq : 0 .. MaxLegs - 1,
                                     row : Rows \union {Nowhere},
                                     flags : SUBSET {"Start", "Final"}]
         /\ received' \in [0 .. MaxLegs - 1 -> Rows \union {Nowhere}]
         /\ trajectory_segment'.row.row \in 1 .. route.legs
<1>1. route.legs \in 1 .. MaxLegs
  BY DEF TypeOK
<1>2. seq + 1 \in 1 .. route.legs /\ seq \in 0 .. MaxLegs - 1
  BY <1>1
<1>3. Row(seq + 1) \in Rows /\ Row(seq + 1).row = seq + 1
  BY <1>2, RowType
<1>4. received' \in [0 .. MaxLegs - 1 -> Rows \union {Nowhere}]
  BY <1>3 DEF TypeOK, BroadcastSegment
<1>5. mission_broadcast_seq' \in 0 .. MaxLegs
  BY <1>2 DEF BroadcastSegment
<1> DEFINE flags == {f \in {"Start", "Final"} : \/ f = "Start" /\ seq = 0
                                                \/ f = "Final" /\ Final(seq)}
<1>6. trajectory_segment' = [seq |-> seq, row |-> Row(seq + 1), flags |-> flags]
  BY DEF BroadcastSegment
<1>7. flags \in SUBSET {"Start", "Final"}
  OBVIOUS
<1> HIDE DEF flags
<1> QED
  BY <1>2, <1>3, <1>4, <1>5, <1>6, <1>7

LEMMA CycleTyped == TypeOK /\ Cycle => TypeOK'
<1> SUFFICES ASSUME TypeOK, NEW active \in BOOLEAN, Telemetry(active)
             PROVE  TypeOK'
  BY DEF Cycle
<1>1. route' = route /\ currentWaypoint' = currentWaypoint
  BY DEF Telemetry, model
<1>2. navigation_target' \in Rows \union {Nowhere}
  BY RowType DEF Telemetry, UpdateNavigationTarget
<1>3. /\ mission_progress' \in [current_seq : 0 .. MaxLegs - 1,
                                total : 0 .. MaxLegs, active : BOOLEAN]
      /\ local_position_command' \in Rows \union {Nowhere}
  <2>1. route.legs \in 1 .. MaxLegs
    BY DEF TypeOK
  <2>2. CurrentSeq \in 0 .. MaxLegs - 1 /\ CurrentSeq + 1 \in 1 .. route.legs
    BY <2>1, CurrentSeqInPlan
  <2>3. Row(CurrentSeq + 1) \in Rows
    BY <2>2, RowType
  <2> QED
    BY <2>1, <2>2, <2>3 DEF Telemetry, ProgressAndTarget
<1>4. mission_broadcast_countdown' \in 0 .. BroadcastPeriod - 1
  BY DEF TypeOK, Telemetry, BroadcastRestart
<1>5. age' \in 0 .. BroadcastTime'
  <2>1. BroadcastTime' = BroadcastTime
    BY <1>1 DEF BroadcastTime
  <2> QED
    BY <2>1, TimeType DEF TypeOK, Telemetry
<1>6. \/ UNCHANGED <<mission_broadcast_seq, trajectory_segment, received>>
      \/ BroadcastSegment(BroadcastSeq)
  BY DEF Telemetry
<1>7. CASE UNCHANGED <<mission_broadcast_seq, trajectory_segment, received>>
  BY <1>1, <1>2, <1>3, <1>4, <1>7, <1>5 DEF TypeOK
<1>8. CASE BroadcastSegment(BroadcastSeq)
  BY <1>1, <1>2, <1>3, <1>4, <1>8, <1>5, BroadcastSeqInPlan, BroadcastTyped DEF TypeOK
<1> QED
  BY <1>6, <1>7, <1>8

(* Types and index ranges (main_realtime.c:354-489).                       *)
THEOREM TypeCorrect == Spec => []TypeOK
<1>1. TypeOK /\ [Next]_vars => TypeOK'
  <2> SUFFICES ASSUME TypeOK, [Next]_vars PROVE TypeOK'
    OBVIOUS
  <2>1. ASSUME NEW legs \in 1 .. MaxLegs, ReplacePlan(legs) PROVE TypeOK'
    <3>1. route' \in [plan : Plans, legs : 1 .. MaxLegs]
      BY <2>1 DEF TypeOK, ReplacePlan, Plans
    <3>2. currentWaypoint' \in 0 .. MaxLegs
      BY <2>1 DEF TypeOK, ReplacePlan
    <3>3. age' \in 0 .. BroadcastTime'
      BY <2>1 DEF ReplacePlan, BroadcastTime
    <3> QED
      BY <2>1, <3>1, <3>2, <3>3 DEF TypeOK, ReplacePlan, broadcast
  <2>2. ASSUME NEW n \in 1 .. MaxLegs, MoveLeg(n) PROVE TypeOK'
    BY <2>2 DEF TypeOK, MoveLeg, broadcast, BroadcastTime
  <2>3. CASE Cycle
    BY <2>3, CycleTyped
  <2>4. CASE UNCHANGED vars
    BY <2>4 DEF TypeOK, vars, model, broadcast, BroadcastTime
  <2> QED
    BY <2>1, <2>2, <2>3, <2>4 DEF Next
<1> QED
  BY <1>1, TypeInit, PTL DEF Spec

-----------------------------------------------------------------------------

(* No row beyond the plan in force is sent, however short the plan that    *)
(* replaced another in the middle of flight or broadcast                   *)
(* (main_realtime.c:363-387, 410-418, 460-464).                            *)
THEOREM NoRowBeyondPlan == Spec => RowsInPlan
<1> DEFINE Good == /\ local_position_command'.row \in 1 .. route.legs
                   /\ navigation_target'.row \in 0 .. route.legs
                   /\ mission_broadcast_seq' # mission_broadcast_seq =>
                        trajectory_segment'.row.row \in 1 .. route.legs
<1>1. TypeOK /\ [Next]_vars => [Cycle => Good]_vars
  <2> SUFFICES ASSUME TypeOK, NEW active \in BOOLEAN, Telemetry(active)
               PROVE  Good
    BY DEF Cycle
  <2>1. local_position_command'.row \in 1 .. route.legs
    <3>1. CurrentSeq + 1 \in 1 .. route.legs
      BY CurrentSeqInPlan DEF TypeOK
    <3> QED
      BY <3>1, RowType DEF Telemetry, ProgressAndTarget
  <2>2. navigation_target'.row \in 0 .. route.legs
    BY RowType DEF Telemetry, UpdateNavigationTarget, Nowhere, TypeOK
  <2>3. mission_broadcast_seq' # mission_broadcast_seq =>
          trajectory_segment'.row.row \in 1 .. route.legs
    BY BroadcastSeqInPlan, BroadcastTyped DEF Telemetry
  <2> QED
    BY <2>1, <2>2, <2>3
<1> QED
  BY <1>1, TypeCorrect, PTL DEF Spec, RowsInPlan

-----------------------------------------------------------------------------
(* The broadcast takes turns *)

LEMMA AheadType ==
  ASSUME TypeOK, NEW seq \in 0 .. route.legs - 1
  PROVE  Ahead(seq) \in 0 .. route.legs - 1
  BY BroadcastSeqInPlan DEF TypeOK, Ahead

(* m turns end a period before the n-th, if n is greater.                  *)
LEMMA TurnsMonotone ==
  ASSUME NEW m \in Nat, NEW n \in Nat, m < n
  PROVE  m * BroadcastPeriod + BroadcastPeriod <= n * BroadcastPeriod
<1>1. PICK k \in Nat : n = m + 1 + k
  <2>1. n - m - 1 \in Nat /\ n = m + 1 + (n - m - 1)
    OBVIOUS
  <2> QED
    BY <2>1
<1>2. n * BroadcastPeriod
        = m * BroadcastPeriod + BroadcastPeriod + k * BroadcastPeriod
  BY <1>1
<1>3. /\ m * BroadcastPeriod \in Nat /\ k * BroadcastPeriod \in Nat
      /\ n * BroadcastPeriod \in Nat
  OBVIOUS
<1> QED
  BY <1>2, <1>3

(* A plan just taken over has time for all of its legs.                    *)
LEMMA NewPlanHasTime == TypeOK /\ age = 0 => PlanKnownInTime
<1> SUFFICES ASSUME TypeOK, age = 0, NEW seq \in 0 .. route.legs - 1
             PROVE  DueAt(seq) <= BroadcastTime
  BY DEF PlanKnownInTime
<1>1. Ahead(seq) \in Nat /\ route.legs \in Nat /\ Ahead(seq) < route.legs
  BY AheadType DEF TypeOK
<1>2. Ahead(seq) * BroadcastPeriod + BroadcastPeriod
        <= route.legs * BroadcastPeriod
  BY <1>1, TurnsMonotone
<1>3. mission_broadcast_countdown + 1 <= BroadcastPeriod
  BY DEF TypeOK
<1>4. /\ Ahead(seq) * BroadcastPeriod \in Nat
      /\ route.legs * BroadcastPeriod \in Nat
      /\ mission_broadcast_countdown \in Nat
  BY <1>1 DEF TypeOK
<1> QED
  BY <1>2, <1>3, <1>4 DEF DueAt, BroadcastTime

(* A broadcast brings every other leg one turn nearer.                     *)
LEMMA TurnTaken ==
  ASSUME TypeOK, route' = route,
         BroadcastSegment(BroadcastSeq),
         NEW seq \in 0 .. route.legs - 1, seq # BroadcastSeq
  PROVE  Ahead(seq) >= 1 /\ Ahead(seq)' = Ahead(seq) - 1
<1>1. BroadcastSeq \in 0 .. route.legs - 1 /\ route.legs \in 1 .. MaxLegs
  BY BroadcastSeqInPlan DEF TypeOK
<1>2. BroadcastSeq' = IF BroadcastSeq + 1 = route.legs
                        THEN 0 ELSE BroadcastSeq + 1
  <2>1. mission_broadcast_seq' = BroadcastSeq + 1
    BY DEF BroadcastSegment
  <2> HIDE DEF BroadcastSeq
  <2>2. BroadcastSeq' = IF mission_broadcast_seq' >= route'.legs
                          THEN 0 ELSE mission_broadcast_seq'
    BY DEF BroadcastSeq
  <2> QED
    BY <1>1, <2>1, <2>2
<1> QED
  BY <1>1, <1>2 DEF Ahead

LEMMA CycleOnTime ==
  ASSUME TypeOK, PlanKnownInTime, NEW active \in BOOLEAN, Telemetry(active)
  PROVE  PlanKnownInTime'
<1> SUFFICES ASSUME NEW seq \in 0 .. route'.legs - 1,
                    received'[seq] # Row(seq + 1)'
             PROVE  DueAt(seq)' <= BroadcastTime'
  BY DEF PlanKnownInTime
<1>1. /\ route' = route /\ BroadcastTime' = BroadcastTime
      /\ Row(seq + 1)' = Row(seq + 1)
  BY DEF Telemetry, model, BroadcastTime, Row
<1>2. seq \in 0 .. route.legs - 1 /\ route.legs \in 1 .. MaxLegs
  BY <1>1 DEF TypeOK
<1>3. age \in Nat /\ age' \in Nat /\ age' <= age + 1 /\ BroadcastTime \in Nat
  BY TimeType DEF TypeOK, Telemetry
<1>4. Ahead(seq) \in Nat /\ Ahead(seq) * BroadcastPeriod \in Nat
  BY <1>2, AheadType
<1>5. CASE mission_broadcast_countdown > 0
  <2>1. UNCHANGED <<mission_broadcast_seq, received>>
        /\ mission_broadcast_countdown' = mission_broadcast_countdown - 1
    BY <1>5 DEF Telemetry
  <2>2. Ahead(seq)' = Ahead(seq)
    BY <1>1, <2>1 DEF Ahead, BroadcastSeq
  <2>3. DueAt(seq) <= BroadcastTime
    BY <1>1, <1>2, <2>1 DEF PlanKnownInTime
  <2>4. mission_broadcast_countdown \in Nat
    BY DEF TypeOK
  <2>5. DueAt(seq)' = age' + mission_broadcast_countdown - 1
                        + Ahead(seq) * BroadcastPeriod + 1
    BY <2>1, <2>2, <2>4, <1>3, <1>4 DEF DueAt
  <2> QED
    BY <1>1, <1>3, <1>4, <2>3, <2>4, <2>5 DEF DueAt
<1>6. CASE ~(mission_broadcast_countdown > 0)
  <2>1. /\ BroadcastSegment(BroadcastSeq)
        /\ mission_broadcast_countdown' = BroadcastPeriod - 1
        /\ mission_broadcast_countdown = 0
    BY <1>2, <1>6 DEF TypeOK, Telemetry, BroadcastRestart
  <2>2. seq \in DOMAIN received
    BY <1>2 DEF TypeOK
  <2>3. seq # BroadcastSeq /\ received'[seq] = received[seq]
    BY <1>1, <2>1, <2>2 DEF BroadcastSegment
  <2>4. Ahead(seq) >= 1 /\ Ahead(seq)' = Ahead(seq) - 1
    BY <1>1, <1>2, <2>1, <2>3, TurnTaken
  <2>5. DueAt(seq) <= BroadcastTime
    BY <1>1, <1>2, <2>3 DEF PlanKnownInTime
  <2>6. (Ahead(seq) - 1) * BroadcastPeriod
          = Ahead(seq) * BroadcastPeriod - BroadcastPeriod
    BY <1>4
  <2>7. DueAt(seq)' = age' + Ahead(seq) * BroadcastPeriod
    BY <1>3, <1>4, <2>1, <2>4, <2>6 DEF DueAt
  <2> QED
    BY <1>1, <1>3, <1>4, <2>1, <2>5, <2>7 DEF DueAt
<1> QED
  BY <1>5, <1>6

(* Every leg of the plan in force has its turn, or has had it, before the  *)
(* plan is as many broadcast periods old as it has legs, wherever the      *)
(* broadcast stood when it was taken over (main_realtime.c:401-443).       *)
THEOREM LegsTakeTurns == Spec => []PlanKnownInTime
<1>1. Init => PlanKnownInTime
  BY TypeInit, NewPlanHasTime DEF Init
<1>2. TypeOK /\ TypeOK' /\ PlanKnownInTime /\ [Next]_vars => PlanKnownInTime'
  <2> SUFFICES ASSUME TypeOK, TypeOK', PlanKnownInTime, [Next]_vars
               PROVE  PlanKnownInTime'
    OBVIOUS
  <2>1. ASSUME NEW legs \in 1 .. MaxLegs, ReplacePlan(legs)
        PROVE  PlanKnownInTime'
    <3>1. age' = 0
      BY <2>1 DEF ReplacePlan
    <3>2. (TypeOK /\ age = 0 => PlanKnownInTime)'
      BY NewPlanHasTime, PTL
    <3> QED
      BY <3>1, <3>2
  <2>2. CASE UNCHANGED <<route, broadcast, age>>
    BY <2>2 DEF PlanKnownInTime, DueAt, Ahead, BroadcastSeq, BroadcastTime,
                Row, broadcast
  <2>3. CASE Cycle
    BY <2>3, CycleOnTime DEF Cycle
  <2> QED
    BY <2>1, <2>2, <2>3 DEF Next, MoveLeg, vars, model
<1> QED
  BY <1>1, <1>2, TypeCorrect, PTL DEF Spec

(* So a plan that has been in force that long is known, every leg of it.   *)
COROLLARY PlanIsKnown ==
  Spec => [](age = BroadcastTime =>
               \A seq \in 0 .. route.legs - 1 : received[seq] = Row(seq + 1))
<1>1. TypeOK /\ PlanKnownInTime =>
        (age = BroadcastTime =>
           \A seq \in 0 .. route.legs - 1 : received[seq] = Row(seq + 1))
  <2> SUFFICES ASSUME TypeOK, PlanKnownInTime, age = BroadcastTime,
                      NEW seq \in 0 .. route.legs - 1,
                      received[seq] # Row(seq + 1)
               PROVE  FALSE
    OBVIOUS
  <2>1. DueAt(seq) <= BroadcastTime
    BY DEF PlanKnownInTime
  <2>2. /\ BroadcastTime \in Nat /\ mission_broadcast_countdown \in Nat
        /\ Ahead(seq) * BroadcastPeriod \in Nat
    BY TimeType, AheadType DEF TypeOK
  <2> QED
    BY <2>1, <2>2 DEF DueAt
<1> QED
  BY <1>1, TypeCorrect, LegsTakeTurns, PTL
=============================================================================
