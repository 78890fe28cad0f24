------------------------ MODULE CyclePacingProofs ------------------------
(***************************************************************************)
(* The control loop never runs more than four periods' worth of cycles     *)
(* ahead in less than a period: PacingInv is inductive, for every period   *)
(* and every way in which time passes and threads are delayed.             *)
(***************************************************************************)
EXTENDS CyclePacing, TLAPS

LEMMA PacingInit == Init => PacingInv
  BY PacingAssumption DEF Init, PacingInv, BurstBounded, History

LEMMA TickKeepsPacing == PacingInv /\ Tick => PacingInv'
  BY PacingAssumption DEF PacingInv, BurstBounded, History, Tick

LEMMA EndCycleKeepsPacing == PacingInv /\ EndCycle => PacingInv'
  BY PacingAssumption
  DEF PacingInv, BurstBounded, History, EndCycle, NextCycle, Stalled

LEMMA ResyncKeepsPacing == PacingInv /\ Resync => PacingInv'
  BY PacingAssumption DEF PacingInv, BurstBounded, History, Resync

LEMMA StartCycleKeepsPacing == PacingInv /\ StartCycle => PacingInv'
  BY PacingAssumption DEF PacingInv, BurstBounded, History, StartCycle

(* PacingInv holds in every state (main_realtime.c:592-598, 657-661).      *)
THEOREM PacingCorrect == Spec => []PacingInv
<1>1. PacingInv /\ [Next]_vars => PacingInv'
  <2> SUFFICES ASSUME PacingInv, [Next]_vars PROVE PacingInv'
    OBVIOUS
  <2>1. CASE Tick
    BY <2>1, TickKeepsPacing
  <2>2. CASE EndCycle
    BY <2>2, EndCycleKeepsPacing
  <2>3. CASE Resync
    BY <2>3, ResyncKeepsPacing
  <2>4. CASE StartCycle
    BY <2>4, StartCycleKeepsPacing
  <2>5. CASE UNCHANGED vars
    BY <2>5 DEF vars, PacingInv, BurstBounded
  <2> QED
    BY <2>1, <2>2, <2>3, <2>4, <2>5 DEF Next, TimeOver
<1> QED
  BY <1>1, PacingInit, PTL DEF Spec

(* Five consecutive cycles take at least one period, however late cycles   *)
(* end or threads are scheduled (main_realtime.c:657-661).                 *)
THEOREM BurstsAreBounded == Spec => []BurstBounded
  BY PacingCorrect, PTL DEF PacingInv

LEMMA NextMultiple ==
  ASSUME NEW n \in Nat PROVE n * Period + Period = (n + 1) * Period
  BY PacingAssumption

LEMMA DriftInit == Init => DriftInv
<1> SUFFICES ASSUME Init PROVE DriftInv
  OBVIOUS
<1>1. pc = "run" /\ next_cycle_ticks = 0 /\ cycle = 0 /\ resynced = FALSE
      /\ late = FALSE
  BY DEF Init
<1>2. starts[0] = 0 /\ cycle * Period = 0
  BY <1>1, PacingAssumption DEF Init, History
<1>3. NoDrift
  <2>1. 0 \in 0 .. 0 + Latency
    BY PacingAssumption
  <2> QED
    BY <1>2, <2>1 DEF NoDrift
<1> QED
  BY <1>1, <1>2, <1>3, PacingAssumption DEF DriftInv

LEMMA TickKeepsDrift == PacingInv /\ DriftInv /\ Tick => DriftInv'
  BY PacingAssumption DEF PacingInv, DriftInv, NoDrift, Tick

LEMMA EndCycleKeepsDrift == PacingInv /\ DriftInv /\ EndCycle => DriftInv'
<1> SUFFICES ASSUME PacingInv, DriftInv, EndCycle PROVE DriftInv'
  OBVIOUS
<1>1. ~resynced => next_cycle_ticks' = (cycle + 1) * Period
  BY NextMultiple DEF DriftInv, EndCycle, NextCycle
<1>2. pc' \in {"resync", "sleep"} /\ cycle' = cycle /\ resynced' = resynced
  BY DEF EndCycle
<1>3. next_cycle_ticks' \in Int /\ uptime' \in Int
  BY PacingAssumption DEF PacingInv, EndCycle, NextCycle
<1>4. late' \in BOOLEAN /\ (~late' => uptime' <= next_cycle_ticks' + Latency)
  <2> DEFINE over == uptime > next_cycle_ticks'
  <2>1. late' = over
    BY DEF EndCycle
  <2>2. ~over => uptime' <= next_cycle_ticks' + Latency
    <3>1. uptime' = uptime
      BY DEF EndCycle
    <3>2. ASSUME NEW u \in Int, NEW n \in Int, ~(u > n)
          PROVE  u <= n + Latency
      BY <3>2, PacingAssumption
    <3> QED
      BY <1>3, <3>1, <3>2
  <2>3. over \in BOOLEAN
    BY <1>3
  <2> HIDE DEF over
  <2> QED
    BY <2>1, <2>2, <2>3, Zenon
<1> QED
  BY <1>1, <1>2, <1>4 DEF DriftInv, NoDrift

LEMMA ResyncKeepsDrift == PacingInv /\ DriftInv /\ Resync => DriftInv'
  BY PacingAssumption DEF PacingInv, DriftInv, NoDrift, Resync

LEMMA StartCycleKeepsDrift == PacingInv /\ DriftInv /\ StartCycle => DriftInv'
<1> SUFFICES ASSUME PacingInv, DriftInv, StartCycle PROVE DriftInv'
  OBVIOUS
<1> DEFINE due == (cycle + 1) * Period
<1>1. pc = "sleep" /\ pc' = "run" /\ cycle' = cycle + 1
      /\ UNCHANGED <<uptime, next_cycle_ticks, late, resynced>>
  BY DEF StartCycle
<1>2. starts'[0] = uptime
  BY DEF StartCycle, History
<1>3. ~resynced => next_cycle_ticks = due
  BY <1>1 DEF DriftInv
<1>4. cycle' * Period = due
  BY <1>1
<1>5. due \in Int
  BY PacingAssumption DEF DriftInv
<1> HIDE DEF due
<1>6. ~late /\ ~resynced => uptime \in due .. due + Latency
  BY <1>1, <1>3, <1>5, PacingAssumption DEF DriftInv, PacingInv, StartCycle
<1>7. NoDrift'
  BY <1>1, <1>2, <1>4, <1>6 DEF NoDrift
<1> QED
  BY <1>1, <1>3, <1>4, <1>7 DEF DriftInv

(* DriftInv holds in every state.                                          *)
THEOREM DriftCorrect == Spec => []DriftInv
<1>1. PacingInv /\ DriftInv /\ [Next]_vars => DriftInv'
  <2> SUFFICES ASSUME PacingInv, DriftInv, [Next]_vars PROVE DriftInv'
    OBVIOUS
  <2>1. CASE Tick
    BY <2>1, TickKeepsDrift
  <2>2. CASE EndCycle
    BY <2>2, EndCycleKeepsDrift
  <2>3. CASE Resync
    BY <2>3, ResyncKeepsDrift
  <2>4. CASE StartCycle
    BY <2>4, StartCycleKeepsDrift
  <2>5. CASE UNCHANGED vars
    BY <2>5 DEF vars, DriftInv, NoDrift
  <2> QED
    BY <2>1, <2>2, <2>3, <2>4, <2>5 DEF Next, TimeOver
<1> QED
  BY <1>1, DriftInit, PacingCorrect, PTL DEF Spec

(* The work of a cycle and scheduling delays do not add up: a cycle that   *)
(* was waited for starts at its multiple of the period                     *)
(* (main_realtime.c:592-598, 657).                                         *)
THEOREM CyclesDoNotDrift == Spec => []NoDrift
  BY DriftCorrect, PTL DEF DriftInv
=============================================================================
