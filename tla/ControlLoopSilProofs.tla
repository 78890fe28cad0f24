------------------------ MODULE ControlLoopSilProofs ------------------------
(***************************************************************************)
(* The lockstep control loop steps the model once per control period and   *)
(* withholds no step, and its topics are true, for every period, whatever  *)
(* the time stamps, the mode switches and the losses of odometry.          *)
(***************************************************************************)
EXTENDS ControlLoopSil, TLAPS

(* The arithmetic of next_control_time_us *)

LEMMA ProductMonotonic ==
  ASSUME NEW m \in Nat, NEW n \in Nat, NEW k \in Nat, m <= n
  PROVE  m * k <= n * k
  OBVIOUS

LEMMA PeriodFacts ==
  ASSUME NEW t \in Nat
  PROVE  /\ PeriodOf(t) \in Nat
         /\ PeriodOf(t) * Period <= t
         /\ t < (PeriodOf(t) + 1) * Period
         /\ NextControlTime(t) \in Nat
  BY PeriodAssumption DEF PeriodOf, NextControlTime

(* The next step is due with the first time stamp of a later period.       *)
LEMMA NextControlTimeIsNextPeriod ==
  ASSUME NEW t \in Nat, NEW u \in Nat
  PROVE  u >= NextControlTime(t) <=> PeriodOf(t) < PeriodOf(u)
<1> DEFINE p == PeriodOf(t)
           q == PeriodOf(u)
           next == (p + 1) * Period
           from == q * Period
           to == (q + 1) * Period
<1>1. p \in Nat /\ q \in Nat /\ from <= u /\ u < to /\ NextControlTime(t) = next
  BY PeriodFacts DEF NextControlTime, PeriodOf
<1>2. ASSUME NEW m \in Nat, NEW n \in Nat, m <= n
      PROVE  m * Period <= n * Period /\ m * Period \in Nat /\ n * Period \in Nat
  <2>1. Period \in Nat
    BY PeriodAssumption
  <2> QED
    BY <1>2, <2>1, ProductMonotonic
<1>3. next \in Nat /\ from \in Nat /\ to \in Nat
  BY <1>1, <1>2
<1>4. p < q => next <= from
  BY <1>1, <1>2
<1>5. q <= p => to <= next
  BY <1>1, <1>2
<1> HIDE DEF p, q, next, from, to
<1> QED
  BY <1>1, <1>3, <1>4, <1>5 DEF p, q

(* What of the time stamps the proofs below need. *)
LEMMA Times ==
  /\ Time \subseteq Nat
  /\ None \notin Time
  /\ \A t \in Time : PeriodOf(t) \in Nat /\ NextControlTime(t) \in Nat
  /\ \A t, u \in Time : u >= NextControlTime(t) <=> PeriodOf(t) < PeriodOf(u)
<1>1. Time \subseteq Nat /\ None \notin Time
  BY MaxTimeAssumption DEF Time, None
<1> QED
  BY <1>1, PeriodFacts, NextControlTimeIsNextPeriod

-----------------------------------------------------------------------------
(* Types *)

LEMMA TypeInit == Init => TypeOK
<1> SUFFICES ASSUME Init PROVE TypeOK
  OBVIOUS
<1>1. 0 \in Time /\ 0 \in 0 .. MaxSteps
  BY MaxTimeAssumption, MaxStepsAssumption DEF Time
<1>2. control_rc \in Channels
  BY DEF Init, Channels
<1>3. published \in Telemetry
  BY <1>2 DEF Init, Telemetry
<1>4. odometry \in Odometry /\ manual \in Manual
  BY <1>1 DEF Init, Odometry, Manual
<1> QED
  BY <1>1, <1>2, <1>3, <1>4 DEF Init, TypeOK

LEMMA ReceiveType ==
  ASSUME TypeOK, NEW o \in Odometry, NEW m \in Manual, Receive(o, m)
  PROVE  TypeOK'
<1>1. o.timestamp \in Time /\ AutoModeSelected(m) \in BOOLEAN
  BY DEF Odometry, Manual, AutoModeSelected, ManualControlValid
<1>2. o.timestamp \in Nat /\ NextControlTime(o.timestamp) \in Nat
  BY <1>1, Times
<1>3. next_control_time_us' \in Nat /\ step_control' \in BOOLEAN
  BY <1>2 DEF TypeOK, Receive, ControlStepDue
<1>4. estimator_control_steps' \in 0 .. MaxSteps
  BY MaxStepsAssumption DEF TypeOK, Receive, StepsAfter
<1> QED
  BY <1>1, <1>3, <1>4 DEF TypeOK, Receive

LEMMA ControlType ==
  ASSUME TypeOK, StepModel \/ HoldOutput \/ IdleOutput \/ PassManual
  PROVE  TypeOK'
<1>1. odometry.timestamp \in Time /\ PeriodOf(odometry.timestamp) \in Nat
  BY Times DEF TypeOK, Odometry
<1>2. \A source \in {"manual", "model", "idle"} : Output(source) \in Channels
  BY <1>1 DEF Output, Channels
<1>3. Count(estimator_control_steps) \in 0 .. MaxSteps
  BY MaxStepsAssumption DEF TypeOK, Count
<1>4. CASE StepModel
  BY <1>1, <1>2, <1>3, <1>4 DEF TypeOK, StepModel, Control, Sensed
<1>5. CASE HoldOutput
  BY <1>5 DEF TypeOK, HoldOutput, Control, Sensed
<1>6. CASE IdleOutput
  BY <1>2, <1>6, MaxStepsAssumption DEF TypeOK, IdleOutput, Control, Sensed
<1>7. CASE PassManual
  BY <1>2, <1>7 DEF TypeOK, PassManual, Control, Sensed
<1> QED
  BY <1>4, <1>5, <1>6, <1>7

LEMMA PublishType == TypeOK /\ Publish => TypeOK'
<1> SUFFICES ASSUME TypeOK, Publish PROVE TypeOK'
  OBVIOUS
<1>1. odometry.timestamp \in Time /\ PeriodOf(odometry.timestamp) \in Nat
  BY Times DEF TypeOK, Odometry
<1>2. published' \in Telemetry
  <2> DEFINE failsafe == auto_mode /\ ~odometry.valid
             attitude == odometry.valid /\ estimator_control_steps >= 1
             rates == odometry.valid /\ estimator_control_steps >= 2
  <2>1. failsafe \in BOOLEAN /\ attitude \in BOOLEAN /\ rates \in BOOLEAN
    OBVIOUS
  <2>2. published' = [pwm |-> control_rc, flight_mode |-> auto_mode,
                      failsafe |-> failsafe, attitude_valid |-> attitude,
                      rates_valid |-> rates, timestamp |-> odometry.timestamp,
                      attitude |-> model]
    BY DEF Publish
  <2> HIDE DEF failsafe, attitude, rates
  <2> QED
    BY <1>1, <2>1, <2>2 DEF TypeOK, Telemetry
<1>3. latest' \in Nat \union {None}
  BY <1>1 DEF TypeOK, Publish
<1> QED
  BY <1>2, <1>3 DEF TypeOK, Publish

-----------------------------------------------------------------------------
(* The invariant, step by step *)

LEMMA SilInit == Init => SilInv
<1> SUFFICES ASSUME Init PROVE SilInv
  OBVIOUS
<1>1. TelemetryTrue
  BY TypeInit DEF Init, TelemetryTrue
<1>2. StepTimes
  BY Times DEF Init, StepTimes, Taken, Deciding
<1>3. OutputsHeld /\ OutputsChosen
  BY DEF Init, OutputsHeld, OutputsChosen
<1> QED
  BY <1>1, <1>2, <1>3 DEF SilInv

LEMMA ReceiveKeepsSil ==
  ASSUME SilInv, NEW o \in Odometry, NEW m \in Manual, Receive(o, m)
  PROVE  SilInv'
<1>1. TypeOK /\ TelemetryTrue /\ StepTimes /\ OutputsHeld
  BY DEF SilInv, TelemetryTrue
<1>2. TypeOK'
  BY <1>1, ReceiveType
<1>3. TelemetryTrue'
  BY <1>1, <1>2 DEF TelemetryTrue, Receive
<1>4. /\ pc = "receive" /\ pc' = "control"
      /\ odometry' = o /\ o.timestamp \in Time /\ o.timestamp \in Nat
      /\ UNCHANGED <<stepped, latest, control_rc>>
  BY Times DEF Receive, Odometry
<1>5. \A p \in stepped, t \in Time :
        t >= next_control_time_us => p < PeriodOf(t)
  BY <1>1 DEF StepTimes
<1>6. CASE o.timestamp >= next_control_time_us
  <2>1. step_control' /\ next_control_time_us' = NextControlTime(o.timestamp)
    BY <1>6 DEF Receive, ControlStepDue
  <2>2. \A p \in stepped : p < PeriodOf(o.timestamp)
    BY <1>4, <1>5, <1>6
  <2>3. \A t \in Time : t >= next_control_time_us'
                         <=> PeriodOf(o.timestamp) < PeriodOf(t)
    BY <1>4, <2>1, Times
  <2>4. stepped \subseteq Nat /\ \A t \in Time : PeriodOf(t) \in Nat
    BY <1>1, Times DEF TypeOK
  <2>5. StepTimes'
    BY <1>4, <2>1, <2>2, <2>3, <2>4 DEF StepTimes, Taken, Deciding
  <2>6. OutputsHeld'
    BY <1>1, <1>4, <2>1
       DEF OutputsHeld, Receive, StepsAfter, Deciding, TypeOK, Output
  <2> QED
    BY <1>3, <1>4, <2>5, <2>6 DEF SilInv, OutputsChosen
<1>7. CASE ~(o.timestamp >= next_control_time_us)
  <2>1. ~step_control' /\ next_control_time_us' = next_control_time_us
        /\ o.timestamp < next_control_time_us
    <3>1. ~step_control' /\ next_control_time_us' = next_control_time_us
      BY <1>7, Zenon DEF Receive, ControlStepDue
    <3>2. o.timestamp < next_control_time_us
      BY <1>1, <1>4, <1>7 DEF TypeOK
    <3> QED
      BY <3>1, <3>2
  <2>2. StepTimes'
    BY <1>1, <1>4, <1>5, <2>1 DEF StepTimes, Taken, Deciding
  <2>3. OutputsHeld'
    BY <1>1, <1>4, <2>1
       DEF OutputsHeld, Receive, StepsAfter, Deciding, TypeOK, Output
  <2> QED
    BY <1>3, <1>4, <2>2, <2>3 DEF SilInv, OutputsChosen
<1> QED
  BY <1>6, <1>7

LEMMA StepModelKeepsSil == SilInv /\ StepModel => SilInv'
<1> SUFFICES ASSUME SilInv, StepModel PROVE SilInv'
  OBVIOUS
<1> DEFINE t == odometry.timestamp
<1>1. TypeOK /\ TelemetryTrue /\ StepTimes
  BY DEF SilInv, TelemetryTrue
<1>2. TypeOK'
  BY <1>1, ControlType
<1>3. /\ pc = "control" /\ pc' = "publish" /\ step_control
      /\ auto_mode /\ odometry.valid /\ model' = t
      /\ control_rc' = [from |-> "model", at |-> t]
      /\ stepped' = stepped \union {PeriodOf(t)}
      /\ UNCHANGED <<odometry, auto_mode, step_control, next_control_time_us,
                     published, latest>>
  BY DEF StepModel, Control, Sensed, Output
<1>4. TelemetryTrue'
  BY <1>1, <1>2, <1>3 DEF TelemetryTrue
<1>5. t \in Time /\ t # None /\ PeriodOf(t) \in Nat
  BY <1>1, Times DEF TypeOK, Odometry
<1>6. \A u \in Time : u >= next_control_time_us <=> PeriodOf(t) < PeriodOf(u)
  BY <1>1, <1>3 DEF StepTimes, Taken
<1>7. StepTimes'
  BY <1>1, <1>3, <1>6 DEF StepTimes, Taken, Deciding
<1>8. OutputsHeld'
  <2>1. \A u \in Time : u < next_control_time_us => PeriodOf(u) <= PeriodOf(t)
    BY <1>1, <1>5, <1>6, Times DEF TypeOK
  <2> QED
    BY <1>3, <1>5, <2>1 DEF OutputsHeld
<1> QED
  BY <1>3, <1>4, <1>7, <1>8 DEF SilInv, OutputsChosen

(* The branches that do not step the model leave the step times alone.     *)
LEMMA NoStepKeepsSil ==
  ASSUME SilInv, HoldOutput \/ IdleOutput \/ PassManual
  PROVE  SilInv'
<1>1. TypeOK /\ TelemetryTrue /\ StepTimes /\ OutputsHeld
  BY DEF SilInv, TelemetryTrue
<1>2. TypeOK'
  BY <1>1, ControlType
<1>3. /\ pc = "control" /\ pc' = "publish"
      /\ UNCHANGED <<odometry, auto_mode, step_control, next_control_time_us,
                     published, latest, stepped, model>>
  BY DEF HoldOutput, IdleOutput, PassManual, Control, Sensed
<1>4. TelemetryTrue'
  BY <1>1, <1>2, <1>3 DEF TelemetryTrue
<1>5. StepTimes'
  BY <1>1, <1>3 DEF StepTimes, Taken, Deciding
<1>6. OutputsHeld' /\ OutputsChosen'
  <2>1. CASE HoldOutput
    BY <1>1, <1>3, <2>1 DEF OutputsHeld, OutputsChosen, HoldOutput, Deciding
  <2>2. CASE IdleOutput
    BY <1>3, <2>2 DEF OutputsHeld, OutputsChosen, IdleOutput, Output
  <2>3. CASE PassManual
    BY <1>3, <2>3 DEF OutputsHeld, OutputsChosen, PassManual, Output
  <2> QED
    BY <2>1, <2>2, <2>3
<1> QED
  BY <1>4, <1>5, <1>6 DEF SilInv

(* A sample being published is not ahead of the next step.                 *)
LEMMA PublishedInPeriod ==
  ASSUME TypeOK, StepTimes, pc = "publish"
  PROVE  odometry.timestamp < next_control_time_us
<1>1. odometry.timestamp \in Time /\ odometry.timestamp \in Nat
      /\ next_control_time_us \in Nat /\ step_control \in BOOLEAN
      /\ PeriodOf(odometry.timestamp) \in Nat
  BY Times DEF TypeOK, Odometry
<1>2. CASE step_control
  BY <1>1, <1>2 DEF StepTimes, Taken
<1>3. CASE ~step_control
  BY <1>1, <1>3 DEF StepTimes, Taken
<1> QED
  BY <1>1, <1>2, <1>3

LEMMA PublishKeepsSil == SilInv /\ Publish => SilInv'
<1> SUFFICES ASSUME SilInv, Publish PROVE SilInv'
  OBVIOUS
<1> DEFINE t == odometry.timestamp
<1>1. TypeOK /\ StepTimes /\ OutputsHeld /\ OutputsChosen
  BY DEF SilInv, TelemetryTrue
<1>2. TypeOK'
  BY <1>1, PublishType
<1>3. /\ pc = "publish" /\ pc' = "receive"
      /\ UNCHANGED <<odometry, auto_mode, step_control, next_control_time_us,
                     stepped, model, control_rc, estimator_control_steps>>
  BY DEF Publish
<1>4. t \in Time /\ t # None /\ t < next_control_time_us /\ PeriodOf(t) \in Nat
  BY <1>1, <1>3, PublishedInPeriod, Times DEF TypeOK, Odometry
<1>5. TelemetryTrue'
  <2>1. published'.failsafe => published'.pwm.from = "idle"
    <3>1. auto_mode /\ ~odometry.valid => control_rc.from = "idle"
      BY <1>1, <1>3 DEF OutputsChosen, Output
    <3>2. published'.pwm = control_rc
      BY DEF Publish
    <3>3. published'.failsafe => auto_mode /\ ~odometry.valid
      BY DEF Publish
    <3> QED
      BY <3>1, <3>2, <3>3, Zenon
  <2>2. ~published'.flight_mode =>
          published'.pwm = [from |-> "manual", at |-> published'.timestamp]
    BY <1>1, <1>3 DEF Publish, OutputsChosen, Output
  <2>3. published'.flight_mode /\ published'.attitude_valid =>
          /\ published'.pwm = [from |-> "model", at |-> published'.attitude]
          /\ PeriodOf(published'.timestamp) <= PeriodOf(published'.attitude)
    BY <1>1, <1>3, <1>4 DEF Publish, OutputsHeld, Deciding
  <2> QED
    BY <1>2, <2>1, <2>2, <2>3 DEF TelemetryTrue
<1>6. StepTimes'
  <2>1. latest' \in Int /\ latest' >= latest /\ latest' >= PeriodOf(t)
    BY <1>1, <1>4 DEF Publish, TypeOK, None
  <2>2. \A u \in Time : u < next_control_time_us => PeriodOf(u) <= latest'
    <3> SUFFICES ASSUME NEW u \in Time, u < next_control_time_us
                 PROVE  PeriodOf(u) <= latest'
      OBVIOUS
    <3>1. u \in Nat /\ PeriodOf(u) \in Nat /\ next_control_time_us \in Nat
      BY <1>1, Times DEF TypeOK
    <3>2. CASE step_control
      <4>1. ~(PeriodOf(t) < PeriodOf(u))
        BY <1>1, <1>3, <3>1, <3>2 DEF StepTimes, Taken
      <4> QED
        BY <1>4, <2>1, <3>1, <4>1
    <3>3. CASE ~step_control
      <4>1. PeriodOf(u) <= latest
        BY <1>1, <3>3 DEF StepTimes
      <4> QED
        BY <1>1, <2>1, <3>1, <4>1 DEF TypeOK, None
    <3> QED
      BY <3>2, <3>3
  <2> QED
    BY <1>1, <1>3, <2>2 DEF StepTimes, Taken, Deciding
<1>7. OutputsHeld' /\ OutputsChosen'
  BY <1>1, <1>3 DEF OutputsHeld, OutputsChosen, Deciding
<1> QED
  BY <1>5, <1>6, <1>7 DEF SilInv

LEMMA StutterKeepsSil == SilInv /\ UNCHANGED vars => SilInv'
  BY DEF vars, SilInv, TelemetryTrue, TypeOK, StepTimes, OutputsHeld,
         OutputsChosen, Taken, Deciding, Output

-----------------------------------------------------------------------------
(* The theorems *)

(* SilInv holds in every state (main_sil.c:205-263, 352-419).              *)
THEOREM SilCorrect == Spec => []SilInv
<1>1. SilInv /\ [Next]_vars => SilInv'
  BY ReceiveKeepsSil, StepModelKeepsSil, NoStepKeepsSil, PublishKeepsSil,
     StutterKeepsSil DEF Next
<1> QED
  BY <1>1, SilInit, PTL DEF Spec

(* Every variable holds what its C declaration allows (main_sil.c).        *)
THEOREM TypeCorrect == Spec => []TypeOK
  BY SilCorrect, PTL DEF SilInv, TelemetryTrue

(* What the topics say of the outputs is true of them (main_sil.c:243-248, *)
(* 259, 379-396).                                                          *)
THEOREM TopicsAreTrue == Spec => []TelemetryTrue
  BY SilCorrect, PTL DEF SilInv

(* The model steps once per control period at most and never goes back     *)
(* (main_sil.c:217-231, 380-388).                                          *)
THEOREM StepsOncePerPeriod == Spec => OneStepPerPeriod
<1>1. SilInv /\ StepModel => \A p \in stepped : p < PeriodOf(odometry.timestamp)
  BY DEF SilInv, StepTimes, Deciding, StepModel, Control
<1>2. SilInv /\ [Next]_vars =>
        [StepModel => \A p \in stepped : p < PeriodOf(odometry.timestamp)]_vars
  BY <1>1
<1> QED
  BY <1>2, SilCorrect, PTL DEF Spec, OneStepPerPeriod

(* The output is held only in a period that an earlier sample was of, or   *)
(* before it (main_sil.c:219-225).                                         *)
THEOREM NoStepIsWithheld == Spec => StepNotWithheld
<1>1. SilInv /\ HoldOutput => PeriodOf(odometry.timestamp) <= latest
  <2> SUFFICES ASSUME SilInv, HoldOutput
               PROVE  PeriodOf(odometry.timestamp) <= latest
    OBVIOUS
  <2>1. odometry.timestamp \in Time
    BY DEF SilInv, TelemetryTrue, TypeOK, Odometry
  <2> QED
    BY <2>1 DEF SilInv, StepTimes, Taken, HoldOutput, Control
<1>2. SilInv /\ [Next]_vars =>
        [HoldOutput => PeriodOf(odometry.timestamp) <= latest]_vars
  BY <1>1
<1> QED
  BY <1>2, SilCorrect, PTL DEF Spec, StepNotWithheld
=============================================================================
