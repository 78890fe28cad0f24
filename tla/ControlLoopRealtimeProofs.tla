---------------------- MODULE ControlLoopRealtimeProofs ----------------------
(***************************************************************************)
(* The control loop of main_realtime.c in both builds: what it publishes   *)
(* is recent and true, a gap of the poses is announced, no pose and no     *)
(* command is missed, the model keeps its fixed step; for every number of  *)
(* messages, every period and every threshold.                             *)
(***************************************************************************)
EXTENDS ControlLoopRealtime, TLAPS

(* The arithmetic of next_control_time_us *)

LEMMA ProductMonotonic ==
  ASSUME NEW m \in Nat, NEW n \in Nat, NEW k \in Nat, m <= n
  PROVE  m * k <= n * k
  OBVIOUS

LEMMA PeriodFacts ==
  ASSUME NEW t \in Nat
  PROVE  /\ PeriodOf(t) \in Nat
         /\ PeriodOf(t) * Period <= t
         /\ t < (PeriodOf(t) + 1) * Period
         /\ NextControlTime(t) \in Nat
  BY RealtimeAssumption DEF PeriodOf, NextControlTime

(* The next step is due with the first time stamp of a later period.       *)
LEMMA NextControlTimeIsNextPeriod ==
  ASSUME NEW t \in Nat, NEW u \in Nat
  PROVE  u >= NextControlTime(t) <=> PeriodOf(t) < PeriodOf(u)
<1> DEFINE p == PeriodOf(t)
           q == PeriodOf(u)
           next == (p + 1) * Period
           from == q * Period
           to == (q + 1) * Period
<1>1. p \in Nat /\ q \in Nat /\ from <= u /\ u < to /\ NextControlTime(t) = next
  BY PeriodFacts DEF NextControlTime, PeriodOf
<1>2. ASSUME NEW m \in Nat, NEW n \in Nat, m <= n
      PROVE  m * Period <= n * Period /\ m * Period \in Nat /\ n * Period \in Nat
  <2>1. Period \in Nat
    BY RealtimeAssumption
  <2> QED
    BY <1>2, <2>1, ProductMonotonic
<1>3. next \in Nat /\ from \in Nat /\ to \in Nat
  BY <1>1, <1>2
<1>4. p < q => next <= from
  BY <1>1, <1>2
<1>5. q <= p => to <= next
  BY <1>1, <1>2
<1> HIDE DEF p, q, next, from, to
<1> QED
  BY <1>1, <1>3, <1>4, <1>5 DEF p, q

(* What of the time stamps the proofs below need. *)
LEMMA Times ==
  /\ Time \subseteq Nat
  /\ None \notin Time
  /\ \A t \in Time : PeriodOf(t) \in Nat /\ NextControlTime(t) \in Nat
  /\ \A t, u \in Time : u >= NextControlTime(t) <=> PeriodOf(t) < PeriodOf(u)
<1>1. Time \subseteq Nat /\ None \notin Time
  BY RealtimeAssumption DEF Time, None
<1> QED
  BY <1>1, PeriodFacts, NextControlTimeIsNextPeriod

LEMMA HeldFacts ==
  ASSUME NEW h \in Held
  PROVE  h = None \/ (h \in Nat /\ PeriodOf(h) \in Nat)
<1>1. Pose \subseteq Nat
  BY RealtimeAssumption DEF Pose
<1>2. h \in Pose \/ h \in Time \/ h = None
  BY DEF Held
<1>3. h \in Nat => PeriodOf(h) \in Nat
  BY PeriodFacts
<1> QED
  BY <1>1, <1>2, <1>3, Times

(* Counting stays within the limit and never goes back.                    *)
LEMMA SaturateFacts ==
  ASSUME NEW limit \in Nat, NEW n \in 0 .. limit
  PROVE  /\ Saturate(n, limit) \in 0 .. limit
         /\ n <= Saturate(n, limit) /\ Saturate(n, limit) <= n + 1
         /\ n < limit => Saturate(n, limit) = n + 1
  BY DEF Saturate

-----------------------------------------------------------------------------
(* Types *)

LEMMA TypeInit == Init => TypeOK
<1> SUFFICES ASSUME Init PROVE TypeOK
  OBVIOUS
<1> USE RealtimeAssumption
<1>1. pose_raw \in [generation : Pose, valid : BOOLEAN]
  BY DEF Init, Pose
<1>2. manual_topic \in [generation : 0 .. MaxManuals, command : Command]
  BY DEF Init, Command
<1>3. mocap \in [pose : Held, valid : BOOLEAN] /\ mocap_generation \in Pose
  BY DEF Init, Held, Pose, None
<1>4. model \in [pose : Held, engaged : BOOLEAN, held : 0 .. StaleSamples + 1,
                 airborne : BOOLEAN]
  BY DEF Init, Held
<1>5. published \in [pwm : Source, flight_mode : BOOLEAN, failsafe : BOOLEAN,
                     attitude_valid : BOOLEAN, rates_valid : BOOLEAN,
                     pose : Held, attitude : Held]
  BY DEF Init, Held, Source
<1>6. since_update \in 0 .. Freshness + 1 /\ pose_age \in 0 .. MaxAge + 1
      /\ mocap_age \in 0 .. MaxAge + 1 /\ lag \in 0 .. MaxLag
      /\ repeated \in 0 .. StaleSamples + 1
  BY DEF Init, MaxAge
<1>7. FastDyn \in BOOLEAN /\ auto_mode \in BOOLEAN /\ step_control \in BOOLEAN
  BY Zenon DEF Init
<1>8. manual \in Command /\ manual_generation \in 0 .. MaxManuals
      /\ control_rc \in Source /\ estimator_control_steps \in 0 .. 2
      /\ generation \in Nat /\ next_control_time_us \in Nat /\ pc = "sense"
  BY DEF Init, Command, Source
<1> QED
  BY <1>1, <1>2, <1>3, <1>4, <1>5, <1>6, <1>7, <1>8 DEF TypeOK

LEMMA EnvironmentType ==
  ASSUME TypeOK,
         \/ \E valid \in BOOLEAN : PublishPose(valid)
         \/ \E command \in Command : PublishManual(command)
         \/ Tick
  PROVE  TypeOK'
<1> USE RealtimeAssumption
<1>1. ASSUME NEW valid \in BOOLEAN, PublishPose(valid) PROVE TypeOK'
  <2>1. pose_raw' \in [generation : Pose, valid : BOOLEAN]
    BY <1>1 DEF TypeOK, PublishPose, Pose
  <2>2. pose_age' \in 0 .. MaxAge + 1
    BY <1>1 DEF PublishPose, MaxAge
  <2> QED
    BY <1>1, <2>1, <2>2 DEF TypeOK, PublishPose, sensed
<1>2. ASSUME NEW command \in Command, PublishManual(command) PROVE TypeOK'
  <2>1. manual_topic' \in [generation : 0 .. MaxManuals, command : Command]
    BY <1>2 DEF TypeOK, PublishManual
  <2> QED
    BY <1>2, <2>1 DEF TypeOK, PublishManual, sensed
<1>3. CASE Tick
  <2>1. since_update' \in 0 .. Freshness + 1
    BY <1>3, SaturateFacts DEF TypeOK, Tick
  <2>2. pose_age' \in 0 .. MaxAge + 1 /\ mocap_age' \in 0 .. MaxAge + 1
    BY <1>3, SaturateFacts DEF TypeOK, Tick, MaxAge
  <2>3. lag' \in 0 .. MaxLag
    BY <1>3 DEF TypeOK, Tick
  <2> QED
    BY <1>3, <2>1, <2>2, <2>3 DEF TypeOK, Tick
<1> QED
  BY <1>1, <1>2, <1>3

LEMMA InputsType ==
  ASSUME TypeOK, InputsSeen, SeePose \/ SeeNoPose \/ CopyPose \/ CopyFails
  PROVE  TypeOK'
<1> USE RealtimeAssumption
<1>1. Saturate(repeated, StaleSamples + 1) \in 0 .. StaleSamples + 1
  <2>1. StaleSamples + 1 \in Nat /\ repeated \in 0 .. StaleSamples + 1
    BY DEF TypeOK
  <2> QED
    BY <2>1, SaturateFacts
<1>2. CASE SeePose
  <2>1. generation' \in Nat
    BY <1>2 DEF TypeOK, SeePose, Pose
  <2> QED
    BY <1>2, <2>1 DEF TypeOK, SeePose, Controlled, outside, sensed
<1>3. CASE SeeNoPose
  BY <1>1, <1>3 DEF TypeOK, SeeNoPose, Controlled, outside
<1>4. CASE CopyPose
  <2>1. mocap' \in [pose : Held, valid : BOOLEAN]
    BY <1>4 DEF TypeOK, CopyPose, Held
  <2>2. repeated' \in 0 .. StaleSamples + 1
    BY <1>1, <1>4 DEF CopyPose
  <2>3. mocap_generation' \in Pose
    BY <1>4 DEF TypeOK, InputsSeen, CopyPose, Pose
  <2>4. since_update' \in 0 .. Freshness + 1 /\ lag' \in 0 .. MaxLag
        /\ generation' \in Nat /\ mocap_age' \in 0 .. MaxAge + 1
    BY <1>4 DEF TypeOK, CopyPose
  <2> QED
    BY <1>4, <2>1, <2>2, <2>3, <2>4 DEF TypeOK, CopyPose, Controlled, outside
<1>5. CASE CopyFails
  BY <1>1, <1>5
     DEF TypeOK, CopyFails, CopyFailure, CopyUnstamped, Controlled, outside
<1> QED
  BY <1>2, <1>3, <1>4, <1>5

LEMMA ReceiveType ==
  ASSUME TypeOK, NEW t \in Time, NEW valid \in BOOLEAN, ReceiveOdometry(t, valid)
  PROVE  TypeOK'
<1>1. t \in Nat /\ NextControlTime(t) \in Nat /\ t \in Held
  BY Times DEF Held
<1>2. mocap' \in [pose : Held, valid : BOOLEAN]
  BY <1>1 DEF ReceiveOdometry
<1>3. step_control' \in BOOLEAN /\ next_control_time_us' \in Nat
  BY <1>1 DEF TypeOK, ReceiveOdometry
<1> QED
  BY <1>2, <1>3 DEF TypeOK, ReceiveOdometry, Controlled, outside

LEMMA ManualType ==
  ASSUME TypeOK, InputsSeen, SeeManual \/ SeeNoManual \/ ReadManual \/ SelectMode
  PROVE  TypeOK'
<1>1. CASE SeeManual
  <2>1. generation' \in Nat
    BY <1>1, RealtimeAssumption DEF TypeOK, SeeManual
  <2> QED
    BY <1>1, <2>1 DEF TypeOK, SeeManual, Controlled, outside, sensed
<1>2. CASE SeeNoManual
  BY <1>2 DEF TypeOK, SeeNoManual, Controlled, outside, sensed
<1>3. CASE ReadManual
  <2>1. manual' \in Command /\ manual_generation' \in 0 .. MaxManuals
    BY <1>3, RealtimeAssumption DEF TypeOK, InputsSeen, ReadManual
  <2> QED
    BY <1>3, <2>1 DEF TypeOK, ReadManual, Controlled, outside
<1>4. CASE SelectMode
  <2>1. auto_mode' \in BOOLEAN
    BY <1>4 DEF SelectMode, AutoModeSelected
  <2> QED
    BY <1>4, <2>1 DEF TypeOK, SelectMode, outside, sensed
<1> QED
  BY <1>1, <1>2, <1>3, <1>4

LEMMA StepType ==
  ASSUME TypeOK, StepModel \/ NoModelStep
  PROVE  TypeOK'
<1>1. Saturate(model.held, StaleSamples + 1) \in 0 .. StaleSamples + 1
  BY RealtimeAssumption, SaturateFacts DEF TypeOK
<1>2. Saturate(estimator_control_steps, 2) \in 0 .. 2
  BY SaturateFacts DEF TypeOK
<1>3. CASE StepModel
  <2>1. PICK airborne \in BOOLEAN :
          model' = [pose |-> mocap.pose,
                    engaged |-> auto_mode,
                    held |-> IF mocap.pose = model.pose
                               THEN Saturate(model.held, StaleSamples + 1) ELSE 0,
                    airborne |-> airborne]
    BY <1>3 DEF StepModel
  <2>2. model' \in [pose : Held, engaged : BOOLEAN,
                    held : 0 .. StaleSamples + 1, airborne : BOOLEAN]
    BY <1>1, <2>1, RealtimeAssumption DEF TypeOK
  <2> QED
    BY <1>2, <1>3, <2>2 DEF TypeOK, StepModel, outside, sensed
<1>4. CASE NoModelStep
  BY <1>4 DEF TypeOK, NoModelStep, StepsWithoutPose, outside, sensed
<1> QED
  BY <1>3, <1>4

LEMMA OutputType ==
  ASSUME TypeOK, Output \/ Publish
  PROVE  TypeOK'
<1>1. CASE Output
  BY <1>1 DEF TypeOK, Output, Source, outside, sensed
<1>2. CASE Publish
  <2> DEFINE failsafe == auto_mode /\ (~mocap.valid \/ ModelStale)
             attitude == MeasurementFresh /\ estimator_control_steps >= 1
             rates == MeasurementFresh /\ estimator_control_steps >= 2
  <2>1. failsafe \in BOOLEAN /\ attitude \in BOOLEAN /\ rates \in BOOLEAN
    OBVIOUS
  <2>2. published' = [pwm |-> control_rc, flight_mode |-> auto_mode,
                      failsafe |-> failsafe, attitude_valid |-> attitude,
                      rates_valid |-> rates, pose |-> mocap.pose,
                      attitude |-> model.pose]
    BY <1>2 DEF Publish
  <2> HIDE DEF failsafe, attitude, rates
  <2>3. published' \in [pwm : Source, flight_mode : BOOLEAN, failsafe : BOOLEAN,
                        attitude_valid : BOOLEAN, rates_valid : BOOLEAN,
                        pose : Held, attitude : Held]
    BY <2>1, <2>2 DEF TypeOK
  <2> QED
    BY <1>2, <2>3 DEF TypeOK, Publish, outside, sensed
<1> QED
  BY <1>1, <1>2

-----------------------------------------------------------------------------
(* Steps that only compute *)

Compute == SelectMode \/ StepModel \/ NoModelStep \/ Output \/ Publish

(* After the inputs are taken, an iteration changes none of them.          *)
LEMMA ComputeFrame ==
  ASSUME Compute
  PROVE  /\ UNCHANGED <<outside, generation, sensed, lag>>
         /\ pc \in {"select", "step", "output", "publish"}
         /\ pc' \in {"step", "output", "publish", "sense"}
  BY DEF Compute, SelectMode, StepModel, NoModelStep, Output, Publish

LEMMA ComputeType == TypeOK /\ InputsSeen /\ Compute => TypeOK'
  BY ManualType, StepType, OutputType DEF Compute

LEMMA TypeStep ==
  ASSUME TypeOK, InputsSeen, [Next]_vars
  PROVE  TypeOK'
<1>1. CASE UNCHANGED vars
  BY <1>1 DEF vars, outside, sensed, TypeOK
<1>2. CASE Next
  BY <1>2, EnvironmentType, InputsType, ReceiveType, ManualType, StepType,
     OutputType DEF Next, Controller
<1> QED
  BY <1>1, <1>2

-----------------------------------------------------------------------------
(* No input is missed *)

LEMMA InputsInit == Init => InputsSeen
  BY DEF Init, InputsSeen, None

LEMMA InputsStep ==
  ASSUME TypeOK, InputsSeen, [Next]_vars
  PROVE  InputsSeen'
<1> USE DEF TypeOK, InputsSeen, Pose, Held, Time, None
<1> USE RealtimeAssumption
<1>1. ASSUME NEW valid \in BOOLEAN, PublishPose(valid) PROVE InputsSeen'
  BY <1>1 DEF PublishPose, sensed
<1>2. ASSUME NEW command \in Command, PublishManual(command) PROVE InputsSeen'
  BY <1>2 DEF PublishManual, sensed
<1>3. CASE Tick
  BY <1>3 DEF Tick
<1>4. CASE SeePose
  BY <1>4 DEF SeePose, News, Controlled, outside, sensed
<1>5. CASE SeeNoPose
  BY <1>5 DEF SeeNoPose, Controlled, outside
<1>6. CASE CopyPose
  BY <1>6 DEF CopyPose, Controlled, outside
<1>7. CASE CopyFails
  BY <1>7 DEF CopyFails, CopyFailure, Controlled, outside
<1>8. ASSUME NEW t \in Time, NEW valid \in BOOLEAN, ReceiveOdometry(t, valid)
      PROVE  InputsSeen'
  BY <1>8 DEF ReceiveOdometry, Controlled, outside
<1>9. CASE SeeManual
  BY <1>9 DEF SeeManual, News, Controlled, outside, sensed
<1>10. CASE SeeNoManual
  BY <1>10 DEF SeeNoManual, Controlled, outside, sensed
<1>11. CASE ReadManual
  BY <1>11 DEF ReadManual, Controlled, outside
<1>12. CASE Compute
  BY <1>12, ComputeFrame DEF outside, sensed
<1>13. CASE UNCHANGED vars
  BY <1>13 DEF vars, outside, sensed
<1> QED
  BY <1>1, <1>2, <1>3, <1>4, <1>5, <1>6, <1>7, <1>8, <1>9, <1>10, <1>11,
     <1>12, <1>13 DEF Next, Controller, Compute

-----------------------------------------------------------------------------
(* How old the poses are *)

LEMMA AgesInit == Init => AgesKnown
  BY DEF Init, AgesKnown

LEMMA TickKeepsAges ==
  ASSUME TypeOK, AgesKnown, Tick
  PROVE  AgesKnown'
<1> USE RealtimeAssumption DEF TypeOK
<1>1. /\ MaxAge + 1 \in Nat /\ Freshness + 1 \in Nat
      /\ pose_age \in 0 .. MaxAge + 1 /\ mocap_age \in 0 .. MaxAge + 1
      /\ since_update \in 0 .. Freshness + 1
  BY DEF MaxAge
<1>2. pose_age' \in Nat /\ pose_age' <= pose_age + 1
      /\ mocap_age' \in Nat /\ mocap_age' <= mocap_age + 1
      /\ lag' = lag + 1
  BY <1>1, SaturateFacts DEF Tick
<1>3. since_update' <= Freshness => since_update' = since_update + 1
  BY <1>1, SaturateFacts DEF Tick
<1>4. UNCHANGED <<FastDyn, pc, pose_raw, generation, mocap, mocap_generation>>
  BY DEF Tick
<1> QED
  BY <1>1, <1>2, <1>3, <1>4 DEF AgesKnown, Pose

LEMMA CopyKeepsAges ==
  ASSUME TypeOK, InputsSeen, AgesKnown, CopyPose
  PROVE  AgesKnown'
<1> USE RealtimeAssumption DEF TypeOK, Pose
<1>1. /\ ~FastDyn /\ pc = "copy" /\ pc' = "manual" /\ UNCHANGED outside
      /\ mocap'.pose = pose_raw.generation /\ mocap_generation' = generation
      /\ since_update' = 0 /\ mocap_age' = pose_age /\ lag' = 0
  BY DEF CopyPose, InputsSeen, Controlled
<1>2. generation \in mocap_generation + 1 .. pose_raw.generation
  BY <1>1 DEF InputsSeen
<1>3. pose_raw.generation # 0 /\ mocap_generation # pose_raw.generation
  BY <1>2
<1>4. pose_age <= 2 * MaxLag
  BY <1>1, <1>3 DEF AgesKnown
<1>5. generation # pose_raw.generation => pose_age <= MaxLag
  BY <1>1, <1>3 DEF AgesKnown
<1> QED
  BY <1>1, <1>4, <1>5 DEF AgesKnown, outside

LEMMA AgesStep ==
  ASSUME TypeOK, InputsSeen, AgesKnown, [Next]_vars
  PROVE  AgesKnown'
<1> USE RealtimeAssumption DEF TypeOK, InputsSeen, AgesKnown, Pose
<1>1. ASSUME NEW valid \in BOOLEAN, PublishPose(valid) PROVE AgesKnown'
  BY <1>1 DEF PublishPose, sensed
<1>2. ASSUME NEW command \in Command, PublishManual(command) PROVE AgesKnown'
  BY <1>2 DEF PublishManual, sensed
<1>3. CASE Tick
  BY <1>3, TickKeepsAges
<1>4. CASE SeePose
  BY <1>4 DEF SeePose, News, Controlled, outside, sensed
<1>5. CASE SeeNoPose
  <2>1. ~FastDyn /\ pc' = "manual" /\ UNCHANGED outside
        /\ UNCHANGED <<mocap, mocap_generation, since_update, mocap_age>>
        /\ pose_raw.generation \in {0, mocap_generation}
    BY <1>5 DEF SeeNoPose, News, Controlled
  <2>2. pose_raw.generation # 0 => mocap.pose = pose_raw.generation
    <3>1. mocap.pose \in Int
      BY DEF Held, Time, None
    <3> QED
      BY <2>1, <3>1
  <2> QED
    BY <2>1, <2>2 DEF outside
<1>6. CASE CopyPose
  BY <1>6, CopyKeepsAges
<1>7. CASE CopyFails
  BY <1>7 DEF CopyFails, CopyFailure, CopyUnstamped, Controlled, outside
<1>8. ASSUME NEW t \in Time, NEW valid \in BOOLEAN, ReceiveOdometry(t, valid)
      PROVE  AgesKnown'
  BY <1>8 DEF ReceiveOdometry, Controlled, outside
<1>9. CASE SeeManual
  BY <1>9 DEF SeeManual, Controlled, outside, sensed
<1>10. CASE SeeNoManual
  BY <1>10 DEF SeeNoManual, Controlled, outside, sensed
<1>11. CASE ReadManual
  BY <1>11 DEF ReadManual, Controlled, outside
<1>12. CASE Compute
  BY <1>12, ComputeFrame DEF outside, sensed
<1>13. CASE UNCHANGED vars
  BY <1>13 DEF vars, outside, sensed
<1> QED
  BY <1>1, <1>2, <1>3, <1>4, <1>5, <1>6, <1>7, <1>8, <1>9, <1>10, <1>11,
     <1>12, <1>13 DEF Next, Controller, Compute

-----------------------------------------------------------------------------
(* Deployed: the model counts repeated poses *)

LEMMA CountedInit == Init => StepsCounted
<1> SUFFICES ASSUME Init PROVE StepsCounted
  OBVIOUS
<1>1. step_control /\ ~mocap.valid
  BY DEF Init
<1> QED
  BY <1>1 DEF StepsCounted

(* A look at the pose counts a repetition, or brings another pose.         *)
LEMMA LookKeepsCounted ==
  ASSUME TypeOK, InputsSeen, StepsCounted, SeeNoPose \/ CopyPose \/ CopyFails
  PROVE  StepsCounted'
<1>1. /\ ~FastDyn /\ FastDyn' = FastDyn /\ step_control /\ step_control'
      /\ pc \in {"sense", "copy"} /\ pc' = "manual"
      /\ UNCHANGED <<model, auto_mode>>
  BY DEF SeeNoPose, CopyPose, CopyFails, Controlled, outside, InputsSeen,
         StepsCounted
<1>2. repeated \in Nat /\ Saturate(repeated, StaleSamples + 1) <= repeated + 1
  <2>1. StaleSamples + 1 \in Nat /\ repeated \in 0 .. StaleSamples + 1
    BY RealtimeAssumption DEF TypeOK
  <2> QED
    BY <2>1, SaturateFacts
<1>3. Saturate(repeated, StaleSamples + 1) \in Nat
  BY RealtimeAssumption DEF TypeOK, Saturate
<1>4. mocap.valid => model.pose = mocap.pose /\ model.held >= repeated
  BY <1>1 DEF StepsCounted, Deciding
<1>5. CASE repeated' = Saturate(repeated, StaleSamples + 1)
           /\ mocap'.pose = mocap.pose /\ mocap'.valid = mocap.valid
  <2>1. model.held \in Nat
    BY DEF TypeOK
  <2>2. mocap'.valid => model.pose = mocap'.pose /\ model.held + 1 >= repeated'
    BY <1>2, <1>3, <1>4, <1>5, <2>1
  <2> QED
    BY <1>1, <2>2 DEF StepsCounted, Deciding
<1>6. CASE repeated' = 0
  BY <1>1, <1>6 DEF StepsCounted, Deciding
<1>7. CASE SeeNoPose \/ CopyFails
  BY <1>5, <1>7 DEF SeeNoPose, CopyFails
<1>8. CASE CopyPose
  <2>1. mocap'.pose = pose_raw.generation /\ mocap'.valid = pose_raw.valid
    BY <1>8 DEF CopyPose
  <2>2. mocap'.pose = mocap.pose => mocap'.valid = mocap.valid
    BY <1>1, <2>1 DEF InputsSeen
  <2> QED
    BY <1>5, <1>6, <1>8, <2>2 DEF CopyPose
<1> QED
  BY <1>7, <1>8

LEMMA StepKeepsCounted ==
  ASSUME TypeOK, StepsCounted, StepModel
  PROVE  StepsCounted'
<1>1. PICK airborne \in BOOLEAN :
        model' = [pose |-> mocap.pose,
                  engaged |-> auto_mode,
                  held |-> IF mocap.pose = model.pose
                             THEN Saturate(model.held, StaleSamples + 1) ELSE 0,
                  airborne |-> airborne]
  BY DEF StepModel
<1>2. /\ pc = "step" /\ pc' = "output"
      /\ UNCHANGED <<FastDyn, mocap, step_control, repeated, auto_mode>>
  BY DEF StepModel, outside, sensed
<1>3. /\ StaleSamples + 1 \in Nat /\ repeated \in 0 .. StaleSamples + 1
      /\ model.held \in 0 .. StaleSamples + 1
  BY RealtimeAssumption DEF TypeOK
<1>4. model.held + 1 >= repeated
        => Saturate(model.held, StaleSamples + 1) >= repeated
  BY <1>3 DEF Saturate
<1>5. ~FastDyn /\ mocap.valid => model'.held >= repeated
  <2> SUFFICES ASSUME ~FastDyn, mocap.valid PROVE model'.held >= repeated
    OBVIOUS
  <2>1. \/ repeated = 0
        \/ model.pose = mocap.pose /\ model.held + 1 >= repeated
    BY <1>2 DEF StepsCounted, Deciding
  <2>2. Saturate(model.held, StaleSamples + 1) \in Nat
    BY <1>3 DEF Saturate
  <2> QED
    BY <1>1, <1>3, <1>4, <2>1, <2>2
<1>6. model'.pose = mocap.pose /\ model'.engaged = auto_mode
  BY <1>1
<1> QED
  BY <1>2, <1>5, <1>6 DEF StepsCounted, Deciding

LEMMA CountedStep ==
  ASSUME TypeOK, InputsSeen, StepsCounted, [Next]_vars
  PROVE  StepsCounted'
<1> USE DEF StepsCounted, Deciding
<1>1. CASE \/ \E valid \in BOOLEAN : PublishPose(valid)
           \/ \E command \in Command : PublishManual(command)
           \/ Tick
  BY <1>1 DEF PublishPose, PublishManual, Tick, sensed
<1>2. CASE SeePose
  BY <1>2 DEF SeePose, Controlled, outside, sensed
<1>3. CASE SeeNoPose \/ CopyPose \/ CopyFails
  BY <1>3, LookKeepsCounted
<1>4. ASSUME NEW t \in Time, NEW valid \in BOOLEAN, ReceiveOdometry(t, valid)
      PROVE  StepsCounted'
  BY <1>4 DEF ReceiveOdometry, Controlled, outside
<1>5. CASE SeeManual
  BY <1>5 DEF SeeManual, Controlled, outside, sensed
<1>6. CASE SeeNoManual
  BY <1>6 DEF SeeNoManual, Controlled, outside, sensed
<1>7. CASE ReadManual
  BY <1>7 DEF ReadManual, Controlled, outside
<1>8. CASE SelectMode
  BY <1>8 DEF SelectMode, outside, sensed
<1>9. CASE StepModel
  BY <1>9, StepKeepsCounted
<1>10. CASE NoModelStep
  BY <1>10 DEF NoModelStep, StepDue, outside, sensed
<1>11. CASE Output
  BY <1>11 DEF Output, outside, sensed
<1>12. CASE Publish
  BY <1>12 DEF Publish, outside, sensed
<1>13. CASE UNCHANGED vars
  BY <1>13 DEF vars, outside, sensed
<1> QED
  BY <1>1, <1>2, <1>3, <1>4, <1>5, <1>6, <1>7, <1>8, <1>9, <1>10, <1>11,
     <1>12, <1>13 DEF Next, Controller

-----------------------------------------------------------------------------
(* FastDyn: the model keeps its period *)

LEMMA PacedInit == Init => SamplesPaced
<1> SUFFICES ASSUME Init PROVE SamplesPaced
  OBVIOUS
<1>1. model.pose = None /\ pc = "sense" /\ estimator_control_steps = 0
  BY DEF Init
<1> QED
  BY <1>1 DEF SamplesPaced, Deciding

(* A sample moves the next step past its period, if it makes one due.      *)
LEMMA ReceiveKeepsPaced ==
  ASSUME TypeOK, SamplesPaced, NEW t \in Time, NEW valid \in BOOLEAN,
         ReceiveOdometry(t, valid)
  PROVE  SamplesPaced'
<1>1. /\ FastDyn /\ FastDyn' = FastDyn /\ pc = "sense" /\ pc' = "manual"
      /\ mocap'.pose = t /\ UNCHANGED <<model, estimator_control_steps>>
  BY DEF ReceiveOdometry, Controlled, outside
<1>2. t \in Nat /\ t \in Time /\ next_control_time_us \in Nat
  BY Times DEF TypeOK
<1>3. model.pose # None => \A u \in Time :
        u >= next_control_time_us => PeriodOf(model.pose) < PeriodOf(u)
  BY <1>1 DEF SamplesPaced
<1>4. estimator_control_steps >= 1 =>
        /\ model.pose # None
        /\ \A u \in Time :
             u < next_control_time_us => PeriodOf(u) <= PeriodOf(model.pose)
  BY <1>1 DEF SamplesPaced, Deciding
<1>5. CASE t >= next_control_time_us
  <2>1. next_control_time_us' = NextControlTime(t) /\ step_control'
    BY <1>5 DEF ReceiveOdometry
  <2>2. \A u \in Time : u >= next_control_time_us' <=> PeriodOf(t) < PeriodOf(u)
    BY <1>2, <2>1, Times
  <2>3. t < next_control_time_us'
    <3>1. ~(t >= NextControlTime(t)) /\ NextControlTime(t) \in Nat
      BY <1>2, Times
    <3> QED
      BY <1>2, <2>1, <3>1
  <2>4. model.pose # None => PeriodOf(model.pose) < PeriodOf(t)
    BY <1>2, <1>3, <1>5
  <2>5. model.pose # None => \A u \in Time :
          u >= next_control_time_us' => PeriodOf(model.pose) < PeriodOf(u)
    <3>1. model.pose # None => PeriodOf(model.pose) \in Int
      BY HeldFacts DEF TypeOK
    <3>2. \A u \in Time : PeriodOf(u) \in Nat
      BY Times
    <3> QED
      BY <1>2, <2>2, <2>4, <3>1, <3>2
  <2> QED
    BY <1>1, <1>2, <1>4, <2>1, <2>2, <2>3, <2>4, <2>5 DEF SamplesPaced, Deciding
<1>6. CASE ~(t >= next_control_time_us)
  <2>1. ~step_control' /\ next_control_time_us' = next_control_time_us
    BY <1>6, Zenon DEF ReceiveOdometry
  <2>2. t < next_control_time_us
    BY <1>2, <1>6
  <2> QED
    BY <1>1, <1>2, <1>3, <1>4, <2>1, <2>2 DEF SamplesPaced, Deciding
<1> QED
  BY <1>5, <1>6

LEMMA StepModelKeepsPaced ==
  ASSUME TypeOK, SamplesPaced, StepModel
  PROVE  SamplesPaced'
<1> SUFFICES ASSUME FastDyn' PROVE SamplesPaced'
  BY DEF SamplesPaced
<1>1. /\ FastDyn /\ pc = "step" /\ pc' = "output" /\ step_control
      /\ UNCHANGED <<mocap, next_control_time_us, step_control>>
  BY DEF StepModel, StepDue, outside, sensed
<1>2. model'.pose = mocap.pose
  BY DEF StepModel
<1>3. mocap.pose \in Time /\ mocap.pose < next_control_time_us
      /\ \A u \in Time : u >= next_control_time_us
                          <=> PeriodOf(mocap.pose) < PeriodOf(u)
  BY <1>1 DEF SamplesPaced, Deciding
<1>4. ASSUME NEW u \in Time, u < next_control_time_us
      PROVE  PeriodOf(u) <= PeriodOf(mocap.pose)
  <2>1. u \in Nat /\ PeriodOf(u) \in Nat /\ PeriodOf(mocap.pose) \in Nat
        /\ next_control_time_us \in Nat
    BY <1>3, Times DEF TypeOK
  <2>2. ~(PeriodOf(mocap.pose) < PeriodOf(u))
    BY <1>3, <1>4, <2>1
  <2> QED
    BY <2>1, <2>2
<1> QED
  BY <1>1, <1>2, <1>3, <1>4, Times DEF SamplesPaced, Deciding

LEMMA NoStepKeepsPaced ==
  ASSUME TypeOK, SamplesPaced, NoModelStep
  PROVE  SamplesPaced'
<1>1. /\ pc = "step" /\ pc' = "output"
      /\ UNCHANGED <<FastDyn, mocap, next_control_time_us, step_control, model>>
  BY DEF NoModelStep, outside, sensed
<1>2. CASE mocap.valid
  <2>1. ~step_control /\ estimator_control_steps' = estimator_control_steps
    BY <1>2 DEF NoModelStep, StepDue, StepsWithoutPose
  <2> QED
    BY <1>1, <2>1 DEF SamplesPaced, Deciding
<1>3. CASE ~mocap.valid
  <2>1. estimator_control_steps' = 0
    BY <1>3 DEF NoModelStep, StepsWithoutPose
  <2> QED
    BY <1>1, <2>1 DEF SamplesPaced, Deciding
<1> QED
  BY <1>2, <1>3

LEMMA PacedStep ==
  ASSUME TypeOK, InputsSeen, SamplesPaced, [Next]_vars
  PROVE  SamplesPaced'
<1> DEFINE pacing == <<FastDyn, mocap, next_control_time_us, step_control, model,
                       estimator_control_steps>>
<1>1. CASE UNCHANGED pacing /\ pc' = pc
  BY <1>1 DEF SamplesPaced, Deciding
<1>2. CASE /\ UNCHANGED pacing
           /\ pc \in {"manual", "copyManual", "select"}
           /\ pc' \in {"copyManual", "select", "step"}
  BY <1>2 DEF SamplesPaced, Deciding
<1>3. CASE SeePose \/ SeeNoPose \/ CopyPose \/ CopyFails
  BY <1>3 DEF SamplesPaced, SeePose, SeeNoPose, CopyPose, CopyFails, InputsSeen,
              Controlled, outside
<1>4. CASE StepModel \/ NoModelStep
  BY <1>4, StepModelKeepsPaced, NoStepKeepsPaced
<1>5. CASE \E t \in Time, valid \in BOOLEAN : ReceiveOdometry(t, valid)
  BY <1>5, ReceiveKeepsPaced
<1>6. CASE \/ \E valid \in BOOLEAN : PublishPose(valid)
           \/ \E command \in Command : PublishManual(command)
           \/ Tick
           \/ UNCHANGED vars
  BY <1>1, <1>6 DEF PublishPose, PublishManual, Tick, vars, outside, sensed
<1>7. CASE SeeManual
  BY <1>2, <1>7 DEF SeeManual, Controlled, outside, sensed
<1>8. CASE SeeNoManual
  BY <1>2, <1>8 DEF SeeNoManual, Controlled, outside, sensed
<1>9. CASE ReadManual
  BY <1>2, <1>9 DEF ReadManual, Controlled, outside
<1>10. CASE SelectMode
  BY <1>2, <1>10 DEF SelectMode, outside, sensed
<1>11. CASE Output
  BY <1>11 DEF SamplesPaced, Deciding, Output, outside, sensed
<1>12. CASE Publish
  BY <1>12 DEF SamplesPaced, Deciding, Publish, outside, sensed
<1> QED
  BY <1>3, <1>4, <1>5, <1>6, <1>7, <1>8, <1>9, <1>10, <1>11, <1>12
     DEF Next, Controller

-----------------------------------------------------------------------------
(* What is published *)

LEMMA IdleStep ==
  ASSUME IdleWithoutPose, [Next]_vars
  PROVE  IdleWithoutPose'
<1> USE DEF IdleWithoutPose
<1>1. CASE \/ \E valid \in BOOLEAN : PublishPose(valid)
           \/ \E command \in Command : PublishManual(command)
           \/ Tick
           \/ UNCHANGED vars
  BY <1>1 DEF PublishPose, PublishManual, Tick, vars, outside, sensed
<1>2. CASE Output
  BY <1>2 DEF Output, sensed
<1>3. CASE Controller /\ ~Output
  BY <1>3 DEF Controller, SeePose, SeeNoPose, CopyPose, CopyFails,
              ReceiveOdometry, SeeManual, SeeNoManual, ReadManual, SelectMode,
              StepModel, NoModelStep, Publish
<1> QED
  BY <1>1, <1>2, <1>3 DEF Next

(* Only Publish changes the topics. *)
LEMMA TopicsFrame ==
  ASSUME [Next]_vars, ~Publish
  PROVE  UNCHANGED <<published, FastDyn>>
<1>1. CASE \/ \E valid \in BOOLEAN : PublishPose(valid)
           \/ \E command \in Command : PublishManual(command)
           \/ Tick
           \/ UNCHANGED vars
  BY <1>1 DEF PublishPose, PublishManual, Tick, vars, outside
<1>2. CASE Controller
  BY <1>2 DEF Controller, SeePose, SeeNoPose, CopyPose, CopyFails,
              ReceiveOdometry, SeeManual, SeeNoManual, ReadManual, SelectMode,
              StepModel, NoModelStep, Output, Controlled, outside
<1> QED
  BY <1>1, <1>2 DEF Next

LEMMA PublishKeepsTelemetry ==
  ASSUME RealtimeInv, Publish
  PROVE  TelemetryTrue'
<1>1. TypeOK /\ TypeOK'
  BY OutputType DEF RealtimeInv, TelemetryTrue
<1>2. /\ pc = "publish" /\ FastDyn' = FastDyn
      /\ published'.pwm = control_rc
      /\ published'.pose = mocap.pose /\ published'.attitude = model.pose
  BY DEF Publish, outside
<1>3. published'.attitude_valid => mocap.valid /\ estimator_control_steps >= 1
  BY Zenon DEF Publish, MeasurementFresh
<1>4. published'.pwm = "idle" => published'.failsafe
  <2>1. control_rc = "idle" => auto_mode /\ ~mocap.valid
    BY <1>2 DEF RealtimeInv, IdleWithoutPose
  <2>2. auto_mode /\ ~mocap.valid => published'.failsafe
    BY Zenon DEF Publish
  <2> QED
    BY <1>2, <2>1, <2>2
<1>5. published'.attitude_valid /\ ~FastDyn => mocap.pose = model.pose
  BY <1>2, <1>3 DEF RealtimeInv, StepsCounted, Deciding
<1>6. published'.attitude_valid /\ FastDyn =>
        PeriodOf(mocap.pose) <= PeriodOf(model.pose)
  BY <1>2, <1>3 DEF RealtimeInv, SamplesPaced, Deciding
<1> QED
  BY <1>1, <1>2, <1>4, <1>5, <1>6 DEF TelemetryTrue

LEMMA RealtimeInit == Init => RealtimeInv
<1> SUFFICES ASSUME Init PROVE RealtimeInv
  OBVIOUS
<1>1. published.pwm = "zero" /\ ~published.attitude_valid /\ pc = "sense"
  BY DEF Init
<1> QED
  BY <1>1, TypeInit, InputsInit, AgesInit, CountedInit, PacedInit
     DEF RealtimeInv, TelemetryTrue, IdleWithoutPose

LEMMA RealtimeStep == RealtimeInv /\ [Next]_vars => RealtimeInv'
<1> SUFFICES ASSUME RealtimeInv, [Next]_vars PROVE RealtimeInv'
  OBVIOUS
<1>1. TypeOK /\ InputsSeen /\ AgesKnown /\ StepsCounted /\ SamplesPaced
      /\ IdleWithoutPose /\ TelemetryTrue
  BY DEF RealtimeInv, TelemetryTrue
<1>2. TypeOK' /\ InputsSeen' /\ AgesKnown' /\ StepsCounted' /\ SamplesPaced'
      /\ IdleWithoutPose'
  BY <1>1, TypeStep, InputsStep, AgesStep, CountedStep, PacedStep, IdleStep
<1>3. TelemetryTrue'
  <2>1. CASE Publish
    BY <2>1, PublishKeepsTelemetry
  <2>2. CASE ~Publish
    BY <1>1, <1>2, <2>2, TopicsFrame DEF TelemetryTrue
  <2> QED
    BY <2>1, <2>2
<1> QED
  BY <1>2, <1>3 DEF RealtimeInv

-----------------------------------------------------------------------------
(* The theorems *)

(* RealtimeInv holds in every state (main_realtime.c:126-223, 592-661).    *)
THEOREM RealtimeCorrect == Spec => []RealtimeInv
  BY RealtimeInit, RealtimeStep, PTL DEF Spec

(* Every variable holds what its C declaration allows (main_realtime.c).   *)
THEOREM TypeCorrect == Spec => []TypeOK
<1>1. RealtimeInv => TypeOK
  BY DEF RealtimeInv, TelemetryTrue
<1> QED
  BY <1>1, RealtimeCorrect, PTL

(* What the topics say of the outputs is true of them (lines 628-655).     *)
THEOREM TopicsAreTrue == Spec => []TelemetryTrue
<1>1. RealtimeInv => TelemetryTrue
  BY DEF RealtimeInv
<1> QED
  BY <1>1, RealtimeCorrect, PTL

(* An attitude published as valid is of a pose published no longer ago     *)
(* than the freshness plus two looks at the topic, whatever races the      *)
(* copies of the poses are in (lines 126-157, 171-176).                    *)
THEOREM ValidAttitudesAreRecent == Spec => ValidAttitudeRecent
<1>1. ASSUME RealtimeInv, Publish, published'.attitude_valid, ~FastDyn
      PROVE  mocap_age <= MaxAge
  <2>1. MeasurementFresh
    BY <1>1, Zenon DEF Publish
  <2>2. mocap_generation # 0 /\ since_update <= Freshness
    BY <1>1, <2>1 DEF MeasurementFresh
  <2>3. mocap_age <= since_update + 2 * MaxLag
    BY <1>1, <2>2 DEF RealtimeInv, AgesKnown
  <2>4. since_update \in Nat /\ mocap_age \in Nat
    BY <1>1, RealtimeAssumption DEF RealtimeInv, TelemetryTrue, TypeOK, MaxAge
  <2> QED
    BY <2>2, <2>3, <2>4, RealtimeAssumption DEF MaxAge
<1>2. RealtimeInv /\ [Next]_vars =>
        [Publish /\ published'.attitude_valid /\ ~FastDyn
           => mocap_age <= MaxAge]_vars
  BY <1>1
<1> QED
  BY <1>2, RealtimeCorrect, PTL DEF Spec, ValidAttitudeRecent

(* After as many repetitions of a pose as the failsafe waits for, the      *)
(* failsafe is announced in an airborne automatic flight (lines 622-626).  *)
THEOREM GapsAreAnnounced == Spec => GapAnnounced
<1>1. ASSUME RealtimeInv, Publish, auto_mode, model.airborne,
             repeated > StaleSamples, ~FastDyn
      PROVE  published'.failsafe
  <2>1. published'.failsafe = (auto_mode /\ (~mocap.valid \/ ModelStale))
    BY <1>1 DEF Publish
  <2>2. mocap.valid => model.held >= repeated
    BY <1>1 DEF RealtimeInv, StepsCounted, Deciding, Publish
  <2>3. model.held \in Nat /\ repeated \in Nat
    BY <1>1, RealtimeAssumption DEF RealtimeInv, TelemetryTrue, TypeOK
  <2>4. mocap.valid => ModelStale
    BY <1>1, <2>2, <2>3, RealtimeAssumption DEF ModelStale
  <2> QED
    BY <1>1, <2>1, <2>4, Zenon
<1>2. RealtimeInv /\ [Next]_vars =>
        [Publish /\ auto_mode /\ model.airborne /\ repeated > StaleSamples
           /\ ~FastDyn => published'.failsafe]_vars
  BY <1>1
<1> QED
  BY <1>2, RealtimeCorrect, PTL DEF Spec, GapAnnounced

(* Deployed, what is published comes of a step in the mode of the          *)
(* iteration and on the pose held (lines 628-645).                         *)
THEOREM StepsAreInMode == Spec => StepInMode
<1>1. RealtimeInv /\ Publish /\ mocap.valid /\ ~FastDyn
        => model.engaged = auto_mode /\ model.pose = mocap.pose
  BY DEF RealtimeInv, StepsCounted, Deciding, Publish
<1>2. RealtimeInv /\ [Next]_vars =>
        [Publish /\ mocap.valid /\ ~FastDyn
           => model.engaged = auto_mode /\ model.pose = mocap.pose]_vars
  BY <1>1
<1> QED
  BY <1>2, RealtimeCorrect, PTL DEF Spec, StepInMode

(* FastDyn: the model steps once per control period at most and never goes *)
(* back (lines 626-627).                                                   *)
THEOREM StepsOncePerPeriod == Spec => OneStepPerPeriod
<1>1. RealtimeInv /\ StepModel /\ FastDyn /\ model.pose # None
        => PeriodOf(model.pose) < PeriodOf(mocap.pose)
  BY DEF RealtimeInv, SamplesPaced, Deciding, StepModel, StepDue
<1>2. RealtimeInv /\ [Next]_vars =>
        [StepModel /\ FastDyn /\ model.pose # None
           => PeriodOf(model.pose) < PeriodOf(mocap.pose)]_vars
  BY <1>1
<1> QED
  BY <1>2, RealtimeCorrect, PTL DEF Spec, OneStepPerPeriod

(* A look that finds nothing new misses nothing, however publications and  *)
(* copies interleave and fail (lines 126-157, 212-223).                    *)
THEOREM NothingIsMissed == Spec => NoNewsMissed
<1>1. ASSUME RealtimeInv, SeeNoPose, pose_raw.generation # 0
      PROVE  mocap.pose = pose_raw.generation /\ mocap.valid = pose_raw.valid
  <2>1. ~FastDyn /\ pose_raw.generation = mocap_generation
    BY <1>1 DEF SeeNoPose, News
  <2>2. mocap.pose <= pose_raw.generation /\ mocap_generation <= mocap.pose
    BY <1>1, <2>1 DEF RealtimeInv, InputsSeen
  <2>3. mocap.pose \in Int /\ pose_raw.generation \in Int
    BY <1>1, HeldFacts, RealtimeAssumption
       DEF RealtimeInv, TelemetryTrue, TypeOK, Pose, None
  <2>4. mocap.pose = pose_raw.generation
    BY <2>1, <2>2, <2>3
  <2> QED
    BY <1>1, <2>1, <2>4 DEF RealtimeInv, InputsSeen
<1>2. ASSUME RealtimeInv, SeeNoManual
      PROVE  manual = manual_topic.command
  <2>1. manual_topic.generation \in {0, manual_generation}
    BY <1>2 DEF SeeNoManual, News
  <2>2. manual_generation \in Nat /\ manual_topic.generation \in Nat
    BY <1>2, RealtimeAssumption DEF RealtimeInv, TelemetryTrue, TypeOK
  <2>3. manual_generation = manual_topic.generation
    BY <1>2, <2>1, <2>2 DEF RealtimeInv, InputsSeen
  <2> QED
    BY <1>2, <2>3 DEF RealtimeInv, InputsSeen
<1>3. RealtimeInv /\ [Next]_vars =>
        [/\ SeeNoPose /\ pose_raw.generation # 0 =>
              /\ mocap.pose = pose_raw.generation
              /\ mocap.valid = pose_raw.valid
         /\ SeeNoManual => manual = manual_topic.command]_vars
  BY <1>1, <1>2
<1> QED
  BY <1>3, RealtimeCorrect, PTL DEF Spec, NoNewsMissed
=============================================================================
