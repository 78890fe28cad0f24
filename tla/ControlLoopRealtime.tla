------------------------ MODULE ControlLoopRealtime ------------------------
(***************************************************************************)
(* The control loop of src/main_realtime.c in its two builds: deployed,    *)
(* where each iteration samples the csyn topic pose_raw and the topic's    *)
(* publisher runs beside it, and FastDyn, where each iteration receives    *)
(* one sample of the plant.  The pacing of the first is CyclePacing, the   *)
(* mission telemetry MissionTelemetry, runtime control RuntimeControl.     *)
(***************************************************************************)
EXTENDS Integers

CONSTANTS
  Period,       \* CUBS2_CONTROL_PERIOD_US, in units of the time stamps.
  MaxPoses,     \* Bound: poses published.
  MaxTime,      \* Bound: FastDyn's largest time stamp of a sample.
  MaxManuals,   \* Bound: manual commands published.
  Freshness,    \* CUBS2_MOCAP_FRESHNESS_MS, in ticks.
  StaleSamples, \* attitudeParams_staleFailsafeTime, in held samples.
  MaxLag        \* Bound: ticks between two successful looks at pose_raw.

ASSUME RealtimeAssumption ==
  /\ Period \in Nat \ {0}
  /\ MaxPoses \in Nat /\ MaxTime \in Nat /\ MaxManuals \in Nat
  /\ Freshness \in Nat /\ StaleSamples \in Nat /\ MaxLag \in Nat

VARIABLES
  FastDyn,                  \* CONFIG_CUBS2_FASTDYN: which build it is.
  pc,                       \* Where the iteration is.
  pose_raw,                 \* The topic: generation, validity of its pose.
  manual_topic,             \* The topic: generation, what it commands.
  generation,               \* The local `generation` of the read functions.
  mocap,                    \* The pose held: which one, and is it valid.
  mocap_generation,
  since_update,             \* Ticks since mocap_last_update_ms, saturating.
  manual, manual_generation,
  auto_mode, step_control, next_control_time_us,
  estimator_control_steps,  \* Saturating at 2: no one tells 2 from more.
  model,                    \* What the model's last step was made of.
  control_rc,               \* Where the channels to publish come from.
  published,                \* What the topics say.
  pose_age, mocap_age,      \* History: ticks since the publication of the
                            \* pose in the topic and of the one held.
  lag,                      \* History: ticks since the last look at the topic.
  repeated                  \* History: iterations with the pose held now.

outside == <<FastDyn, pose_raw, manual_topic, pose_age>>
sensed == <<mocap, mocap_generation, since_update, manual, manual_generation,
            step_control, next_control_time_us, mocap_age, repeated>>
vars == <<pc, outside, generation, sensed, auto_mode, estimator_control_steps,
          model, control_rc, published, lag>>

None == -1
Pose == 0 .. MaxPoses
Time == 0 .. MaxTime
Held == Pose \union Time \union {None}   \* numbers or time stamps
Command == {"lost", "low", "high"}
Source == {"zero", "manual", "model", "idle"}
MaxAge == Freshness + 2 * MaxLag
PeriodOf(t) == t \div Period
Saturate(n, limit) == IF n < limit THEN n + 1 ELSE n

Init ==
  /\ FastDyn \in BOOLEAN
  /\ pc = "sense"
  /\ pose_raw = [generation |-> 0, valid |-> FALSE]
  /\ manual_topic = [generation |-> 0, command |-> "lost"]
  /\ generation = 0
  /\ mocap = [pose |-> None, valid |-> FALSE]
  /\ mocap_generation = 0
  /\ since_update = Freshness + 1
  /\ manual = "lost"
  /\ manual_generation = 0
  /\ auto_mode = FALSE
  /\ step_control = TRUE
  /\ next_control_time_us = 0
  /\ estimator_control_steps = 0
  /\ model = [pose |-> None, engaged |-> FALSE, held |-> 0, airborne |-> FALSE]
  /\ control_rc = "zero"
  /\ published = [pwm |-> "zero", flight_mode |-> FALSE, failsafe |-> FALSE,
                  attitude_valid |-> FALSE, rates_valid |-> FALSE,
                  pose |-> None, attitude |-> None]
  /\ pose_age = 0
  /\ mocap_age = 0
  /\ lag = 0
  /\ repeated = 0

-----------------------------------------------------------------------------
(* The environment *)

(* csyn enforces the pose's layout, not that its values are usable. *)
PublishPose(valid) ==
  /\ ~FastDyn
  /\ pose_raw.generation < MaxPoses
  /\ pose_raw' = [generation |-> pose_raw.generation + 1, valid |-> valid]
  /\ pose_age' = 0
  /\ UNCHANGED <<FastDyn, pc, manual_topic, generation, sensed, auto_mode,
                 estimator_control_steps, model, control_rc, published, lag>>

PublishManual(command) ==
  /\ manual_topic.generation < MaxManuals
  /\ manual_topic' = [generation |-> manual_topic.generation + 1,
                      command |-> command]
  /\ UNCHANGED <<FastDyn, pc, pose_raw, pose_age, generation, sensed, auto_mode,
                 estimator_control_steps, model, control_rc, published, lag>>

Tick ==
  /\ ~FastDyn
  /\ lag < MaxLag
  /\ lag' = lag + 1
  /\ since_update' = Saturate(since_update, Freshness + 1)
  /\ pose_age' = Saturate(pose_age, MaxAge + 1)
  /\ mocap_age' = Saturate(mocap_age, MaxAge + 1)
  /\ UNCHANGED <<FastDyn, pc, pose_raw, manual_topic, generation, mocap,
                 mocap_generation, manual, manual_generation, step_control,
                 next_control_time_us, repeated, auto_mode,
                 estimator_control_steps, model, control_rc, published>>

-----------------------------------------------------------------------------
(* Inputs: the generation is read before the message is copied *)

Controlled == <<outside, auto_mode, estimator_control_steps, model, control_rc,
                published>>

(* The generation of a topic is 0 until something is published. *)
News(current, known) == current \notin {0, known}

SeePose ==
  /\ pc = "sense" /\ ~FastDyn
  /\ News(pose_raw.generation, mocap_generation)
  /\ generation' = pose_raw.generation
  /\ pc' = "copy"
  /\ UNCHANGED <<Controlled, sensed, lag>>

SeeNoPose ==
  /\ pc = "sense" /\ ~FastDyn
  /\ ~News(pose_raw.generation, mocap_generation)
  /\ lag' = 0
  /\ repeated' = Saturate(repeated, StaleSamples + 1)
  /\ pc' = "manual"
  /\ UNCHANGED <<Controlled, generation, mocap, mocap_generation, since_update,
                 manual, manual_generation, step_control,
                 next_control_time_us, mocap_age>>

CopyPose ==
  /\ pc = "copy"
  /\ mocap_generation' = generation
  /\ since_update' = 0
  /\ mocap' = [pose |-> pose_raw.generation, valid |-> pose_raw.valid]
  /\ mocap_age' = pose_age
  /\ repeated' = IF mocap'.pose = mocap.pose
                   THEN Saturate(repeated, StaleSamples + 1) ELSE 0
  /\ lag' = 0
  /\ generation' = 0
  /\ pc' = "manual"
  /\ UNCHANGED <<Controlled, manual, manual_generation, step_control,
                 next_control_time_us>>

CopyFailureForgotten == mocap_generation' = generation     \* mutant
CopyFailure == UNCHANGED mocap_generation
CopyStamped == since_update' = 0                           \* mutant
CopyUnstamped == UNCHANGED since_update

CopyFails ==
  /\ pc = "copy"
  /\ CopyFailure
  /\ CopyUnstamped
  /\ repeated' = Saturate(repeated, StaleSamples + 1)
  /\ generation' = 0
  /\ pc' = "manual"
  /\ UNCHANGED <<Controlled, mocap, manual, manual_generation, step_control,
                 next_control_time_us, mocap_age, lag>>

NextControlTimeNow(t) == (t \div Period) * Period          \* mutant
NextControlTime(t) == (t \div Period + 1) * Period

ReceiveOdometry(t, valid) ==
  /\ pc = "sense" /\ FastDyn
  /\ mocap' = [pose |-> t, valid |-> valid]
  /\ step_control' = (t >= next_control_time_us)
  /\ next_control_time_us' = IF t >= next_control_time_us
                               THEN NextControlTime(t)
                               ELSE next_control_time_us
  /\ pc' = "manual"
  /\ UNCHANGED <<Controlled, generation, mocap_generation, since_update,
                 manual, manual_generation, mocap_age, lag, repeated>>

SeeManual ==
  /\ pc = "manual"
  /\ News(manual_topic.generation, manual_generation)
  /\ generation' = manual_topic.generation
  /\ pc' = "copyManual"
  /\ UNCHANGED <<Controlled, sensed, lag>>

SeeNoManual ==
  /\ pc = "manual"
  /\ ~News(manual_topic.generation, manual_generation)
  /\ pc' = "select"
  /\ UNCHANGED <<Controlled, sensed, generation, lag>>

ReadManual ==
  /\ pc = "copyManual"
  /\ \/ /\ manual' = manual_topic.command
        /\ manual_generation' = generation
     \/ /\ UNCHANGED <<manual, manual_generation>>
  /\ generation' = 0
  /\ pc' = "select"
  /\ UNCHANGED <<Controlled, mocap, mocap_generation, since_update,
                 step_control, next_control_time_us, mocap_age, lag, repeated>>

-----------------------------------------------------------------------------
(* Mode, model step, outputs *)

AutoModeSelected == manual # "low"

SelectMode ==
  /\ pc = "select"
  /\ auto_mode' = AutoModeSelected
  /\ pc' = "step"
  /\ UNCHANGED <<outside, generation, sensed, estimator_control_steps, model,
                 control_rc, published, lag>>

StepDueInAuto == step_control /\ mocap.valid /\ auto_mode    \* mutant
StepDueOnNews == step_control /\ mocap.valid /\ repeated = 0   \* mutant
StepDue == step_control /\ mocap.valid

StepModel ==
  /\ pc = "step"
  /\ StepDue
  /\ \E airborne \in BOOLEAN :
       model' = [pose |-> mocap.pose,
                 engaged |-> auto_mode,
                 held |-> IF mocap.pose = model.pose
                            THEN Saturate(model.held, StaleSamples + 1) ELSE 0,
                 airborne |-> airborne]
  /\ estimator_control_steps' = Saturate(estimator_control_steps, 2)
  /\ pc' = "output"
  /\ UNCHANGED <<outside, generation, sensed, auto_mode, control_rc, published,
                 lag>>

StepsWithoutPoseKept == estimator_control_steps            \* mutant
StepsWithoutPose == IF mocap.valid THEN estimator_control_steps ELSE 0

NoModelStep ==
  /\ pc = "step"
  /\ ~StepDue
  /\ estimator_control_steps' = StepsWithoutPose
  /\ pc' = "output"
  /\ UNCHANGED <<outside, generation, sensed, auto_mode, model, control_rc,
                 published, lag>>

Output ==
  /\ pc = "output"
  /\ \/ auto_mode /\ mocap.valid /\ control_rc' = "model"
     \/ auto_mode /\ ~mocap.valid /\ control_rc' = "idle"
     \/ ~auto_mode /\ control_rc' = "manual"
  /\ pc' = "publish"
  /\ UNCHANGED <<outside, generation, sensed, auto_mode,
                 estimator_control_steps, model, published, lag>>

ModelStale == model.airborne /\ model.held > StaleSamples
MeasurementFresh ==
  /\ mocap.valid
  /\ FastDyn \/ (mocap_generation # 0 /\ since_update <= Freshness)

Publish ==
  /\ pc = "publish"
  /\ published' =
       [pwm |-> control_rc,
        flight_mode |-> auto_mode,
        failsafe |-> auto_mode /\ (~mocap.valid \/ ModelStale),
        attitude_valid |-> MeasurementFresh /\ estimator_control_steps >= 1,
        rates_valid |-> MeasurementFresh /\ estimator_control_steps >= 2,
        pose |-> mocap.pose,
        attitude |-> model.pose]
  /\ pc' = "sense"
  /\ UNCHANGED <<outside, generation, sensed, auto_mode,
                 estimator_control_steps, model, control_rc, lag>>

Controller ==
  \/ SeePose \/ SeeNoPose \/ CopyPose \/ CopyFails
  \/ \E t \in Time, valid \in BOOLEAN : ReceiveOdometry(t, valid)
  \/ SeeManual \/ SeeNoManual \/ ReadManual
  \/ SelectMode \/ StepModel \/ NoModelStep \/ Output \/ Publish

Next ==
  \/ \E valid \in BOOLEAN : PublishPose(valid)
  \/ \E command \in Command : PublishManual(command)
  \/ Tick
  \/ Controller

Spec == Init /\ [][Next]_vars

(* The controller's thread keeps running (deployed, its only wait is       *)
(* k_sleep, which ends; FastDyn, the plant goes on sending samples), and   *)
(* copies that are tried again and again do not fail for ever.             *)
FairSpec ==
  /\ Spec
  /\ WF_vars(Controller)
  /\ SF_vars(CopyPose)
  /\ SF_vars(ReadManual /\ manual_generation' = generation)

-----------------------------------------------------------------------------
(* Properties *)

TypeOK ==
  /\ FastDyn \in BOOLEAN
  /\ pc \in {"sense", "copy", "manual", "copyManual", "select", "step",
             "output", "publish"}
  /\ pose_raw \in [generation : Pose, valid : BOOLEAN]
  /\ manual_topic \in [generation : 0 .. MaxManuals, command : Command]
  /\ generation \in Nat
  /\ mocap \in [pose : Held, valid : BOOLEAN]
  /\ mocap_generation \in Pose
  /\ since_update \in 0 .. Freshness + 1
  /\ manual \in Command /\ manual_generation \in 0 .. MaxManuals
  /\ auto_mode \in BOOLEAN /\ step_control \in BOOLEAN
  /\ next_control_time_us \in Nat
  /\ estimator_control_steps \in 0 .. 2
  /\ model \in [pose : Held, engaged : BOOLEAN,
                held : 0 .. StaleSamples + 1, airborne : BOOLEAN]
  /\ control_rc \in Source
  /\ published \in [pwm : Source, flight_mode : BOOLEAN, failsafe : BOOLEAN,
                    attitude_valid : BOOLEAN, rates_valid : BOOLEAN,
                    pose : Held, attitude : Held]
  /\ pose_age \in 0 .. MaxAge + 1 /\ mocap_age \in 0 .. MaxAge + 1
  /\ lag \in 0 .. MaxLag
  /\ repeated \in 0 .. StaleSamples + 1

(* How old a pose may be when its attitude is published as valid, counted  *)
(* from the publication of the pose and not from its copy, though a pose   *)
(* may be copied twice under two generations and copies may fail (lines    *)
(* 126-157, 171-176).                                                      *)
ValidAttitudeRecent ==
  [][Publish /\ published'.attitude_valid /\ ~FastDyn
       => mocap_age <= MaxAge]_vars

(* "keep running with the last usable pose during a transport gap:         *)
(* repeated samples are how the estimator [...] counts the gap, and enters *)
(* its airborne stale-pose failsafe" (lines 622-626): the failsafe is      *)
(* announced once the pose has been repeated that often, whatever the      *)
(* copies and the mode did meanwhile.                                      *)
GapAnnounced ==
  [][Publish /\ auto_mode /\ model.airborne /\ repeated > StaleSamples
       /\ ~FastDyn => published'.failsafe]_vars

(* State keeps its form, and the topics are true of it (lines 628-655).     *)
(* Idle outputs are announced as a failsafe; an attitude flagged valid is  *)
(* of the pose held, in manual mode too ("The estimator stays warm while   *)
(* manual", line 622), or of a sample of the same control period.          *)
TelemetryTrue ==
  /\ TypeOK
  /\ published.pwm = "idle" => published.failsafe
  /\ published.attitude_valid =>
       IF FastDyn
         THEN PeriodOf(published.pose) <= PeriodOf(published.attitude)
         ELSE published.pose = published.attitude

(* Deployed, what is published comes of a step on the pose held, made      *)
(* engaged in automatic mode and disengaged in manual mode, from the first *)
(* iteration after a mode switch on and in a gap too (lines 628-645).      *)
StepInMode ==
  [][Publish /\ mocap.valid /\ ~FastDyn
       => model.engaged = auto_mode /\ model.pose = mocap.pose]_vars

(* "FastDyn receives plant samples at 100 Hz but preserves the model's     *)
(* 50 Hz fixed step" (lines 626-627)                                       *)
OneStepPerPeriod ==
  [][StepModel /\ FastDyn /\ model.pose # None
       => PeriodOf(model.pose) < PeriodOf(mocap.pose)]_vars

(* No pose and no command is lost for good: once the publishers stop, the  *)
(* controller holds the newest ones, because a generation is read before   *)
(* the message and kept only with it (lines 126-157, 212-223).             *)
NewestInputsHeld ==
  <>[](/\ pose_raw.generation # 0 => mocap.pose = pose_raw.generation
       /\ manual = manual_topic.command)

(* A look that finds nothing new misses nothing: whatever was published    *)
(* between an earlier look and its copy, and whichever copies failed, the  *)
(* pose and the command held are the topics' (lines 126-157, 212-223).     *)
NoNewsMissed ==
  [][/\ SeeNoPose /\ pose_raw.generation # 0 =>
          /\ mocap.pose = pose_raw.generation
          /\ mocap.valid = pose_raw.valid
     /\ SeeNoManual => manual = manual_topic.command]_vars

-----------------------------------------------------------------------------
(* Why the safety properties hold: an inductive invariant. *)

(* The inputs are taken, the model has not yet stepped on them. *)
Deciding == pc \in {"manual", "copyManual", "select", "step"}

(* A generation kept is never newer than the message kept.                 *)
InputsSeen ==
  /\ ~FastDyn =>
       /\ mocap.pose <= pose_raw.generation
       /\ mocap_generation # 0 => mocap_generation <= mocap.pose
       /\ mocap.pose = pose_raw.generation => mocap.valid = pose_raw.valid
  /\ pc = "copy" =>
       /\ ~FastDyn
       /\ generation \in mocap_generation + 1 .. pose_raw.generation
  /\ manual_generation <= manual_topic.generation
  /\ manual_generation = manual_topic.generation =>
       manual = manual_topic.command
  /\ pc = "copyManual" => generation \in 1 .. manual_topic.generation

(* A pose not yet held was published since the last look; one held under   *)
(* an older generation, to be copied again, since the look before it.      *)
AgesKnown ==
  /\ pose_raw.generation # 0 /\ ~FastDyn =>
       /\ mocap.pose # pose_raw.generation => pose_age <= lag
       /\ mocap_generation # pose_raw.generation => pose_age <= lag + MaxLag
       /\ pc = "copy" /\ generation # pose_raw.generation => pose_age <= lag
  /\ mocap_generation # 0 /\ since_update <= Freshness =>
       mocap_age <= since_update + 2 * MaxLag

(* Deployed, every iteration with a usable pose steps the model on it, so  *)
(* that the model counts each time the pose is repeated.                   *)
StepsCounted ==
  /\ ~FastDyn => step_control
  /\ ~FastDyn /\ mocap.valid =>
       IF Deciding
         THEN repeated = 0 \/ /\ model.pose = mocap.pose
                              /\ model.held + 1 >= repeated
         ELSE model.pose = mocap.pose /\ model.held >= repeated
  /\ ~FastDyn /\ mocap.valid /\ pc \in {"output", "publish"} =>
       model.engaged = auto_mode

(* FastDyn: as in ControlLoopSil, the next step is due in a later period   *)
(* than the last one was made in, and a sample whose step is not due is    *)
(* not ahead of that period.                                               *)
SamplesPaced ==
  FastDyn =>
    /\ model.pose # None => \A t \in Time :
         t >= next_control_time_us => PeriodOf(model.pose) < PeriodOf(t)
    /\ pc # "sense" => mocap.pose \in Time
    /\ Deciding /\ step_control =>
         /\ \A t \in Time : t >= next_control_time_us
                            <=> PeriodOf(mocap.pose) < PeriodOf(t)
         /\ model.pose # None => PeriodOf(model.pose) < PeriodOf(mocap.pose)
    /\ pc # "sense" => mocap.pose < next_control_time_us
    /\ estimator_control_steps >= 1 =>
         /\ model.pose # None
         /\ ~(Deciding /\ step_control) => \A t \in Time :
              t < next_control_time_us => PeriodOf(t) <= PeriodOf(model.pose)

IdleWithoutPose ==
  pc = "publish" /\ control_rc = "idle" => auto_mode /\ ~mocap.valid

RealtimeInv ==
  /\ TelemetryTrue
  /\ InputsSeen
  /\ AgesKnown
  /\ StepsCounted
  /\ SamplesPaced
  /\ IdleWithoutPose
=============================================================================
