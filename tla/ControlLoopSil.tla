--------------------------- MODULE ControlLoopSil ---------------------------
(***************************************************************************)
(* The lockstep control loop of src/main_sil.c: one iteration per odometry *)
(* sample, one model step per control period at most.  An iteration is     *)
(* three actions: take the inputs and decide, control, publish.  What      *)
(* runtime control does in it is the subject of RuntimeControl.            *)
(***************************************************************************)
EXTENDS Integers

CONSTANTS
  Period,    \* CUBS2_CONTROL_PERIOD_US, in units of the time stamps.
  MaxTime,   \* Bound: the largest time stamp of a sample.
  MaxSteps   \* Where estimator_control_steps saturates (UINT32_MAX in C).

ASSUME PeriodAssumption == Period \in Nat \ {0}
ASSUME MaxTimeAssumption == MaxTime \in Nat
ASSUME MaxStepsAssumption == MaxSteps \in Nat /\ MaxSteps >= 2

VARIABLES
  pc,                       \* Where the iteration is.
  odometry,                 \* Time stamp and validity of the sample.
  manual,                   \* The manual channels held.
  auto_mode,                \* The mode; between iterations, previous_auto_mode.
  step_control,             \* Is a step due in this iteration?
  next_control_time_us,
  estimator_control_steps,
  model,                    \* Time stamp of the sample the model stepped on
                            \* last, None if not since EFMI_INIT.
  control_rc,               \* Where the channels to publish come from.
  published,                \* What the topics say.
  stepped,                  \* History: the periods that got their step.
  latest                    \* History: the latest period of earlier samples.

vars == <<pc, odometry, manual, auto_mode, step_control, next_control_time_us,
          estimator_control_steps, model, control_rc, published, stepped,
          latest>>

None == -1
Time == 0 .. MaxTime

Odometry == [timestamp : Time, valid : BOOLEAN]
Manual == [valid : BOOLEAN, in_range : BOOLEAN, switch_high : BOOLEAN]

(* Channels, and the time stamp of the iteration that computed them. *)
Channels == [from : {"zero", "manual", "model", "idle"}, at : Time \union {None}]
Telemetry == [pwm : Channels, flight_mode : BOOLEAN, failsafe : BOOLEAN,
              attitude_valid : BOOLEAN, rates_valid : BOOLEAN,
              timestamp : Time \union {None}, attitude : Time \union {None}]

PeriodOf(t) == t \div Period

ManualControlValid(m) == m.valid /\ m.in_range
AutoModeSelected(m) == ~ManualControlValid(m) \/ m.switch_high

Init ==
  /\ pc = "receive"
  /\ odometry = [timestamp |-> 0, valid |-> FALSE]
  /\ manual = [valid |-> FALSE, in_range |-> FALSE, switch_high |-> FALSE]
  /\ auto_mode = FALSE
  /\ step_control = FALSE
  /\ next_control_time_us = 0
  /\ estimator_control_steps = 0
  /\ model = None
  /\ control_rc = [from |-> "zero", at |-> None]
  /\ published = [pwm |-> control_rc, flight_mode |-> FALSE, failsafe |-> FALSE,
                  attitude_valid |-> FALSE, rates_valid |-> FALSE,
                  timestamp |-> None, attitude |-> None]
  /\ stepped = {}
  /\ latest = None

-----------------------------------------------------------------------------
(* The sample arrives, the manual channels are read if they are updated,   *)
(* the mode is selected; the edge to automatic mode starts the model anew. *)

NextControlTimeNow(t) == (t \div Period) * Period          \* mutant
NextControlTimeLater(t) == t + Period                      \* mutant
NextControlTime(t) == (t \div Period + 1) * Period

ControlStepDue(t) ==
  /\ step_control' = (t >= next_control_time_us)
  /\ next_control_time_us' = IF t >= next_control_time_us
                               THEN NextControlTime(t)
                               ELSE next_control_time_us

StepsKept(mode) == estimator_control_steps                 \* mutant
StepsAfter(mode) ==
  IF mode /\ ~auto_mode THEN 0 ELSE estimator_control_steps

Receive(o, m) ==
  /\ pc = "receive"
  /\ odometry' = o
  /\ manual' = m
  /\ auto_mode' = AutoModeSelected(m)
  /\ estimator_control_steps' = StepsAfter(auto_mode')
  /\ model' = IF auto_mode' /\ ~auto_mode THEN None ELSE model
  /\ ControlStepDue(o.timestamp)
  /\ pc' = "control"
  /\ UNCHANGED <<control_rc, published, stepped, latest>>

-----------------------------------------------------------------------------
(* control_rc, one action per branch of lines 379-396 *)

Count(n) == IF n < MaxSteps THEN n + 1 ELSE n

Output(source) == [from |-> source, at |-> odometry.timestamp]

Control == pc = "control" /\ pc' = "publish"
Sensed == <<odometry, manual, auto_mode, step_control, next_control_time_us,
            published, latest>>

StepModel ==
  /\ Control
  /\ auto_mode /\ step_control /\ odometry.valid
  /\ model' = odometry.timestamp
  /\ estimator_control_steps' = Count(estimator_control_steps)
  /\ control_rc' = Output("model")
  /\ stepped' = stepped \union {PeriodOf(odometry.timestamp)}
  /\ UNCHANGED Sensed

HoldOutput ==
  /\ Control
  /\ auto_mode /\ ~step_control /\ odometry.valid
  /\ UNCHANGED <<Sensed, model, estimator_control_steps, control_rc, stepped>>

IdleOutput ==
  /\ Control
  /\ auto_mode /\ ~odometry.valid
  /\ estimator_control_steps' = 0
  /\ control_rc' = Output("idle")
  /\ UNCHANGED <<Sensed, model, stepped>>

PassManual ==
  /\ Control
  /\ ~auto_mode
  /\ control_rc' = Output("manual")
  /\ UNCHANGED <<Sensed, model, estimator_control_steps, stepped>>

-----------------------------------------------------------------------------
(* publish_outputs and the answer to the lockstep peer *)

Publish ==
  /\ pc = "publish"
  /\ published' =
       [pwm |-> control_rc,
        flight_mode |-> auto_mode,
        failsafe |-> auto_mode /\ ~odometry.valid,
        attitude_valid |-> odometry.valid /\ estimator_control_steps >= 1,
        rates_valid |-> odometry.valid /\ estimator_control_steps >= 2,
        timestamp |-> odometry.timestamp,
        attitude |-> model]
  /\ latest' = IF PeriodOf(odometry.timestamp) > latest
                 THEN PeriodOf(odometry.timestamp) ELSE latest
  /\ pc' = "receive"
  /\ UNCHANGED <<odometry, manual, auto_mode, step_control,
                 next_control_time_us, estimator_control_steps, model,
                 control_rc, stepped>>

Next ==
  \/ \E o \in Odometry, m \in Manual : Receive(o, m)
  \/ StepModel
  \/ HoldOutput
  \/ IdleOutput
  \/ PassManual
  \/ Publish

Spec == Init /\ [][Next]_vars

-----------------------------------------------------------------------------
(* Properties *)

TypeOK ==
  /\ pc \in {"receive", "control", "publish"}
  /\ odometry \in Odometry
  /\ manual \in Manual
  /\ auto_mode \in BOOLEAN
  /\ step_control \in BOOLEAN
  /\ next_control_time_us \in Nat
  /\ estimator_control_steps \in 0 .. MaxSteps
  /\ model \in Time \union {None}
  /\ control_rc \in Channels
  /\ published \in Telemetry
  /\ stepped \subseteq Nat
  /\ latest \in Nat \union {None}

(* The model has a fixed step (EFMI_STEP integrates one period): whatever  *)
(* the time stamps, the mode switches and the losses of odometry, it steps *)
(* once per period at most and never goes back (lines 217-231, 380-388).   *)
OneStepPerPeriod ==
  [][StepModel => \A p \in stepped : p < PeriodOf(odometry.timestamp)]_vars

(* ... and no step is withheld: the output is held only if an earlier      *)
(* sample was of the same period or a later one (lines 219-225).           *)
StepNotWithheld ==
  [][HoldOutput => PeriodOf(odometry.timestamp) <= latest]_vars

(* State keeps its form, the step counter its bound (384-386), and what    *)
(* the topics say of the outputs is true of them (lines 243-248, 259,      *)
(* 379-396): manual mode passes this iteration's channels; a failsafe is   *)
(* idle; in automatic mode an attitude flagged valid tells that the        *)
(* outputs are the model's, of the step that attitude is of, and that the  *)
(* step is of the sample's period, or of a later one if time went back.    *)
TelemetryTrue ==
  /\ TypeOK
  /\ published.failsafe => published.pwm.from = "idle"
  /\ ~published.flight_mode /\ published.timestamp # None =>
       published.pwm = [from |-> "manual", at |-> published.timestamp]
  /\ published.flight_mode /\ published.attitude_valid =>
       /\ published.pwm = [from |-> "model", at |-> published.attitude]
       /\ PeriodOf(published.timestamp) <= PeriodOf(published.attitude)

(* "publish manual channels when the mode switch is low and autonomous     *)
(* channels when the mode switch is high" (Kconfig:60-62)                  *)
AutonomousWhenHigh == published.flight_mode => published.pwm.from # "manual"

-----------------------------------------------------------------------------
(* Why the properties hold: an inductive invariant. *)

Taken == pc # "receive"                        \* A sample is worked on,
Deciding == pc = "control" /\ step_control     \* its step due and not taken.

(* The next step is due in a later period than any step was made in, and   *)
(* no later than in the period after the latest sample.                    *)
StepTimes ==
  /\ \A p \in stepped, t \in Time :
       t >= next_control_time_us => p < PeriodOf(t)
  /\ Deciding => \A p \in stepped : p < PeriodOf(odometry.timestamp)
  /\ Taken /\ step_control =>
       \A t \in Time : t >= next_control_time_us
                        <=> PeriodOf(odometry.timestamp) < PeriodOf(t)
  /\ Taken /\ ~step_control => odometry.timestamp < next_control_time_us
  /\ ~Taken \/ ~step_control =>
       \A t \in Time : t < next_control_time_us => PeriodOf(t) <= latest

(* Once the model has stepped since automatic mode was entered and         *)
(* odometry was there, the outputs held are those of its last step, which  *)
(* no sample that is not due is ahead of.                                  *)
OutputsHeld ==
  auto_mode /\ estimator_control_steps >= 1 =>
    /\ model # None
    /\ control_rc = [from |-> "model", at |-> model]
    /\ ~Deciding =>
         \A t \in Time :
           t < next_control_time_us => PeriodOf(t) <= PeriodOf(model)

OutputsChosen ==
  pc = "publish" =>
    /\ ~auto_mode => control_rc = Output("manual")
    /\ auto_mode /\ ~odometry.valid => control_rc = Output("idle")

SilInv == TelemetryTrue /\ StepTimes /\ OutputsHeld /\ OutputsChosen
=============================================================================
