# TLA+ development of CUBS2

This directory specifies, model-checks and proves parts of the CUBS2 fixed-wing
controller (`src/` of the repository): a Zephyr application that steps a
generated flight-control model from pose samples and lets a ground station tune
it and replace its flight plan in flight. Paths are relative to the
repository; line numbers refer to the commit it stands at.

## 1. The system

| Part | Source | State it keeps | Operations | Talks to |
| --- | --- | --- | --- | --- |
| Cross-thread double | `src/runtime_control.c:42-46, 125-171` | sequence counter, two 32-bit words | init, store, try_load (3 attempts) | the next part |
| Runtime control | `src/runtime_control.c` | staged values and flags, staged plan behind `mission_sequence`, `plan_version`, `command_writer`, live values, applied values | `param_set`, `param_get`, `trajectory_set` on Zenoh threads; `apply`, `restore` on the controller thread | Zenoh queryables; the model's state |
| SIL / lockstep loop | `src/main_sil.c` | odometry, manual channels, previous mode, control channels held between steps, step count | one iteration per odometry sample | lockstep adapter, topics, runtime control |
| Realtime loop | `src/main_realtime.c` | pose and its generation, manual channels, step count, broadcast position, next cycle tick | one iteration per period (or per FastDyn sample) | csyn topics, runtime control |
| Lockstep adapter | `subsys/lockstep/` | mapping of the shared object, sequence follower | start, receive, send | bridge or FMI runner, through shared memory |
| FastDyn bridge | `tools/fastdyn_bridge/src/main.rs` | two mappings, last completed sequence | open, exchange, drop | runner on one side, firmware on the other |
| FMI 3 runner | `tests/zephyr/fmi3_lockstep_runner.c` | sequence, records | exchange, run loop, cleanup | firmware or bridge, the FMU |
| SIL harness | `tests/zephyr/run_native_sim_zenoh_sil.py` | processes, bridge thread, logs | start, bridge, wait, stop | all processes |
| Topics, boards | `src/csyn_topics.c`, `src/zros_topics.c`, `src/fastdyn_board.c` | declarations | none of their own | csyn, zros |

The heart of it is runtime control. Its comment says why it is delicate:
queries run on a thread Zephyr does not schedule, so no mutex may be used;
values cross between threads through doubles split in two atomic words, plans
through an array of such doubles behind one more sequence counter, and a
writer may be preempted anywhere without stopping the controller.

What makes each part correct, and what is hard about it:

* **Cross-thread double.** A load returns a value some store wrote, the latest
  one, and never waits. Hard: any interleaving of word accesses.
* **Runtime control.** One writer at a time; what is accepted is applied or
  superseded; a plan is applied whole or not at all; the active leg lies in the
  plan; EFMI_INIT loses nothing; a conditional replacement replaces the version
  it names; the controller never waits. Hard: two handlers and the controller
  interleave at every atomic access, and flags are taken, put back and raised
  from both sides.
* **Control loops.** The output belongs to the mode that is announced; a stale
  pose is not announced as fresh; one model step per period. Hard: mode changes
  between steps, gaps in the pose stream, stalls.
* **Lockstep.** Every sample is answered once, with the outputs computed from
  it; everybody terminates. Hard: termination racing an exchange, startup,
  restarts that leave the shared object of an earlier run.
* **Harness.** A run that succeeded is reported as one. Hard: process exit
  order.

`PROJECT.json` lists the hazards at their lines, with the properties that
cover them.

## 2. Modules

| Module | Content |
| --- | --- |
| `TryRegister` | Abstract: a register whose loads are atomic and may give up only when they meet a store. |
| `SeqLock` | `struct atomic_double` at the grain of single atomic accesses; implements `TryRegister`. |
| `MCSeqLock` | Instances of it for TLC. |
| `SeqLockProofs` | Its theorems. |
| `StagedConfig` | Abstract: a set of mailboxes; a command is staged, and the latest staged command is delivered. |
| `RuntimeControl` | The three services and the controller's cycle; implements `StagedConfig`. |
| `RuntimeControlProperties` | What `RuntimeControl` is checked for. |
| `MCRuntimeControl` | Instances of it for TLC. |
| `RuntimeControlProofs` | Its theorems: types, mutual exclusion, the plan's transfer, the version check; the parameters' transfer, `param_get`, restore; order of the tickets, no lost plan, what is in force at a step, refinement of `StagedConfig`. |
| `ControlLoopSil`, `ControlLoopSilProofs` | One iteration of `main_sil.c`: inputs and mode, the four ways the channels come about, telemetry; its theorems. |
| `ControlLoopRealtime`, `ControlLoopRealtimeProofs` | `main_realtime.c`, deployed and FastDyn: pose and command topics beside their publishers, mode, model step, telemetry flags; its theorems. |
| `CyclePacing`, `CyclePacingProofs` | The deadlines of the deployed loop; its theorems. |
| `MissionTelemetry`, `MissionTelemetryProofs` | Progress, targets and plan broadcast against plan replacement; its theorems. |
| `Alternation` | Abstract: samples are handed out, computed and answered in turn. |
| `Lockstep` | Runner, bridge and firmware around their shared objects; implements `Alternation`. |
| `LockstepProofs` | Its theorems. |
| `SilHarness`, `SilHarnessProofs` | `main()` of the native SIL harness beside its processes and its bridge thread; its theorems. |

How they compose: `RuntimeControl` is the configuration the two loops apply at
the start of each cycle, and uses `SeqLock` through what `TryRegister` promises.
`Lockstep` is what `ControlLoopSil` receives samples from and answers to, and
FastDyn's `ControlLoopRealtime`; `MissionTelemetry` takes from `RuntimeControl`
that a plan replacement leaves the active leg within the plan
(`ActiveLegValid`), and `SilHarness` takes from `Lockstep` that `terminate` is set
before the runner's end and that the firmware then stops (`FirmwareFollows`).

### SeqLock

`sequence`, `mem` are the slot's fields; `pc`, `attempt`, `before`, `seen` are
the place and the locals of `atomic_double_try_load` in each reader;
`unwritten` and `unread` say which of the two words the running store or
attempt has still to access. Those accesses are `memory_order_relaxed`, so the
model takes them in either order. `StoreBegin`, `StoreWord` and `StoreEnd` are
`atomic_double_store_value`; `LoadBegin`, `LoadBefore` or `LoadBusy`,
`LoadWord` and `LoadAfter` are `atomic_double_try_load`. Interleaving of
sequentially consistent accesses is what the targets give: native_sim runs on
x86-64, where neither loads nor stores pass one another, and the boards have a
single core, where a thread sees its own program order; beyond these the C11
orders in the source would not forbid a relaxed word load to move after the
acquire load that follows it, or a relaxed word store before the counter's
first increment, and the model does not cover a target that does so.

`overlap` and `disturbed` are history variables: they record the increments
during an attempt, and whether a store was in progress at any time during the
load. No guard reads `disturbed`; `overlap` is read by the named bound
`NoWrapAround` only.

### RuntimeControl

One action per access to shared memory, with three abstractions.

1. *A double is one register* `[val, storing]`, stored in two actions and loaded
   in one. The theorem `SeqLockImplementsRegister` justifies it: a successful
   load takes effect at the instant of its second counter read, a failed one
   at some instant at which a store is in progress. The three columns of a
   waypoint, always stored and read in turn by one thread, are one register.
2. *A payload is a ticket.* The code moves values and coordinates and never
   looks at them (`CLAMP` looks at the leg number, which is modelled). A
   set command draws a ticket when it begins to write its payload, under
   `command_writer`, so tickets increase in staging order and properties can
   speak of older and newer. A row of a plan is its ticket, the plan's length
   and the row's index, so that a mixture shows.
3. *A request that fails validation* (codes -1, -2 and -3) reads no shared
   state but the version it reports and writes none: `ReceiveInvalid`.

| Variables | Code |
| --- | --- |
| `command_writer`, `plan_version`, `pending_values`, `pending_value_set`, `live_values` | fields of the same name in `struct runtime_control` |
| `mission` | `mission_sequence`, `pending_mission`, `pending_segments`, `pending_waypoints` |
| `applied` | the five `applied_` fields |
| `model` | the model's two copies of each parameter and of the route, its five copies of the active leg |
| `ctl`, `hpc`, `req` | program counters and locals of the controller thread and of each handler |
| `ticket`, `issued`, `staged`, `overlap` | history: tickets drawn, commands received, tickets completely staged per slot, bumps of `mission_sequence` since the controller read it |

| Actions | Code |
| --- | --- |
| `ReceiveParamGet`, `ReceiveParamSet`, `ReceiveTrajectorySet`, `ReceiveInvalid`, `Reply` | a query arrives at `runtime_query`, its validation, its reply |
| `ParamGet` | `handle_param_get` |
| `TryLock`, `Unlock` | `command_writer`, in both set handlers |
| `StoreParam`, `StoreParamEnd`, `FlagParam` | `handle_param_set:410-411` |
| `CheckVersion`, `OpenMission`, `StoreRow`, `StoreRowEnd`, `StoreSegments`, `CloseMission`, `FlagMission`, `PublishVersion` | `handle_trajectory_set:525-551` |
| `EfmiInit`, `NoEdge` | the edge to automatic mode, `main_sil.c:366-373`; `main_realtime.c` has no such edge, its behaviours are those without `EfmiInit` |
| `RestoreParam`, `RestoreNothing`, `RestoreParamEnd`, `RestoreRoute` | `cubs2_runtime_control_restore` |
| `TakeParam`, `LoadParam`, `PutBackParam`, `ApplyParam`, `ApplyParamEnd` | the parameter loop of `cubs2_runtime_control_apply` |
| `TakeMission`, `ReadBefore`, `ReadRow`, `ReadSegments`, `ApplyMission`, `RejectMission`, `PutBackMission` | its mission part |
| `ModelStep`, `NoModelStep` | `EFMI_STEP`, external: the model may move its leg along the route it holds and changes nothing else of what is modelled; or the cycle ends without it |

`apply_value`, `apply_route` and the assignments to `applied_` fields are the
controller thread's own and are joined with the shared access next to them.

### ControlLoopSil

`Receive` is lines 344-377: the sample and the manual channels as they are held
after it, the mode, the edge to automatic mode (`model` and the step count start
anew), the step gate. `StepModel`, `HoldOutput`, `IdleOutput` and `PassManual` are
the branches of lines 379-396, `Publish` is `publish_outputs` and
`update_telemetry`. Channel values are reduced to where they come from and of
which sample: that is what an observer on the ground can be misled about. The
samples' time stamps are arbitrary: a peer may repeat, skip or go back.

### ControlLoopRealtime

An iteration is split where another thread can come between: the generation of
a topic is read (`SeePose`, `SeeManual`), then the message is copied
(`CopyPose`, `ReadManual`, or the copy fails), and the publishers may publish in
between. `Tick` is the time of `k_uptime_get`. `FastDyn` tells the two builds
apart; FastDyn's samples come from the lockstep peer (`ReceiveOdometry`). The
model's held-sample count and its airborne flag, on which its stale-pose
failsafe depends, are the generated model's: a step may leave the flag either
way. `pose_age`, `mocap_age`, `lag` and `repeated` are history variables;
of these `lag` is read by the bound on `Tick` only.

### CyclePacing

`EndCycle`, `Resync` and `StartCycle` are lines 657-661; `uptime` advances at any
time, by any amount while a cycle works, and by `Latency` at most after the end
of a wait. `starts` keeps the starts of the last five cycles.

### MissionTelemetry

`Telemetry` is `update_navigation_target` and `update_mission_telemetry` of one
cycle; `ReplacePlan` is what a cycle's `apply` may do before it and `MoveLeg` what
`EFMI_STEP` may. A row is a pair of plan and index. `received` is the ground
station, which files a segment under its number, the only key a message has.
`age` is a history variable: the cycles since the plan in force was taken over.
The second bound of `CurrentSeq` (line 366) is a safeguard the model never needs:
apply keeps the active leg within a shorter plan, and the model's step is taken
to move along the plan.

### Lockstep

One action per access to a shared object. `up` is the runner's object, `down`
the one in FastDyn's RAM; whether there is a bridge is chosen in `Init`.

| Actions | Code |
| --- | --- |
| `RunnerOpen`, `WriteOdometry`, `Post`, `SeeResponse`, `CopyOutputs`, `StepPlant` | `open_direct_transport`, `exchange_direct`, `run_loop` |
| `RunnerNeverOpens`, `RunnerGivesUp`, `Terminate`, `Bump` | its failures and cleanup |
| `BridgeOpen`, `BridgeConnect`, `BridgeNeverMaps` | the bridge's two `open` functions |
| `BridgePoll` ... `BridgeRespond` | `run_bridge`, `FirmwareTransport::exchange`, `UpstreamTransport::respond` |
| `BridgeGivesUp`, `Drop` | its timeouts; `FirmwareTransport::drop` |
| `MapShared`, `ClearShared`, `StoreMagic`, `SequenceInit` | `cubs2_lockstep_start` |
| `TakeSequence`, `StopFirmware`, `ReceiveOdometry` | `cubs2_lockstep_receive` |
| `WriteOutputs`, `Respond` | `cubs2_lockstep_send` |
| `FirmwareFails` | QEMU or native_sim dies, anywhere |

A payload is the number of its sample. A load or store of a sequence number is
one action each, as is the copy of a payload: `NoPayloadRace` shows that nobody
writes it meanwhile. `ClearShared` and `StoreMagic` are one struct assignment
in C. The model stores the magic word last, which is what GCC emits for it at
`-O0`, `-Os` and `-O2`; the language does not promise it.

### SilHarness

`pc` is the line `main()` is at; each process and the bridge thread take their
own steps between any two lines. The checks of the recorded run are one
verdict.

## 3. What the runs check

| Run | Instance | Shows | Size |
| --- | --- | --- | --- |
| `seqlock` | 1 reader, words of 2 contents, counter modulo 6 | the inductive invariant `SeqLockInv`; `LoadsCurrent` (no torn value, no stale value); refinement of `TryRegister`; every load returns, the writer stopping where it will | 146 000 states |
| `runtime_safety` | 2 handlers, 1 parameter, plans of 1 or 2 legs, 3 commands, versions modulo 3, `mission_sequence` modulo 4 | all safety and action properties below, and refinement of `StagedConfig!Spec` | 1.6 million states |
| `runtime_progress` | 2 handlers, 2 parameters, 1 leg, 2 commands | the controller never blocks; if handlers run on, accepted commands reach the model's steps and stay; refinement of `StagedConfig` with its fairness | 115 000 states |
| `runtime_order` | 1 handler, 2 parameters, 2 commands | *violated*, see section 5 | |
| `control_loop_sil` | time stamps over 3 periods in any order | `TelemetryTrue`, `OneStepPerPeriod`, `StepNotWithheld` | 395 000 states |
| `sil_switch` | the same | *violated*, see section 5 | |
| `realtime` | 3 poses, 2 commands, freshness, staleness and lag of 1; FastDyn: time stamps over 3 periods | the seven properties below | 1.4 million states |
| `cycle_pacing` | period 3, latency 1, 7 periods of time | `BurstBounded`, `NoDrift` | 263 000 states |
| `mission_telemetry` | up to 3 legs, broadcast every second cycle, 2 replacements | `PlanKnownInTime`, `RowsInPlan`, `PlanGetsThrough` | 7 900 states |
| `lockstep` | 4 samples, with and without the bridge | the eight properties below | 2 400 states |
| `sil_harness` | both backends, own router or not | `SuccessIsEarned`, `FailureEndsRun` | 1 900 states |
| `sil_harness_exit` | the same | *violated*, see section 5 | |

Properties of `RuntimeControl`:

* `NoMixedRoute`: the model's route is one plan staged whole (or its own), in
  both copies, `EFMI_INIT` and restore included. `MissionInv` is the inductive
  invariant that proves it.
* `ActiveLegValid`: all five copies of the active leg agree and lie in the
  plan, however short the plan that replaced the one being flown.
* `NoLostParam`, `NoLostMission`: what was staged is applied, superseded, or
  still announced by a flag or a thread that will raise it. `ParamInv` is the
  inductive invariant behind this and the next properties of parameters.
* `AcceptedInForce`: the same end to end, at the place that counts. When the
  model steps, each slot it flies with, each parameter and the plan, holds the
  newest command staged for it, unless a flag announces that one for a later
  cycle; both copies of a parameter agree, and `param_get` reports them. This
  takes the hand-over from the handler, the read-back after a failed load, the
  application, and restore after `EFMI_INIT` together. The type invariant, with
  `plan_version` never 0, is a part of it.
* `ConditionalPlanSet`: an accepted plan replaced the version its request
  named, and every accepted plan changes the version, never to 0.
* `LiveNeverRegresses`: `param_get` never goes back to an older value.
* `ImplementsStagedConfig`: the mailboxes, i.e. only whole commands are
  delivered, and never an older one after a newer one.

`OneWriter`, `MissionInv`, `ParamInv`, `ModelMatchesApplied` (at a step, both copies of
each parameter and the value `param_get` reports are what was last applied) and
`RouteInForce` are not in a run of their own: they are proved. So are the
inductive invariants of the loops and of the harness (`SilInv`, `RealtimeInv`,
`HarnessInv`).

Properties of the control loops:

* `TelemetryTrue`: the topics are true of the outputs. In `ControlLoopSil` a
  failsafe is idle, manual mode passes this iteration's channels, and in
  automatic mode an attitude flagged valid is of the step that computed the
  channels. In `ControlLoopRealtime` idle channels are announced as a failsafe
  and a valid attitude is of the pose held (FastDyn: of its period). The type
  invariant is a part of it.
* `OneStepPerPeriod`, `StepNotWithheld`: the model integrates with a fixed step;
  it is stepped once per period and not later than the period's first sample.
* `ValidAttitudeRecent`: a pose published as valid is no older than `Freshness`
  plus two gaps between looks at the topic, counted from its *publication*. The
  code measures from the copy; the bound is tight.
* `GapAnnounced`: after more repetitions of a pose than the model tolerates
  the failsafe is announced, whatever copies and mode did meanwhile.
* `StepInMode`: the model's last step saw the mode and the pose that are
  published.
* `NewestInputsHeld`: when the publishers stop, the newest pose and command are
  taken, though a message may have been copied under an older generation.
* `NoNewsMissed`: its safety side, publishers running or not: a look that finds
  no new generation is right, the pose or command held is the topic's.
* `BurstBounded`, `NoDrift`: any five consecutive cycles take at least one
  period; a cycle that was waited for starts on the grid of the first one.
* `RowsInPlan`: no row beyond the plan in force is sent.
* `PlanKnownInTime`: the broadcast of a plan starts wherever that of its
  predecessor stood, which may be past its end, and nothing in a message tells
  two plans apart. Still every leg has its turn before the plan is one broadcast
  period old for each of its legs.
* `PlanGetsThrough`: when plans stop being replaced, the ground station gets to
  know every leg of the last one. (Its start, row 0, is in no message.)

Properties of `Lockstep`:

* `AnswersOwnSample`, `ComputedOnce`: the plant is driven by outputs of the sample
  it just handed out; the controller computes every sample in turn and once,
  except that the number that wakes it at the end may make it compute the last
  sample again, when the runner has gone.
* `NoPayloadRace`: nobody touches a payload while another party writes it.
* `StaysInStep`: the whole implements `Alternation`.
* `FirmwareFollows`: a connected firmware stops after the runner, or after a
  bridge that gave it up.
* `HostsEnd`: when deadlines pass, runner and bridge end, whatever becomes of the
  firmware.
* `RunSucceeds`: the run succeeds unless someone gives up: no number is lost,
  in whatever order the parties start.

Properties of `SilHarness`: `SuccessIsEarned` (a success implies that plant and
bridge thread ended without error) and `FailureEndsRun` (a lost party ends the
run, and no process is left).

**Bounds.** `MaxCommands` bounds the set commands of a behaviour and
`ticket` with them; three allow one command to be flown, one to be staged and
one to be written. `VersionModulus = 3` lets `plan_version` wrap within three
plans. `SeqModulus = 4` lets `mission_sequence` wrap at the second plan.
`BumpMissionSequence` and `NoWrapAround` bound the increments during one reading
to less than the modulus: in C, fewer than 2^31 plans or stores within one
reading; without that bound the counter's coming full circle is a real,
practically unreachable, failure of every sequence lock. One parameter and two
legs are enough for the safety run as slots do not interact but through the
scan order, which `runtime_order` looks at with two; two handlers are enough as
`command_writer` admits one and the other is refused. One reader is enough for
`SeqLock` as readers write nothing shared.

Three periods of two time units let a sample be of the current, a later or an
earlier period, be the first of it or not, and skip one. Three poses let one be
held, one be seen and one be copied in its place; `Freshness`, `StaleSamples` and
`MaxLag` of one let each limit be met and passed. `MaxLag` bounds the time
between two looks at the pose topic: it is the cycle time, which the code has no
bound for, and enters the bound `ValidAttitudeRecent` states. Seven periods let
a stall of any length up to the limit be followed by the five cycles
`BurstBounded` looks at, and by a resynchronisation and more cycles. Two
replacements among plans of one, two and three legs meet a broadcast at each
leg and a flight on each. Four samples make the exchange return to its loop
with every combination of what is left in the shared objects; the proofs cover
the rest.

**Fairness.** `SeqLock` assumes that a reader inside a load keeps running and
nothing of the writer. `ControllerSpec` assumes that the controller thread keeps
running its loop, which it does by its period (`k_sleep`) or as long as samples
come. `HandlersRunOn`, that a handler that received a request runs on to its
reply, is the premise of the properties that need it and not of
`ControllerNeverBlocks`. Nothing assumes that requests arrive.

The realtime loop runs on (its only wait is `k_sleep`; under FastDyn samples keep
coming), and a copy from a topic that is tried again and again does not fail for
ever: this strong fairness is an assumption on csyn. Telemetry is part of every
cycle, so `Cycle` is weakly fair. In `Lockstep` each party runs on with what its
code does next; none has to fail, and deadlines pass only in `HostsEnd`, where
`Deadlines` is the premise: the runner's and the bridge's waits are bounded by
clocks. The harness's `main()` runs on, as each of its waits has a timeout;
processes may hang.

## 4. What is proved

All theorems hold for every set of handlers or readers and every value of the
other constants that satisfies the stated assumptions: at least one parameter
and one leg, a version modulus of at least 3, even counter moduli of at least 4,
a control period of at least one time unit. Every safety invariant and action
property that a passing run checks is proved.

`SeqLockProofs`

* `TypeCorrect`, `SeqLockCorrect`: `SeqLockInv` is inductive. It says that the
  words not waiting to be written hold the latest value (`MemoryCoherent`), that
  the counter is `overlap` increments past what the attempt first read, modulo
  wrap-around (`CounterTracked`), so that an equal counter means `overlap = 0`,
  that an attempt without overlap has read current words only (`WordsCurrent`),
  and that a retry had a store to blame (`RetriesJustified`).
* `LoadsAreCurrent`: the action property `LoadsCurrent`.
* `SeqLockImplementsRegister`: `Spec => Register!Spec`, initial states and steps
  under the mapping `val <- current`.

`RuntimeControlProofs`

* `TypeCorrect`: `TypeOK`.
* `WritersExclude`: `OneWriter`, which is inductive given `TypeOK`: only
  `TryLock` lets a handler in, when the flag was clear and so nobody was, and
  only the one inside clears it.
* `MissionTransfer`: `MissionInv`. `NoMixedRoute` alone is not inductive: that
  the rows just read are of one plan depends on what was in shared memory while
  they were read. `MissionWriter` says that `mission_sequence` is odd exactly
  while a handler fills the plan, that the rows up to the handler's are its
  own, and that an even counter means a whole plan; `MissionReader` that the
  controller started from an even counter, knows how often it was bumped since,
  and, if never, has read what is pending now; `AppliedWhole` that restore, too,
  re-applies a whole plan. An unchanged counter at the second look then means no
  bump, hence no handler filling, hence a whole plan.
* `RoutesAreWhole`: `NoMixedRoute`.
* `LegsAreValid`: `ActiveLegValid`. `MissionInv` gives the plans handed to
  `apply_route`, by apply and by restore, at least one leg to clamp to.
* `PlanSetIsConditional`: `ConditionalPlanSet`. From the comparison to the
  publication the handler is inside `command_writer`, so `plan_version` is still
  what it compared and copied (`VersionHeld`).

Of its parameters:

* `ParamTransfer`: `ParamInv`. `NoLostParam` alone is not inductive: that the
  value the controller loads covers everything staged for the slot depends on
  what was pending then. `ParamWriter` says that the pending value is the latest
  ticket staged, or the one being stored; `ParamReader` that the controller's
  copies and the live value are what it applied last, except for the slot it is
  applying and for those `EFMI_INIT` has reset and restore has not reached.
* `NoParamIsLost`, `StepsSeeApplied`, `LiveValuesAdvance`: `NoLostParam`,
  `ModelMatchesApplied` and `LiveNeverRegresses`.

Of what was accepted:

* `TicketsInOrder` (a lemma): tickets are drawn and staged in order (`Fresh`),
  no more of them than commands were received (`Budget`), and the pending plan
  is the newest one while it is whole (`Newest`).
* `NoMissionIsLost`: `NoLostMission`.
* `RoutesStayInForce`: `RouteInForce`, the model's route is the plan applied last,
  except between `EFMI_INIT` and the end of restore. It is inductive because apply
  stores in `applied` exactly the rows and the length it gives to the model, and
  restore gives them again.
* `AcceptedIsInForce`: `AcceptedInForce`, from `NoLostParam`, `ModelMatchesApplied`,
  `NoLostMission`, `RouteInForce` and `TypeOK`: at a step the controller holds
  nothing back, so what is not announced is applied, and what is applied is
  what steps.
* `ServicesImplementMailboxes`: `Spec => StagedConfig!Spec` under the mapping
  `delivered <- ` what was last applied per slot. `StoreParamEnd` and
  `CloseMission` stage a command, `ApplyParamEnd` and `ApplyMission` deliver one,
  or deliver again what was delivered already; every other step stutters.

`LockstepProofs`, for runs of any length, with and without the bridge

* `LockstepCorrect`: `LockstepInv` is inductive. `AnswersOwnSample` is not: that
  the outputs are the sample's depends on which sample a sequence number stands
  for in each object. `RunnerInv` says that the number posted is the runner's, or
  one more once it has ended; `Asked`, that a number being worked on has not
  been answered, so that the runner cannot have moved on from its sample;
  `BridgeInv` and `DownInv`, that the lower object's numbers lie between the upper
  one's and that its payload is the same sample; `FirmwareInv`, the same of the
  firmware's copies; `ComputedInv`, how many samples have been computed, given
  the number last answered.
* `PlantGetsOwnAnswer`, `SamplesComputedOnce`, `PayloadsNeverRace`: the three
  safety properties. `TypeCorrect`: types.
* `FirmwareInStep`: `Spec => Alternation!Spec`. `Post` asks, `ReceiveOdometry`
  computes (or computes again, a stutter), `CopyOutputs` answers, `StepPlant`
  succeeds; giving up fails; everything else stutters.

`CyclePacingProofs`, for every period, latency and length of stall

* `PacingCorrect`, `BurstsAreBounded`: `PacingInv` is inductive and contains
  `BurstBounded`. It bounds from below how far the deadline is past each of the
  last four starts: one period for each deadline since, less the two periods
  `Stalled` lets a cycle be late.
* `DriftCorrect`, `CyclesDoNotDrift`: `DriftInv`: the deadline is the cycle's
  number times the period until the first resynchronisation; hence `NoDrift`.

`MissionTelemetryProofs`, for every number of legs and plans

* `TypeCorrect`, `NoRowBeyondPlan`: `TypeOK`, which is inductive, and `RowsInPlan`.
* `LegsTakeTurns`: `PlanKnownInTime`, for every broadcast period as well. It is
  inductive with `TypeOK`: a leg's due date (`DueAt`: the plan's age, the rest of
  the present period, and one period for each leg whose turn is before) stays
  where it is in a cycle without a broadcast and in one with (`TurnTaken`), and
  it lies within the time allowed when a plan is taken over (`NewPlanHasTime`).
  `PlanIsKnown` draws the conclusion: a plan of that age is known.

`ControlLoopSilProofs`, for every period and every sequence of time stamps

* `SilCorrect`: `SilInv` is inductive. `TelemetryTrue` is not: that a valid attitude
  is of the step the outputs are of, and not of an earlier period than the
  sample, depends on what the gate decided before. `StepTimes` says that
  `next_control_time_us` is past the period of every step made and not past the
  one after the latest sample's; `OutputsHeld`, that since automatic mode was
  entered with odometry the channels are those of the model's last step, whose
  period covers every sample that is not due; `OutputsChosen`, what the branch
  taken put in the channels.
* `TypeCorrect`, `TopicsAreTrue`, `StepsOncePerPeriod`, `NoStepIsWithheld`: `TypeOK`
  and the three properties. The arithmetic they rest on is one lemma: the next
  step is due with the first time stamp of a later period
  (`NextControlTimeIsNextPeriod`).

`ControlLoopRealtimeProofs`, for every freshness, stale limit, gap and period, and
any number of messages

* `RealtimeCorrect`: `RealtimeInv` is inductive, beside `TelemetryTrue` with these
  parts. `InputsSeen`: the generation kept is never newer than the message kept,
  which is what reading it before the copy achieves. `AgesKnown`: a pose that is
  not yet held was published since the last look, one held under an older
  generation since the look before, so that the time stamp of the copy is off
  by two gaps at most. `StepsCounted`: the model has counted every repetition of
  the pose, as every iteration with a usable pose steps it. `SamplesPaced`: what
  `StepTimes` is above, for FastDyn. `IdleWithoutPose`: idle channels mean automatic
  mode without a pose.
* `TypeCorrect`, `TopicsAreTrue`, `ValidAttitudesAreRecent`, `GapsAreAnnounced`,
  `StepsAreInMode`, `StepsOncePerPeriod`, `NothingIsMissed`: `TypeOK` and the
  six safety properties of the run `realtime`.

`SilHarnessProofs`

* `HarnessCorrect`: `HarnessInv` is inductive. `VerdictGrounded` says that what the
  looks on the way to the verdict found is still so: neither a plant nor a
  thread that has ended does anything any more, and once the thread is joined
  nobody is left who could record an error. `StoppedInOrder` does the same for
  the processes stopped at the end.
* `SuccessesAreEarned`: `SuccessIsEarned`. `NothingOutlivesRun`: when `main()` has
  returned, no process is up; the part of `FailureEndsRun` that is not liveness.

Only model-checked: liveness (`LoadTerminates`, `ControllerNeverBlocks`,
`StagedReachesModel`, `NewestInputsHeld`, `PlanGetsThrough`, `FirmwareFollows`,
`HostsEnd`, `RunSucceeds`, `FailureEndsRun`) and the refinement of
`StagedConfig`'s fairness (`ImplementsFairStagedConfig`): fairness is stated with
`ENABLED`, which is beyond the prover. Of `NewestInputsHeld` and
`ImplementsFairStagedConfig` the safety parts are proved, as `NothingIsMissed` and
`ServicesImplementMailboxes`.

## 5. Findings

**A step may see a later parameter without an earlier one.** The comment in `cubs2_runtime_control_apply` (`src/runtime_control.c:620-622`)
says that the staged update is applied completely at a cycle boundary and that
no model step observes a partially updated parameter set. Each value is indeed
whole, but the loop takes the slots one by one while handlers go on staging: a
parameter accepted behind the loop waits for the next cycle, one accepted
afterwards ahead of it is applied in this one. `StepsSeePrefix` states that a
step which sees an update sees the earlier ones, and `runtime_order` shows the
cycle in which it does not. The client that sets two gains in order sees them
in force in the opposite order for one cycle.

**Manual channels under automatic mode.** `Kconfig:60-62` says that
autonomous channels are published when the mode switch is high. `main_sil.c`
leaves `control_rc` alone when automatic mode is selected, the odometry is valid
and no step is due (lines 379-396). When the switch goes high in such a cycle,
the manual channels of an earlier cycle are published with `flight_mode`
automatic until the next step is due (`sil_switch`).

**A successful run reported as a failure.** The harness polls the plant (line
1502) and then requires native_sim to be running (1518, 1524). The runner sets
`terminate` before it frees the FMU and flushes its traces, and native_sim exits
on it. If the runner is still up at the poll and both have ended at the look at
native_sim, `require_running` raises "exited early" for a run in which both
ended as they should (`sil_harness_exit`).

What the models show beside these, and no document contradicts:

* In manual mode `main_sil.c` does not step the model, so attitude and rates stay
  those of the last automatic step while they are published as valid. This is
  why `TelemetryTrue` speaks of automatic mode there; `main_realtime.c` steps the
  model in manual mode too.
* Under FastDyn, a mode change between two steps of the model publishes outputs of
  a step made in the other mode; `StepInMode` is about the deployed build.
* A bridge that gives up before the firmware has started sets `terminate` in an
  object that the firmware clears when it starts: it then waits for ever.
  `FirmwareFollows` is therefore about a firmware that is `Connected`.
* The runner's test of time stamps (`fmi3_lockstep_runner.c:551`) would let the
  outputs of the cleared payload pass as those of the first sample;
  `AnswersOwnSample` holds by the sequence numbers alone.
* While the model's active leg is 0, `update_navigation_target` aims at (0, 0)
  (`main_realtime.c:454-464`) where mission progress and position command name
  the first leg (360-387). Both places guard against 0. Whether the generated
  model, which is not in the repository, can leave 0 in `currentWaypoint` after
  `EFMI_INIT` is not known here; `Init` of `MissionTelemetry` admits it until a
  plan is taken over or the model has stepped. No property states that the
  topics agree, as in that case they do not.
* The harness's third loop (lines 1525-1533) is never entered: either backend
  starts a plant process.

## 6. Not modelled

* The wording and encoding of requests and replies, parameter names and
  aliases, the fixed-point and floating-point content of topics: no property is
  about them.
* The Synapse, csyn, zros, Zenoh-pico and `cerebri_lockstep` libraries and the
  generated model: outside the repository, modelled by how this code uses them.
* The runner's FMU, its pacing, its trace files and the capacity it computes for
  them in floating point (`fmi3_lockstep_runner.c:623`): rounding is beyond these
  models; the check at that line turns it into a failed run.
* The bridge's `--launch` mode and its look-up of the object's address in the ELF
  file: start-up of processes and file parsing without shared state.
* In the harness, the forwarding of topics by the Rumoca bridge thread (line 754
  and around), log parsing, thresholds and plots.
* The restart of a single party within a run: no code handles one. That no old
  magic word waits in FastDyn's RAM is an assumption (`Fresh`) on its
  configuration, `reset_memory_files = true` (`fastdyn/mr_vmu_tropic.toml:95`).
  The runner's file is written anew for native_sim by the harness (lines
  1428-1430); under FastDyn whoever prepares it is outside the repository.
* The other order within the assignment of `lockstep.c:52-54`, magic word first: it
  would let a sample be posted and then wiped out. That the compiler clears
  first is assumed, and no property covers the hazard.
* A child that survives `SIGKILL` for two seconds: the second `wait` of the harness's
  `stop_process` (line 279) would then raise and leave the later processes
  running. `Stop` always succeeds.
* Build, packaging, CI and debugger scripts: no run-time behaviour.
