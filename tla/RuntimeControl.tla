-------------------------- MODULE RuntimeControl --------------------------
(***************************************************************************)
(* src/runtime_control.c: the Synapse services param_set, param_get and    *)
(* trajectory_set, whose handlers run on Zenoh threads, and the controller *)
(* thread, which applies what they staged at the start of each control     *)
(* cycle and re-applies it after an EFMI_INIT of the model.                *)
(*                                                                         *)
(* One action per access to shared memory.  A `struct atomic_double` is a  *)
(* record [val, storing]: SeqLockProofs.tla proves that the slot of two    *)
(* words and a counter is such a register, whose loads fail only when they *)
(* meet a store.  The three columns of a waypoint are one register.        *)
(*                                                                         *)
(* A payload (a parameter's value, a plan's coordinates) is known only by  *)
(* the ticket its command draws while it holds command_writer; ticket 0 is *)
(* what EFMI_INIT gives the model.                                         *)
(***************************************************************************)
EXTENDS Integers

CONSTANTS
  Handlers,       \* The threads that may be inside runtime_query.
  NumParams,      \* ARRAY_SIZE(values): 28 in C.
  MaxSegments,    \* CUBS2_MAX_SEGMENTS: 6 in C.
  VersionModulus, \* plan_version is counted modulo this: 2^32 in C.
  SeqModulus,     \* mission_sequence is counted modulo this: 2^32 in C.
  MaxCommands,    \* Bound: set commands received in one behaviour.
  Origin          \* A row of zeros, from `double waypoints[][3] = {0}`.

ASSUME SizesAssumption ==
  /\ NumParams \in Nat \ {0}
  /\ MaxSegments \in Nat \ {0}
  /\ MaxCommands \in Nat
ASSUME VersionAssumption == VersionModulus \in Nat /\ VersionModulus >= 3
ASSUME SequenceAssumption ==
  SeqModulus \in Nat /\ SeqModulus >= 4 /\ SeqModulus % 2 = 0

Params == 1 .. NumParams
Rows == 0 .. MaxSegments
Mission == 0                   \* The slot of the flight plan.
Slots == Params \union {Mission}

VARIABLES
  command_writer,     \* The flag a handler must set to stage a command.
  plan_version,
  mission,            \* mission_sequence, pending_mission,
                      \* pending_segments and pending_waypoints.
  pending_values,
  pending_value_set,
  live_values,
  applied,            \* The applied_ fields, the controller thread's own.
  model,              \* Vehicles_Cubs2_OuterLoopState: the parameters' and
                      \* the route's public and nested copies, and the leg's.
  ctl,                \* The controller thread: where it is, loop counter and
                      \* locals of cubs2_runtime_control_apply.
  hpc,                \* hpc[h]: where handler h is.
  req,                \* req[h]: its request, and its locals.
  ticket,             \* History: the latest ticket drawn.
  issued,             \* History: set commands received so far.
  staged,             \* History: staged[s] is the set of the tickets that
                      \* were completely staged for slot s.
  overlap             \* History: bumps of mission_sequence since the
                      \* controller read it.

handlerVars == <<hpc, req, ticket, issued, staged>>
controllerVars == <<applied, model, ctl>>
vars == <<command_writer, plan_version, mission, pending_values,
          pending_value_set, live_values, applied, model, ctl, hpc, req,
          ticket, issued, staged, overlap>>

-----------------------------------------------------------------------------
(* Data *)

Odd(n) == n % 2 = 1
Lower(a, b) == IF a < b THEN a ELSE b
Clamp(x, lo, hi) == IF x < lo THEN lo ELSE IF x > hi THEN hi ELSE x
Slot(v) == [val |-> v, storing |-> FALSE]

(* Row k of the array handle_trajectory_set fills for a plan of n segments. *)
PlanRow(t, n, k) ==
  IF k <= n THEN [ticket |-> t, segments |-> n, row |-> k] ELSE Origin

(* apply_route: rows past the last point of the plan repeat it. *)
Route(waypoints, n) ==
  [segments |-> n, waypoints |-> [k \in Rows |-> waypoints[Lower(k, n)]]]

(* The model's own route, before any plan has replaced it. *)
DefaultRoute ==
  Route([k \in Rows |-> PlanRow(0, MaxSegments, k)], MaxSegments)

(* Every copy of the active leg in the model's state. *)
AllLegs(l) ==
  [currentWaypoint |-> l, guidance_currentWaypoint |-> l,
   guidance_activeWaypoint |-> l, previous_guidance_currentWaypoint |-> l,
   guidance_segmentEndIndex |-> l + 1]

(* What EFMI_INIT leaves of the model. *)
InitialModel ==
  [leaf |-> [i \in Params |-> 0], mirror |-> [i \in Params |-> 0],
   route |-> DefaultRoute, guidance_route |-> DefaultRoute, leg |-> AllLegs(1)]

NextVersion(v) == IF v = VersionModulus - 1 THEN 1 ELSE v + 1
NextSequence(n) == IF n = SeqModulus - 1 THEN 0 ELSE n + 1

NoRequest ==
  [service |-> "none", param |-> 1, segments |-> 1, expected |-> 0,
   version |-> 0, ticket |-> 0, row |-> 0]

NoRows == [k \in Rows |-> Origin]

(* cubs2_runtime_control_init, on a model EFMI_INIT has just initialised. *)
Init ==
  /\ command_writer = FALSE
  /\ plan_version = 1
  /\ mission = [sequence |-> 0, pending |-> FALSE, segments |-> 0,
                waypoints |-> [k \in Rows |-> Slot(DefaultRoute.waypoints[k])]]
  /\ pending_values = [i \in Params |-> Slot(0)]
  /\ pending_value_set = [i \in Params |-> FALSE]
  /\ live_values = [i \in Params |-> Slot(0)]
  /\ applied = [values |-> [i \in Params |-> 0],
                value_set |-> [i \in Params |-> FALSE],
                waypoints |-> NoRows, segments |-> 0, mission |-> FALSE]
  /\ model = InitialModel
  /\ ctl = [pc |-> "top", index |-> 0, value |-> 0, before |-> 0,
            rows |-> NoRows, segments |-> 0]
  /\ hpc = [h \in Handlers |-> "idle"]
  /\ req = [h \in Handlers |-> NoRequest]
  /\ ticket = 0
  /\ issued = 0
  /\ staged = [s \in Slots |-> {}]
  /\ overlap = 0

-----------------------------------------------------------------------------
(* Requests arrive.  One that fails validation (codes -1, -2 and -3 of the *)
(* three services) is answered without touching shared state.              *)

Receive(h, r, next) ==
  /\ hpc[h] = "idle"
  /\ hpc' = [hpc EXCEPT ![h] = next]
  /\ req' = [req EXCEPT ![h] = r]
  /\ UNCHANGED <<command_writer, plan_version, mission, pending_values,
                 pending_value_set, live_values, controllerVars, ticket,
                 staged, overlap>>

ReceiveInvalid(h) == Receive(h, NoRequest, "Denied") /\ UNCHANGED issued

ReceiveParamGet(h, i) ==
  /\ Receive(h, [NoRequest EXCEPT !.service = "param_get", !.param = i], "get")
  /\ UNCHANGED issued

ReceiveParamSet(h, i) ==
  /\ issued < MaxCommands
  /\ Receive(h, [NoRequest EXCEPT !.service = "param_set", !.param = i], "lock")
  /\ issued' = issued + 1

(* expected = 0 asks for an unconditional replacement. *)
ReceiveTrajectorySet(h, n, expected) ==
  /\ issued < MaxCommands
  /\ Receive(h, [NoRequest EXCEPT !.service = "trajectory_set",
                                  !.segments = n, !.expected = expected], "lock")
  /\ issued' = issued + 1

-----------------------------------------------------------------------------
(* The handlers *)

Goto(h, from, next) == hpc[h] = from /\ hpc' = [hpc EXCEPT ![h] = next]

(* The reply has been built and the queryable's callback returns. *)
Reply(h) ==
  /\ \E code \in {"Accepted", "TemporarilyRejected", "Denied"} :
       Goto(h, code, "idle")
  /\ req' = [req EXCEPT ![h] = NoRequest]
  /\ UNCHANGED <<command_writer, plan_version, mission, pending_values,
                 pending_value_set, live_values, controllerVars, ticket,
                 issued, staged, overlap>>

(* A step of handler h that changes nothing else of it, nor the history. *)
HandlerOnly ==
  UNCHANGED <<controllerVars, live_values, req, ticket, issued, staged, overlap>>

(* handle_param_get: the load fails if it meets the controller's store. *)
ParamGet(h) ==
  /\ Goto(h, "get", IF live_values[req[h].param].storing
                      THEN "TemporarilyRejected" ELSE "Accepted")
  /\ HandlerOnly
  /\ UNCHANGED <<command_writer, plan_version, mission, pending_values,
                 pending_value_set>>

(* atomic_flag_test_and_set on command_writer. *)
WriterNeverBusy == FALSE                                   \* mutant
WriterBusy == command_writer

TryLock(h) ==
  /\ Goto(h, "lock", IF WriterBusy THEN "TemporarilyRejected"
                     ELSE IF req[h].service = "param_set" THEN "store"
                     ELSE "version")
  /\ command_writer' = TRUE
  /\ HandlerOnly
  /\ UNCHANGED <<plan_version, mission, pending_values, pending_value_set>>

Unlock(h) ==
  /\ Goto(h, "unlock", "Accepted") \/ Goto(h, "reject", "TemporarilyRejected")
  /\ command_writer' = FALSE
  /\ HandlerOnly
  /\ UNCHANGED <<plan_version, mission, pending_values, pending_value_set>>

(* handle_param_set: atomic_double_store_value, in two halves, and then    *)
(* the flag the controller looks at.                                       *)
StoreParam(h) ==
  /\ Goto(h, "store", "storing")
  /\ ticket' = ticket + 1
  /\ req' = [req EXCEPT ![h].ticket = ticket + 1]
  /\ pending_values' = [pending_values EXCEPT ![req[h].param] =
                          [val |-> ticket + 1, storing |-> TRUE]]
  /\ UNCHANGED <<command_writer, plan_version, mission, pending_value_set,
                 live_values, controllerVars, issued, staged, overlap>>

StoreParamEnd(h) ==
  /\ Goto(h, "storing", "flag")
  /\ pending_values' = [pending_values EXCEPT ![req[h].param].storing = FALSE]
  /\ staged' = [staged EXCEPT ![req[h].param] = @ \union {req[h].ticket}]
  /\ UNCHANGED <<command_writer, plan_version, mission, pending_value_set,
                 live_values, controllerVars, req, ticket, issued, overlap>>

FlagParam(h) ==
  /\ Goto(h, "flag", "unlock")
  /\ pending_value_set' = [pending_value_set EXCEPT ![req[h].param] = TRUE]
  /\ HandlerOnly
  /\ UNCHANGED <<command_writer, plan_version, mission, pending_values>>

(* handle_trajectory_set.  The version is compared under command_writer. *)
VersionMatches(h) == req[h].expected \in {0, plan_version}

CheckVersion(h) ==
  /\ Goto(h, "version", IF VersionMatches(h) THEN "open" ELSE "reject")
  /\ req' = [req EXCEPT ![h].version = plan_version]
  /\ UNCHANGED <<command_writer, plan_version, mission, pending_values,
                 pending_value_set, live_values, controllerVars, ticket,
                 issued, staged, overlap>>

ReadingMission == ctl.pc \in {"rows", "segments", "after"}

(* Bound: fewer than SeqModulus bumps of mission_sequence (2^31 plans in   *)
(* C) fall within one reading of the plan by the controller.               *)
BumpMissionSequence ==
  /\ ReadingMission => overlap < SeqModulus - 1
  /\ mission' = [mission EXCEPT !.sequence = NextSequence(@)]
  /\ overlap' = IF ReadingMission THEN overlap + 1 ELSE 0

OpenMission(h) ==
  /\ Goto(h, "open", "row")
  /\ BumpMissionSequence
  /\ ticket' = ticket + 1
  /\ req' = [req EXCEPT ![h].ticket = ticket + 1]
  /\ UNCHANGED <<command_writer, plan_version, pending_values,
                 pending_value_set, live_values, controllerVars, issued, staged>>

StoreRow(h) ==
  LET k == req[h].row
  IN  /\ Goto(h, "row", "rowEnd")
      /\ mission' = [mission EXCEPT !.waypoints[k] =
           [val |-> PlanRow(req[h].ticket, req[h].segments, k), storing |-> TRUE]]
      /\ HandlerOnly
      /\ UNCHANGED <<command_writer, plan_version, pending_values,
                     pending_value_set>>

StoreRowEnd(h) ==
  LET k == req[h].row
  IN  /\ Goto(h, "rowEnd", IF k = MaxSegments THEN "count" ELSE "row")
      /\ mission' = [mission EXCEPT !.waypoints[k].storing = FALSE]
      /\ req' = [req EXCEPT ![h].row = IF k = MaxSegments THEN 0 ELSE k + 1]
      /\ UNCHANGED <<command_writer, plan_version, pending_values,
                     pending_value_set, live_values, controllerVars, ticket,
                     issued, staged, overlap>>

StoreSegments(h) ==
  /\ Goto(h, "count", "close")
  /\ mission' = [mission EXCEPT !.segments = req[h].segments]
  /\ HandlerOnly
  /\ UNCHANGED <<command_writer, plan_version, pending_values, pending_value_set>>

CloseMission(h) ==
  /\ Goto(h, "close", "pending")
  /\ BumpMissionSequence
  /\ staged' = [staged EXCEPT ![Mission] = @ \union {req[h].ticket}]
  /\ UNCHANGED <<command_writer, plan_version, pending_values, pending_value_set,
                 live_values, controllerVars, req, ticket, issued>>

FlagMission(h) ==
  /\ Goto(h, "pending", "publish")
  /\ mission' = [mission EXCEPT !.pending = TRUE]
  /\ HandlerOnly
  /\ UNCHANGED <<command_writer, plan_version, pending_values, pending_value_set>>

(* `reply_version++`, zero skipped, stored over what was compared. *)
PublishVersion(h) ==
  /\ Goto(h, "publish", "unlock")
  /\ plan_version' = NextVersion(req[h].version)
  /\ HandlerOnly
  /\ UNCHANGED <<command_writer, mission, pending_values, pending_value_set>>

-----------------------------------------------------------------------------
(* The controller thread's cycle: on the edge to automatic mode EFMI_INIT  *)
(* and cubs2_runtime_control_restore, then cubs2_runtime_control_apply,    *)
(* then the model steps or the cycle ends without a step.                  *)

At(pc) == ctl.pc = pc
To(pc, i) == [ctl EXCEPT !.pc = pc, !.index = i]

(* The parameter loop goes on with the next index, or it is over. *)
NextParam(loop, after) ==
  IF ctl.index < NumParams THEN To(loop, ctl.index + 1) ELSE To(after, 0)

(* The locals of the mission part are gone. *)
EndOfApply == [To("step", 0) EXCEPT !.before = 0, !.rows = NoRows, !.segments = 0]

(* A step of the controller that leaves what the handlers share alone. *)
StagingUnchanged ==
  UNCHANGED <<command_writer, plan_version, mission, pending_values,
              pending_value_set>>

(* apply_value *)
WithValue(m, i, v) == [m EXCEPT !.leaf[i] = v, !.mirror[i] = v]

(* apply_route brings every copy of the active leg within the plan. *)
LegKept(m, n) == AllLegs(m.leg.currentWaypoint)            \* mutant
LegWithin(m, n) == AllLegs(Clamp(m.leg.currentWaypoint, 1, n))

WithRoute(m, waypoints, n) ==
  [m EXCEPT !.route = Route(waypoints, n), !.guidance_route = Route(waypoints, n),
            !.leg = LegWithin(m, n)]

(* apply_value and the first half of the store to live_values. *)
ApplyValue(i, v) ==
  /\ model' = WithValue(model, i, v)
  /\ live_values' = [live_values EXCEPT ![i] = [val |-> v, storing |-> TRUE]]

LiveStoreEnd(i) == live_values' = [live_values EXCEPT ![i].storing = FALSE]

NoRestore == To("take", 1)                                 \* mutant
AfterEfmiInit == To("restore", 1)

EfmiInit ==
  /\ At("top")
  /\ model' = InitialModel
  /\ ctl' = AfterEfmiInit
  /\ StagingUnchanged
  /\ UNCHANGED <<live_values, applied, handlerVars, overlap>>

NoEdge ==
  /\ At("top")
  /\ ctl' = To("take", 1)
  /\ StagingUnchanged
  /\ UNCHANGED <<live_values, applied, model, handlerVars, overlap>>

RestoreParam ==
  /\ At("restore")
  /\ applied.value_set[ctl.index]
  /\ ApplyValue(ctl.index, applied.values[ctl.index])
  /\ ctl' = To("restored", ctl.index)
  /\ StagingUnchanged
  /\ UNCHANGED <<applied, handlerVars, overlap>>

RestoreNothing ==
  /\ At("restore")
  /\ ~applied.value_set[ctl.index]
  /\ ctl' = NextParam("restore", "restoreRoute")
  /\ StagingUnchanged
  /\ UNCHANGED <<live_values, applied, model, handlerVars, overlap>>

RestoreParamEnd ==
  /\ At("restored")
  /\ LiveStoreEnd(ctl.index)
  /\ ctl' = NextParam("restore", "restoreRoute")
  /\ StagingUnchanged
  /\ UNCHANGED <<applied, model, handlerVars, overlap>>

RestoreRoute ==
  /\ At("restoreRoute")
  /\ model' = IF applied.mission
                THEN WithRoute(model, applied.waypoints, applied.segments)
                ELSE model
  /\ ctl' = To("take", 1)
  /\ StagingUnchanged
  /\ UNCHANGED <<live_values, applied, handlerVars, overlap>>

(* The parameter loop of cubs2_runtime_control_apply. *)
TakeParam ==
  /\ At("take")
  /\ pending_value_set' = [pending_value_set EXCEPT ![ctl.index] = FALSE]
  /\ ctl' = IF pending_value_set[ctl.index] THEN To("load", ctl.index)
                                            ELSE NextParam("take", "takeMission")
  /\ UNCHANGED <<command_writer, plan_version, mission, pending_values,
                 live_values, applied, model, handlerVars, overlap>>

(* atomic_double_try_load meets no store. *)
AlwaysLoadable(slot) == TRUE                               \* mutant
Loadable(slot) == ~slot.storing

SkipParam == NextParam("take", "takeMission")              \* mutant
RetryLoad == To("load", ctl.index)                         \* mutant
LoadFailed == To("putBack", ctl.index)

LoadParam ==
  /\ At("load")
  /\ ctl' = IF Loadable(pending_values[ctl.index])
              THEN [To("value", ctl.index) EXCEPT
                      !.value = pending_values[ctl.index].val]
              ELSE LoadFailed
  /\ StagingUnchanged
  /\ UNCHANGED <<live_values, applied, model, handlerVars, overlap>>

(* The load failed: the flag is raised again for the next cycle. *)
PutBackParam ==
  /\ At("putBack")
  /\ pending_value_set' = [pending_value_set EXCEPT ![ctl.index] = TRUE]
  /\ ctl' = NextParam("take", "takeMission")
  /\ UNCHANGED <<command_writer, plan_version, mission, pending_values,
                 live_values, applied, model, handlerVars, overlap>>

ApplyParam ==
  /\ At("value")
  /\ ApplyValue(ctl.index, ctl.value)
  /\ ctl' = To("live", ctl.index)
  /\ StagingUnchanged
  /\ UNCHANGED <<applied, handlerVars, overlap>>

(* What restore will re-apply. *)
WithAppliedSet(a, i, v) == [a EXCEPT !.value_set[i] = TRUE] \* mutant
WithApplied(a, i, v) == [a EXCEPT !.values[i] = v, !.value_set[i] = TRUE]

(* The flag is cleared when the value is in use, not when it is taken. *)
ApplyParamLateClear ==                                     \* mutant
  /\ At("live")
  /\ LiveStoreEnd(ctl.index)
  /\ applied' = WithApplied(applied, ctl.index, ctl.value)
  /\ pending_value_set' = [pending_value_set EXCEPT ![ctl.index] = FALSE]
  /\ ctl' = [NextParam("take", "takeMission") EXCEPT !.value = 0]
  /\ UNCHANGED <<command_writer, plan_version, mission, pending_values, model,
                 handlerVars, overlap>>
ApplyParamEnd ==
  /\ At("live")
  /\ LiveStoreEnd(ctl.index)
  /\ applied' = WithApplied(applied, ctl.index, ctl.value)
  /\ ctl' = [NextParam("take", "takeMission") EXCEPT !.value = 0]
  /\ StagingUnchanged
  /\ UNCHANGED <<model, handlerVars, overlap>>

(* The mission part of cubs2_runtime_control_apply. *)
TakeMission ==
  /\ At("takeMission")
  /\ mission' = [mission EXCEPT !.pending = FALSE]
  /\ ctl' = To(IF mission.pending THEN "before" ELSE "step", 0)
  /\ UNCHANGED <<command_writer, plan_version, pending_values, pending_value_set,
                 live_values, applied, model, handlerVars, overlap>>

ForgetMission == EndOfApply                                \* mutant
Incomplete == To("putBackMission", 0)

(* A handler is between the two increments of mission_sequence. *)
BeingFilled == Odd(mission.sequence)

ReadBefore ==
  /\ At("before")
  /\ ctl' = [IF BeingFilled THEN Incomplete ELSE To("rows", 0)
                EXCEPT !.before = mission.sequence]
  /\ overlap' = 0
  /\ StagingUnchanged
  /\ UNCHANGED <<live_values, applied, model, handlerVars>>

ReadRow ==
  LET k == ctl.index
      next == IF k < MaxSegments THEN To("rows", k + 1) ELSE To("segments", 0)
  IN  /\ At("rows")
      /\ ctl' = IF Loadable(mission.waypoints[k])
                  THEN [next EXCEPT !.rows[k] = mission.waypoints[k].val]
                  ELSE Incomplete
      /\ StagingUnchanged
      /\ UNCHANGED <<live_values, applied, model, handlerVars, overlap>>

ReadSegments ==
  /\ At("segments")
  /\ ctl' = [To("after", 0) EXCEPT !.segments = mission.segments]
  /\ StagingUnchanged
  /\ UNCHANGED <<live_values, applied, model, handlerVars, overlap>>

(* The second read of mission_sequence shows whether the plan is whole. *)
TakenForWhole == TRUE                                      \* mutant
Whole == ctl.before = mission.sequence

ApplyMission ==
  /\ At("after")
  /\ Whole
  /\ model' = WithRoute(model, ctl.rows, ctl.segments)
  /\ applied' = [applied EXCEPT !.waypoints = ctl.rows,
                                !.segments = ctl.segments, !.mission = TRUE]
  /\ ctl' = EndOfApply
  /\ overlap' = 0
  /\ StagingUnchanged
  /\ UNCHANGED <<live_values, handlerVars>>

RejectMission ==
  /\ At("after")
  /\ ~Whole
  /\ ctl' = Incomplete
  /\ StagingUnchanged
  /\ UNCHANGED <<live_values, applied, model, handlerVars, overlap>>

PutBackMission ==
  /\ At("putBackMission")
  /\ mission' = [mission EXCEPT !.pending = TRUE]
  /\ ctl' = EndOfApply
  /\ overlap' = 0
  /\ UNCHANGED <<command_writer, plan_version, pending_values, pending_value_set,
                 live_values, applied, model, handlerVars>>

(* The generated model's step may move the active leg along the route it   *)
(* holds; it changes no parameter and no waypoint.                         *)
ModelStep ==
  /\ At("step")
  /\ \E l \in 1 .. model.guidance_route.segments :
       model' = [model EXCEPT !.leg = AllLegs(l)]
  /\ ctl' = To("top", 0)
  /\ StagingUnchanged
  /\ UNCHANGED <<live_values, applied, handlerVars, overlap>>

(* Manual flight, no odometry, or no step due. *)
NoModelStep ==
  /\ At("step")
  /\ ctl' = To("top", 0)
  /\ StagingUnchanged
  /\ UNCHANGED <<live_values, applied, model, handlerVars, overlap>>

-----------------------------------------------------------------------------
Arrival(h) ==
  \/ ReceiveInvalid(h)
  \/ \E i \in Params : ReceiveParamGet(h, i) \/ ReceiveParamSet(h, i)
  \/ \E n \in 1 .. MaxSegments, expected \in 0 .. VersionModulus - 1 :
       ReceiveTrajectorySet(h, n, expected)

Handler(h) ==
  \/ Reply(h) \/ ParamGet(h) \/ TryLock(h) \/ Unlock(h)
  \/ StoreParam(h) \/ StoreParamEnd(h) \/ FlagParam(h)
  \/ CheckVersion(h) \/ OpenMission(h) \/ StoreRow(h) \/ StoreRowEnd(h)
  \/ StoreSegments(h) \/ CloseMission(h) \/ FlagMission(h) \/ PublishVersion(h)

Controller ==
  \/ EfmiInit \/ NoEdge
  \/ RestoreParam \/ RestoreNothing \/ RestoreParamEnd \/ RestoreRoute
  \/ TakeParam \/ LoadParam \/ PutBackParam \/ ApplyParam \/ ApplyParamEnd
  \/ TakeMission \/ ReadBefore \/ ReadRow \/ ReadSegments
  \/ ApplyMission \/ RejectMission \/ PutBackMission
  \/ ModelStep \/ NoModelStep

Next ==
  \/ \E h \in Handlers : Arrival(h) \/ Handler(h)
  \/ Controller

Spec == Init /\ [][Next]_vars

(* The controller thread keeps running its periodic loop; a handler may be *)
(* preempted for ever.                                                     *)
ControllerSpec == Spec /\ WF_vars(Controller)
=============================================================================
