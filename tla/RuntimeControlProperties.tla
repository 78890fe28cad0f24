---------------------- MODULE RuntimeControlProperties ----------------------
(***************************************************************************)
(* What RuntimeControl.tla is checked for and proved to satisfy.           *)
(***************************************************************************)
EXTENDS RuntimeControl

Point == [ticket : Nat, segments : 0 .. MaxSegments, row : Rows] \union {Origin}
Register(S) == [val : S, storing : BOOLEAN]
RouteType == [segments : 0 .. MaxSegments, waypoints : [Rows -> Point]]

MissionType ==
  [sequence : 0 .. SeqModulus - 1, pending : BOOLEAN,
   segments : 0 .. MaxSegments, waypoints : [Rows -> Register(Point)]]

AppliedType ==
  [values : [Params -> Nat], value_set : [Params -> BOOLEAN],
   waypoints : [Rows -> Point], segments : 0 .. MaxSegments, mission : BOOLEAN]

LegType ==
  [currentWaypoint : Nat, guidance_currentWaypoint : Nat,
   guidance_activeWaypoint : Nat, previous_guidance_currentWaypoint : Nat,
   guidance_segmentEndIndex : Nat]

ModelType ==
  [leaf : [Params -> Nat], mirror : [Params -> Nat], route : RouteType,
   guidance_route : RouteType, leg : LegType]

ControllerPc ==
  {"top", "restore", "restored", "restoreRoute", "take", "load", "putBack",
   "value", "live", "takeMission", "before", "rows", "segments", "after",
   "putBackMission", "step"}

ControllerType ==
  [pc : ControllerPc, index : Nat, value : Nat, before : 0 .. SeqModulus - 1,
   rows : [Rows -> Point], segments : 0 .. MaxSegments]

HandlerPc ==
  {"idle", "get", "lock", "store", "storing", "flag", "version", "open", "row",
   "rowEnd", "count", "close", "pending", "publish", "unlock", "reject",
   "Accepted", "TemporarilyRejected", "Denied"}

RequestType ==
  [service : {"none", "param_get", "param_set", "trajectory_set"},
   param : Params, segments : 1 .. MaxSegments,
   expected : 0 .. VersionModulus - 1, version : 0 .. VersionModulus - 1,
   ticket : Nat, row : Rows]

(* Every variable holds what its C declaration allows; plan_version is     *)
(* never 0, the value by which a client asks for no version check.         *)
TypeOK ==
  /\ command_writer \in BOOLEAN
  /\ plan_version \in 1 .. VersionModulus - 1
  /\ mission \in MissionType
  /\ pending_values \in [Params -> Register(Nat)]
  /\ pending_value_set \in [Params -> BOOLEAN]
  /\ live_values \in [Params -> Register(Nat)]
  /\ applied \in AppliedType
  /\ model \in ModelType
  /\ ctl \in ControllerType
  /\ ctl.pc \in {"restore", "restored", "take", "load", "putBack", "value",
                 "live"} => ctl.index \in Params
  /\ ctl.pc = "rows" => ctl.index \in Rows
  /\ hpc \in [Handlers -> HandlerPc]
  /\ req \in [Handlers -> RequestType]
  /\ ticket \in Nat
  /\ issued \in Nat
  /\ staged \in [Slots -> SUBSET Nat]
  /\ overlap \in 0 .. SeqModulus - 1

-----------------------------------------------------------------------------
(* Safety *)

WriterPc == {"store", "storing", "flag", "version", "open", "row", "rowEnd",
             "count", "close", "pending", "publish", "unlock", "reject"}
Writing(h) == hpc[h] \in WriterPc

(* command_writer keeps the handlers out of each other's stores: every     *)
(* atomic_double and mission_sequence have one writer at a time            *)
(* (runtime_control.c:404-413, 518-552).                                   *)
OneWriter ==
  \A h \in Handlers :
    Writing(h) => /\ command_writer
                  /\ \A g \in Handlers : Writing(g) => g = h

(* The model never holds rows of one plan and rows or the length of        *)
(* another: its route, in both copies, is one plan that was staged whole,  *)
(* or its own (cubs2_runtime_control_apply, runtime_control.c:639-671).    *)
NoMixedRoute ==
  /\ model.route = model.guidance_route
  /\ \/ model.route = DefaultRoute
     \/ \E t \in staged[Mission], n \in 1 .. MaxSegments :
          model.route = Route([k \in Rows |-> PlanRow(t, n, k)], n)

(* Why NoMixedRoute holds.  While mission_sequence is even the pending     *)
(* plan is whole; while it is odd one handler is filling it row by row.    *)
PlanIs(w, n) ==
  \E t \in staged[Mission] :
    n \in 1 .. MaxSegments /\ \A k \in Rows : w[k] = PlanRow(t, n, k)

PendingRows == [k \in Rows |-> mission.waypoints[k].val]
Filling(h) == hpc[h] \in {"row", "rowEnd", "count", "close"}
RowFilled(h, k) ==
  \/ hpc[h] \in {"count", "close"}
  \/ k < req[h].row
  \/ hpc[h] = "rowEnd" /\ k = req[h].row

MissionWriter ==
  /\ Odd(mission.sequence) <=> \E h \in Handlers : Filling(h)
  /\ ~Odd(mission.sequence) /\ staged[Mission] # {} =>
       PlanIs(PendingRows, mission.segments)
  /\ \A h \in Handlers :
       /\ hpc[h] \in {"lock", "version", "open"} => req[h].row = 0
       /\ Filling(h) => \A k \in Rows : RowFilled(h, k) =>
            PendingRows[k] = PlanRow(req[h].ticket, req[h].segments, k)
       /\ hpc[h] = "close" => mission.segments = req[h].segments

(* The controller reads only a plan that was staged, knows how often the   *)
(* sequence was bumped, and has read the pending plan if it was not.       *)
MissionReader ==
  /\ \/ mission.pending
     \/ ctl.pc \in {"before", "rows", "segments", "after", "putBackMission"}
     \/ \E h \in Handlers : hpc[h] = "pending"
     => staged[Mission] # {}
  /\ ReadingMission =>
       /\ ~Odd(ctl.before)
       /\ \/ mission.sequence = ctl.before + overlap
          \/ mission.sequence = ctl.before + overlap - SeqModulus
       /\ overlap = 0 => \A k \in Rows :
            (ctl.pc = "rows" => k < ctl.index) => ctl.rows[k] = PendingRows[k]
       /\ overlap = 0 /\ ctl.pc = "after" => ctl.segments = mission.segments

(* Restore, too, re-applies a plan that was staged whole.                  *)
AppliedWhole == applied.mission => PlanIs(applied.waypoints, applied.segments)

(* The inductive invariant of the plan's transfer from handler to model    *)
(* (runtime_control.c:533-545 against 639-671 and 686-688).                *)
MissionInv == MissionWriter /\ MissionReader /\ AppliedWhole /\ NoMixedRoute

(* However long the plan that replaces the one being flown, every copy of  *)
(* the active leg is a leg of the new plan (apply_route, line 182 and      *)
(* 196-203).                                                               *)
ActiveLegValid ==
  \E l \in 1 .. model.guidance_route.segments : model.leg = AllLegs(l)

(* Why AcceptedInForce holds.  When the model steps, both copies of every  *)
(* parameter and the value param_get reports are the one last applied,     *)
(* EFMI_INIT or not (cubs2_runtime_control_restore, lines 674-689).        *)
ModelMatchesApplied ==
  At("step") => \A i \in Params :
    /\ model.leaf[i] = applied.values[i]
    /\ model.mirror[i] = applied.values[i]
    /\ live_values[i] = Slot(applied.values[i])

(* The controller has taken the flag of slot i and will apply or put back. *)
HoldsParam(i) ==
  /\ ctl.index = i
  /\ \/ ctl.pc \in {"load", "putBack"}
     \/ ctl.pc \in {"value", "live"} /\ \A t \in staged[i] : t <= ctl.value

(* A staged parameter value is applied or superseded by a newer one, or it *)
(* is still on its way: its flag is up, the controller holds it, or its    *)
(* handler is about to raise the flag (lines 410-411 against 624-636).     *)
NoLostParam ==
  \A i \in Params :
    \/ pending_value_set[i]
    \/ HoldsParam(i)
    \/ \E h \in Handlers : hpc[h] = "flag" /\ req[h].param = i
    \/ \A t \in staged[i] : t <= applied.values[i]

(* Why NoLostParam, ModelMatchesApplied and LiveNeverRegresses hold.  What *)
(* is pending is the latest value staged, or being stored (lines 404-413). *)
ParamWriter ==
  /\ \A i \in Params :
       /\ \A t \in staged[i] : t <= pending_values[i].val
       /\ pending_values[i].val <= ticket
       /\ pending_values[i].storing \/ pending_values[i].val \in staged[i] \union {0}
  /\ \A h \in Handlers : hpc[h] = "storing" =>
       pending_values[req[h].param].val = req[h].ticket

BeingApplied(i) == ctl.index = i /\ ctl.pc = "live"
NotYetRestored(i) == \/ ctl.pc = "restore" /\ ctl.index <= i
                     \/ ctl.pc = "restored" /\ ctl.index < i
InForce(i) == IF BeingApplied(i) THEN ctl.value ELSE applied.values[i]

(* The controller's copies agree with what it applied last, but for the    *)
(* value it is applying and for those EFMI_INIT has reset and restore has  *)
(* not reached; and what it holds is not older (lines 623-638, 679-685).   *)
ParamReader ==
  \A i \in Params :
    /\ applied.value_set[i] \/ applied.values[i] = 0
    /\ applied.values[i] <= pending_values[i].val
    /\ ctl.index = i /\ ctl.pc \in {"value", "live"} =>
         /\ applied.values[i] <= ctl.value
         /\ ctl.value <= pending_values[i].val
         /\ ctl.value \in staged[i] \union {0}
    /\ live_values[i].val = InForce(i)
    /\ live_values[i].storing <=> ctl.index = i /\ ctl.pc \in {"live", "restored"}
    /\ model.leaf[i] = IF NotYetRestored(i) THEN 0 ELSE InForce(i)
    /\ model.mirror[i] = model.leaf[i]

(* The inductive invariant of a parameter's way from param_set to model.   *)
ParamInv == ParamWriter /\ ParamReader /\ NoLostParam

AppliedPlan == IF applied.mission THEN applied.waypoints[0].ticket ELSE 0

(* The same of flight plans (lines 533-545 against 639-671).               *)
NoLostMission ==
  \/ mission.pending
  \/ ctl.pc \in {"before", "rows", "segments", "after", "putBackMission"}
  \/ \E h \in Handlers : hpc[h] = "pending"
  \/ \A t \in staged[Mission] : t <= AppliedPlan

(* The route of the model is the plan applied last, but from EFMI_INIT to  *)
(* the end of restore (lines 657-671, 686-688).                            *)
Reset == ctl.pc \in {"restore", "restored", "restoreRoute"}
RouteInForce ==
  model.route = IF applied.mission /\ ~Reset
                  THEN Route(applied.waypoints, applied.segments)
                  ELSE DefaultRoute

(* The ticket of what the model holds in slot s. *)
InModel(s) == IF s = Mission THEN model.route.waypoints[0].ticket
                             ELSE model.leaf[s]

Flagged(s) ==
  IF s = Mission
    THEN mission.pending \/ \E h \in Handlers : hpc[h] = "pending"
    ELSE \/ pending_value_set[s]
         \/ \E h \in Handlers : hpc[h] = "flag" /\ req[h].param = s

(* State keeps its form, and what was staged before a step of the model is *)
(* in force in that step, in every copy and in the reply of param_get, or  *)
(* its flag is up for a later cycle: neither a race with the handlers, nor *)
(* a load that failed, nor an EFMI_INIT between the cycles makes the model *)
(* fly with less than was accepted (lines 617-689).                        *)
AcceptedInForce ==
  /\ TypeOK
  /\ At("step") =>
       /\ \A s \in Slots : Flagged(s) \/ \A t \in staged[s] : t <= InModel(s)
       /\ \A i \in Params : /\ model.mirror[i] = InModel(i)
                            /\ live_values[i] = Slot(InModel(i))

(* A plan accepted with an expected version replaces exactly that version, *)
(* whatever other handlers do between the comparison and the publication   *)
(* (lines 525-551), and every accepted plan changes the version.           *)
ConditionalPlanSet ==
  [][\A h \in Handlers :
       hpc[h] = "publish" /\ hpc'[h] # "publish" =>
         /\ req[h].expected \in {0, plan_version}
         /\ plan_version' \notin {0, plan_version}]_vars

(* param_get never goes back to an older value, not even while EFMI_INIT   *)
(* has reset the model (lines 445, 634 and 682).                           *)
LiveNeverRegresses ==
  [][\A i \in Params : live_values'[i].val >= live_values[i].val]_vars

-----------------------------------------------------------------------------
(* Implementation of the mailboxes *)

Delivered == [s \in Slots |-> IF s = Mission THEN AppliedPlan
                                             ELSE applied.values[s]]
Mailboxes == INSTANCE StagedConfig WITH
  Tickets <- 1 .. MaxCommands, delivered <- Delivered

(* The services and the controller implement the mailboxes: only whole     *)
(* staged commands are taken over, and never an older one.                 *)
ImplementsStagedConfig == Mailboxes!Spec

(* A handler that has received a request keeps running. *)
HandlersRunOn == \A h \in Handlers : WF_vars(Handler(h))

(* ... and if they do, then with a finite number of commands no slot waits *)
(* for ever.                                                               *)
ImplementsFairStagedConfig ==
  Mailboxes!Spec /\ (HandlersRunOn => Mailboxes!Fairness)

-----------------------------------------------------------------------------
(* Progress *)

(* The controller never waits for a handler: the model gets its step       *)
(* though every handler may stop for ever, in the middle of a store and    *)
(* holding command_writer ("Readers never block", lines 40-41).            *)
ControllerNeverBlocks == []<>At("step")

(* What a client was told is accepted reaches a model step, or something   *)
(* newer does, and stays across EFMI_INIT.                                 *)
StagedReachesModel ==
  HandlersRunOn =>
    \A s \in Slots : \A t \in 1 .. MaxCommands :
      t \in staged[s] ~> [](At("step") => InModel(s) >= t)

-----------------------------------------------------------------------------
(* "Apply the complete staged update at one controller-cycle boundary.     *)
(* This permits live in-flight tuning without allowing a model step to     *)
(* observe a partially updated parameter set or route"                     *)
(* (runtime_control.c:620-622): a step that sees one parameter set also    *)
(* sees every parameter set that was accepted before it.                   *)
StepsSeePrefix ==
  At("step") => \A i, j \in Params : \A t \in staged[i] :
    t < model.leaf[j] => t <= model.leaf[i]
=============================================================================
