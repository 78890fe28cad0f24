------------------------ MODULE RuntimeControlProofs ------------------------
(***************************************************************************)
(* Proofs about RuntimeControl.tla, for any number of handlers,            *)
(* parameters, segments and commands.                                      *)
(***************************************************************************)
EXTENDS RuntimeControlProperties, FiniteSets, FiniteSetTheorems, TLAPS

(* The sizes, as the provers need them. *)
LEMMA Sizes ==
  /\ NumParams \in Nat /\ NumParams >= 1
  /\ MaxSegments \in Nat /\ MaxSegments >= 1
  /\ VersionModulus \in Nat /\ VersionModulus >= 3
  /\ SeqModulus \in Nat /\ SeqModulus >= 4
BY SizesAssumption, VersionAssumption, SequenceAssumption

-----------------------------------------------------------------------------
(* Types of the operators the actions are built from *)

(* A row of a plan is a point. *)
LEMMA PlanRowType ==
  ASSUME NEW t \in Nat, NEW n \in 0 .. MaxSegments, NEW k \in Rows
  PROVE  PlanRow(t, n, k) \in Point
BY DEF PlanRow, Point

(* apply_route builds a route out of any rows and any number of segments. *)
LEMMA RouteIsRoute ==
  ASSUME NEW w \in [Rows -> Point], NEW n \in 0 .. MaxSegments
  PROVE  Route(w, n) \in RouteType
<1>1. \A k \in Rows : Lower(k, n) \in Rows
  BY Sizes DEF Lower, Rows
<1>2. QED
  BY <1>1 DEF Route, RouteType

(* A legal leg number in every copy. *)
LEMMA AllLegsType == \A l \in Nat : AllLegs(l) \in LegType
BY DEF AllLegs, LegType

(* apply_route keeps the model well typed. *)
LEMMA WithRouteType ==
  ASSUME NEW m \in ModelType, NEW w \in [Rows -> Point], NEW n \in 0 .. MaxSegments
  PROVE  WithRoute(m, w, n) \in ModelType
<1>1. Route(w, n) \in RouteType
  BY RouteIsRoute
<1>2. m.leg.currentWaypoint \in Nat /\ n \in Nat
  BY Sizes DEF ModelType, LegType
<1>3. Clamp(m.leg.currentWaypoint, 1, n) \in Nat
  BY <1>2 DEF Clamp
<1>4. LegWithin(m, n) \in LegType
  BY <1>3, AllLegsType DEF LegWithin
<1>5. QED
  BY <1>1, <1>4 DEF WithRoute, ModelType

(* So does EFMI_INIT. *)
LEMMA InitialModelType == DefaultRoute \in RouteType /\ InitialModel \in ModelType
<1>1. [k \in Rows |-> PlanRow(0, MaxSegments, k)] \in [Rows -> Point]
  BY PlanRowType, Sizes
<1>2. DefaultRoute \in RouteType
  BY <1>1, RouteIsRoute, Sizes DEF DefaultRoute
<1>3. AllLegs(1) \in LegType
  BY AllLegsType
<1>4. QED
  BY <1>2, <1>3 DEF InitialModel, ModelType

(* The counters stay in their range; plan_version skips 0. *)
LEMMA CounterTypes ==
  /\ \A n \in 0 .. SeqModulus - 1 : NextSequence(n) \in 0 .. SeqModulus - 1
  /\ \A v \in 0 .. VersionModulus - 1 : NextVersion(v) \in 1 .. VersionModulus - 1
BY Sizes DEF NextSequence, NextVersion

(* Rows of zeros are rows. *)
LEMMA NoRowsType == NoRows \in [Rows -> Point]
BY DEF NoRows, Point

(* An empty request is a request. *)
LEMMA NoRequestType == NoRequest \in RequestType
BY Sizes DEF NoRequest, RequestType, Params, Rows

-----------------------------------------------------------------------------
(* Type correctness *)

(* The initial state is well typed. *)
LEMMA InitType == Init => TypeOK
<1> SUFFICES ASSUME Init PROVE TypeOK
  OBVIOUS
<1>1. mission \in MissionType
  <2>1. \A k \in Rows : Slot(DefaultRoute.waypoints[k]) \in Register(Point)
    BY InitialModelType DEF RouteType, Slot, Register
  <2>2. QED
    BY <2>1, Sizes DEF Init, MissionType
<1>2. applied \in AppliedType /\ ctl \in ControllerType
  BY NoRowsType, Sizes DEF Init, AppliedType, ControllerType, ControllerPc
<1>3. model \in ModelType
  BY InitialModelType DEF Init
<1>4. req \in [Handlers -> RequestType] /\ hpc \in [Handlers -> HandlerPc]
  BY NoRequestType DEF Init, HandlerPc
<1>5. /\ pending_values \in [Params -> Register(Nat)]
      /\ live_values \in [Params -> Register(Nat)]
  BY DEF Init, Slot, Register
<1>6. ctl.pc = "top"
  BY DEF Init
<1>7. /\ command_writer \in BOOLEAN
      /\ plan_version \in 1 .. VersionModulus - 1
      /\ pending_value_set \in [Params -> BOOLEAN]
      /\ ticket \in Nat /\ issued \in Nat
      /\ staged \in [Slots -> SUBSET Nat]
      /\ overlap \in 0 .. SeqModulus - 1
  <2>1. /\ command_writer \in BOOLEAN
        /\ pending_value_set \in [Params -> BOOLEAN]
        /\ staged \in [Slots -> SUBSET Nat]
    BY DEF Init
  <2>2. /\ plan_version \in 1 .. VersionModulus - 1
        /\ ticket \in Nat /\ issued \in Nat
        /\ overlap \in 0 .. SeqModulus - 1
    BY Sizes DEF Init
  <2>3. QED
    BY <2>1, <2>2
<1>8. QED
  BY <1>1, <1>2, <1>3, <1>4, <1>5, <1>6, <1>7 DEF TypeOK

(* Steps of the handlers keep the types. *)
LEMMA HandlerType ==
  ASSUME TypeOK, NEW h \in Handlers, Arrival(h) \/ Handler(h)
  PROVE  TypeOK'
<1> USE DEF TypeOK
<1> DEFINE ControllerSideOK ==
      /\ live_values' \in [Params -> Register(Nat)]
      /\ applied' \in AppliedType
      /\ model' \in ModelType
      /\ ctl' \in ControllerType
      /\ ctl'.pc \in {"restore", "restored", "take", "load", "putBack",
                      "value", "live"} => ctl'.index \in Params
      /\ ctl'.pc = "rows" => ctl'.index \in Rows
<1>0. ASSUME UNCHANGED <<live_values, controllerVars>> PROVE ControllerSideOK
  BY <1>0 DEF controllerVars
<1>1. ASSUME NEW r \in RequestType, NEW next \in HandlerPc, Receive(h, r, next),
             issued' \in Nat
      PROVE  TypeOK'
  BY <1>0, <1>1 DEF Receive
<1>2. CASE Arrival(h)
  <2>1. CASE ReceiveInvalid(h)
    BY <1>1, <2>1, NoRequestType DEF ReceiveInvalid, HandlerPc
  <2>2. ASSUME NEW i \in Params, ReceiveParamGet(h, i) PROVE TypeOK'
    <3>1. [NoRequest EXCEPT !.service = "param_get", !.param = i] \in RequestType
      BY NoRequestType DEF NoRequest, RequestType
    <3>2. QED
      BY <1>1, <2>2, <3>1 DEF ReceiveParamGet, HandlerPc
  <2>3. ASSUME NEW i \in Params, ReceiveParamSet(h, i) PROVE TypeOK'
    <3>1. [NoRequest EXCEPT !.service = "param_set", !.param = i] \in RequestType
      BY NoRequestType DEF NoRequest, RequestType
    <3>2. QED
      BY <1>1, <2>3, <3>1 DEF ReceiveParamSet, HandlerPc
  <2>4. ASSUME NEW n \in 1 .. MaxSegments, NEW e \in 0 .. VersionModulus - 1,
               ReceiveTrajectorySet(h, n, e)
        PROVE  TypeOK'
    <3>1. [NoRequest EXCEPT !.service = "trajectory_set", !.segments = n,
                            !.expected = e] \in RequestType
      BY NoRequestType DEF NoRequest, RequestType
    <3>2. QED
      BY <1>1, <2>4, <3>1 DEF ReceiveTrajectorySet, HandlerPc
  <2>5. QED
    BY <1>2, <2>1, <2>2, <2>3, <2>4 DEF Arrival
<1>3. ASSUME NEW from, NEW next \in HandlerPc, Goto(h, from, next)
      PROVE  hpc' \in [Handlers -> HandlerPc]
  BY <1>3 DEF Goto
<1>4. CASE Reply(h)
  <2>1. hpc' \in [Handlers -> HandlerPc]
    BY <1>3, <1>4 DEF Reply, HandlerPc
  <2>2. QED
    BY <1>0, <1>4, <2>1, NoRequestType DEF Reply
<1>5. CASE ParamGet(h) \/ TryLock(h) \/ Unlock(h)
  <2>1. hpc' \in [Handlers -> HandlerPc]
    BY <1>3, <1>5 DEF ParamGet, TryLock, Unlock, HandlerPc
  <2>2. QED
    BY <1>0, <1>5, <2>1 DEF ParamGet, TryLock, Unlock, HandlerOnly
<1>6. CASE StoreParam(h)
  <2>1. hpc' \in [Handlers -> HandlerPc]
    BY <1>3, <1>6 DEF StoreParam, HandlerPc
  <2>2. req' \in [Handlers -> RequestType]
    BY <1>6 DEF StoreParam, RequestType
  <2>3. pending_values' \in [Params -> Register(Nat)]
    BY <1>6 DEF StoreParam, Register, RequestType
  <2>4. QED
    BY <1>0, <1>6, <2>1, <2>2, <2>3 DEF StoreParam
<1>7. CASE StoreParamEnd(h)
  <2>1. hpc' \in [Handlers -> HandlerPc]
    BY <1>3, <1>7 DEF StoreParamEnd, HandlerPc
  <2>2. pending_values' \in [Params -> Register(Nat)]
    BY <1>7 DEF StoreParamEnd, Register, RequestType
  <2>3. staged' \in [Slots -> SUBSET Nat]
    BY <1>7 DEF StoreParamEnd, RequestType, Slots
  <2>4. QED
    BY <1>0, <1>7, <2>1, <2>2, <2>3 DEF StoreParamEnd
<1>8. CASE FlagParam(h)
  <2>1. hpc' \in [Handlers -> HandlerPc]
    BY <1>3, <1>8 DEF FlagParam, HandlerPc
  <2>2. QED
    BY <1>0, <1>8, <2>1 DEF FlagParam, HandlerOnly
<1>9. CASE CheckVersion(h)
  <2>1. hpc' \in [Handlers -> HandlerPc]
    BY <1>3, <1>9 DEF CheckVersion, HandlerPc
  <2>2. req' \in [Handlers -> RequestType]
    BY <1>9, Sizes DEF CheckVersion, RequestType
  <2>3. QED
    BY <1>0, <1>9, <2>1, <2>2 DEF CheckVersion
<1>10. ASSUME BumpMissionSequence
       PROVE  mission' \in MissionType /\ overlap' \in 0 .. SeqModulus - 1
  <2>1. mission' \in MissionType
    BY <1>10, CounterTypes DEF BumpMissionSequence, MissionType
  <2>2. overlap' \in 0 .. SeqModulus - 1
    BY <1>10, Sizes DEF BumpMissionSequence
  <2>3. QED
    BY <2>1, <2>2
<1>11. CASE OpenMission(h)
  <2>1. hpc' \in [Handlers -> HandlerPc]
    BY <1>3, <1>11 DEF OpenMission, HandlerPc
  <2>2. req' \in [Handlers -> RequestType]
    BY <1>11 DEF OpenMission, RequestType
  <2>3. QED
    BY <1>0, <1>10, <1>11, <2>1, <2>2 DEF OpenMission
<1>12. CASE StoreRow(h)
  <2>1. hpc' \in [Handlers -> HandlerPc]
    BY <1>3, <1>12 DEF StoreRow, HandlerPc
  <2>2. PlanRow(req[h].ticket, req[h].segments, req[h].row) \in Point
    BY PlanRowType, Sizes DEF RequestType
  <2>3. mission' \in MissionType
    BY <1>12, <2>2 DEF StoreRow, MissionType, Register, RequestType
  <2>4. QED
    BY <1>0, <1>12, <2>1, <2>3 DEF StoreRow, HandlerOnly
<1>13. CASE StoreRowEnd(h)
  <2>1. hpc' \in [Handlers -> HandlerPc]
    BY <1>3, <1>13 DEF StoreRowEnd, HandlerPc
  <2>2. req' \in [Handlers -> RequestType]
    BY <1>13, Sizes DEF StoreRowEnd, RequestType, Rows
  <2>3. mission' \in MissionType
    <3> DEFINE k == req[h].row
               cell == [mission.waypoints[k] EXCEPT !.storing = FALSE]
    <3>1. k \in Rows /\ mission.waypoints \in [Rows -> Register(Point)]
      BY DEF MissionType, RequestType
    <3>2. cell \in Register(Point)
      <4>1. mission.waypoints[k] \in Register(Point)
        BY <3>1
      <4> HIDE DEF k
      <4>2. QED
        BY <4>1 DEF Register
    <3>3. mission' = [mission EXCEPT !.waypoints = [@ EXCEPT ![k] = cell]]
      BY <1>13 DEF StoreRowEnd
    <3> HIDE DEF cell, k
    <3>4. [mission.waypoints EXCEPT ![k] = cell] \in [Rows -> Register(Point)]
      BY <3>1, <3>2
    <3>5. QED
      BY <3>3, <3>4 DEF MissionType
  <2>4. QED
    BY <1>0, <1>13, <2>1, <2>2, <2>3 DEF StoreRowEnd
<1>14. CASE StoreSegments(h)
  <2>1. hpc' \in [Handlers -> HandlerPc]
    BY <1>3, <1>14 DEF StoreSegments, HandlerPc
  <2>2. mission' \in MissionType
    BY <1>14, Sizes DEF StoreSegments, MissionType, RequestType
  <2>3. QED
    BY <1>0, <1>14, <2>1, <2>2 DEF StoreSegments, HandlerOnly
<1>15. CASE CloseMission(h)
  <2>1. hpc' \in [Handlers -> HandlerPc]
    BY <1>3, <1>15 DEF CloseMission, HandlerPc
  <2>2. staged' \in [Slots -> SUBSET Nat]
    BY <1>15 DEF CloseMission, RequestType, Slots
  <2>3. QED
    BY <1>0, <1>10, <1>15, <2>1, <2>2 DEF CloseMission
<1>16. CASE FlagMission(h)
  <2>1. hpc' \in [Handlers -> HandlerPc]
    BY <1>3, <1>16 DEF FlagMission, HandlerPc
  <2>2. mission' \in MissionType
    BY <1>16 DEF FlagMission, MissionType
  <2>3. QED
    BY <1>0, <1>16, <2>1, <2>2 DEF FlagMission, HandlerOnly
<1>17. CASE PublishVersion(h)
  <2>1. hpc' \in [Handlers -> HandlerPc]
    BY <1>3, <1>17 DEF PublishVersion, HandlerPc
  <2>2. plan_version' \in 1 .. VersionModulus - 1
    BY <1>17, CounterTypes DEF PublishVersion, RequestType
  <2>3. QED
    BY <1>0, <1>17, <2>1, <2>2 DEF PublishVersion, HandlerOnly
<1>18. QED
  BY <1>2, <1>4, <1>5, <1>6, <1>7, <1>8, <1>9, <1>11, <1>12, <1>13, <1>14,
     <1>15, <1>16, <1>17 DEF Handler

(* The controller moves on: nothing but its place and its index changes.   *)
LEMMA ToType ==
  ASSUME TypeOK, NEW pc \in ControllerPc, NEW i \in Nat
  PROVE  /\ To(pc, i) \in ControllerType
         /\ To(pc, i).pc = pc
         /\ To(pc, i).index = i
BY DEF To, TypeOK, ControllerType

(* The loop counter of a parameter loop stays in range. *)
LEMMA NextParamType ==
  ASSUME TypeOK, NEW loop \in ControllerPc, NEW after \in ControllerPc,
         ctl.index \in Params, after \notin {"restore", "restored", "take",
         "load", "putBack", "value", "live", "rows"}, loop # "rows"
  PROVE  LET c == NextParam(loop, after)
         IN  /\ c \in ControllerType
             /\ c.pc \in {"restore", "restored", "take", "load", "putBack",
                          "value", "live"} => c.index \in Params
             /\ c.pc # "rows"
<1>1. CASE ctl.index < NumParams
  <2>1. ctl.index + 1 \in Params
    BY <1>1, Sizes DEF Params
  <2>2. NextParam(loop, after) = To(loop, ctl.index + 1)
    BY <1>1 DEF NextParam
  <2>3. ctl.index + 1 \in Nat
    BY <2>1, Sizes DEF Params
  <2>4. QED
    BY <2>1, <2>2, <2>3, ToType
<1>2. CASE ~(ctl.index < NumParams)
  <2>1. NextParam(loop, after) = To(after, 0)
    BY <1>2 DEF NextParam
  <2>2. QED
    BY <2>1, ToType
<1>3. QED
  BY <1>1, <1>2

(* Steps of the controller keep the types. *)
LEMMA ControllerTypeStep ==
  ASSUME TypeOK, Controller
  PROVE  TypeOK'
<1> USE DEF TypeOK
<1> DEFINE IndexOK ==
      /\ ctl' \in ControllerType
      /\ ctl'.pc \in {"restore", "restored", "take", "load", "putBack",
                      "value", "live"} => ctl'.index \in Params
      /\ ctl'.pc = "rows" => ctl'.index \in Rows
<1>1. ASSUME NEW pc \in ControllerPc, NEW i \in Nat, ctl' = To(pc, i),
             pc \in {"restore", "restored", "take", "load", "putBack", "value",
                     "live"} => i \in Params,
             pc = "rows" => i \in Rows
      PROVE  IndexOK
  BY <1>1 DEF To, ControllerType
<1>p. Params \subseteq Nat /\ Rows \subseteq Nat /\ 1 \in Params /\ 0 \in Rows
  BY Sizes DEF Params, Rows
<1>2. CASE EfmiInit \/ NoEdge
  <2>1. IndexOK
    BY <1>1, <1>2, <1>p DEF EfmiInit, NoEdge, AfterEfmiInit, ControllerPc
  <2>2. model' \in ModelType
    BY <1>2, InitialModelType DEF EfmiInit, NoEdge
  <2>3. QED
    BY <1>2, <2>1, <2>2 DEF EfmiInit, NoEdge, StagingUnchanged, handlerVars
<1>3. ASSUME NEW i \in Params, NEW v \in Nat, ApplyValue(i, v)
      PROVE  model' \in ModelType /\ live_values' \in [Params -> Register(Nat)]
  <2>1. model' \in ModelType
    BY <1>3 DEF ApplyValue, WithValue, ModelType
  <2>2. live_values' \in [Params -> Register(Nat)]
    BY <1>3 DEF ApplyValue, Register
  <2>3. QED
    BY <2>1, <2>2
<1>4. ASSUME NEW i \in Params, LiveStoreEnd(i)
      PROVE  live_values' \in [Params -> Register(Nat)]
  BY <1>4 DEF LiveStoreEnd, Register
<1>5. CASE RestoreParam
  <2>1. ctl.index \in Params /\ applied.values[ctl.index] \in Nat
    BY <1>5 DEF RestoreParam, At, AppliedType
  <2>2. IndexOK
    BY <1>1, <1>5, <1>p, <2>1 DEF RestoreParam, ControllerPc
  <2>3. model' \in ModelType /\ live_values' \in [Params -> Register(Nat)]
    BY <1>3, <1>5, <2>1 DEF RestoreParam
  <2>4. QED
    BY <1>5, <2>2, <2>3 DEF RestoreParam, StagingUnchanged, handlerVars
<1>6. CASE RestoreNothing \/ RestoreParamEnd
  <2>1. ctl.index \in Params
    BY <1>6 DEF RestoreNothing, RestoreParamEnd, At
  <2>2. IndexOK
    BY <1>6, <2>1, NextParamType DEF RestoreNothing, RestoreParamEnd, ControllerPc
  <2>3. live_values' \in [Params -> Register(Nat)]
    BY <1>4, <1>6, <2>1 DEF RestoreNothing, RestoreParamEnd
  <2>4. QED
    BY <1>6, <2>2, <2>3
       DEF RestoreNothing, RestoreParamEnd, StagingUnchanged, handlerVars
<1>7. CASE RestoreRoute
  <2>1. IndexOK
    BY <1>1, <1>7, <1>p DEF RestoreRoute, ControllerPc
  <2>2. model' \in ModelType
    BY <1>7, WithRouteType DEF RestoreRoute, AppliedType
  <2>3. QED
    BY <1>7, <2>1, <2>2 DEF RestoreRoute, StagingUnchanged, handlerVars
<1>8. CASE TakeParam
  <2>1. ctl.index \in Params
    BY <1>8 DEF TakeParam, At
  <2>2. CASE ctl' = To("load", ctl.index)
    <3>1. IndexOK
      BY <1>1, <1>p, <2>1, <2>2 DEF ControllerPc
    <3>2. QED
      BY <1>8, <3>1 DEF TakeParam, handlerVars
  <2>3. CASE ctl' = NextParam("take", "takeMission")
    <3>1. IndexOK
      BY <2>1, <2>3, NextParamType DEF ControllerPc
    <3>2. QED
      BY <1>8, <3>1 DEF TakeParam, handlerVars
  <2>4. QED
    BY <1>8, <2>2, <2>3 DEF TakeParam
<1>9. CASE LoadParam
  <2>1. ctl.index \in Params /\ pending_values[ctl.index].val \in Nat
    BY <1>9 DEF LoadParam, At, Register
  <2>2. IndexOK
    BY <1>9, <2>1, <1>p DEF LoadParam, LoadFailed, To, ControllerType, ControllerPc
  <2>3. QED
    BY <1>9, <2>2 DEF LoadParam, StagingUnchanged, handlerVars
<1>10. CASE PutBackParam
  <2>1. ctl.index \in Params
    BY <1>10 DEF PutBackParam, At
  <2>2. IndexOK
    BY <1>10, <2>1, NextParamType DEF PutBackParam, ControllerPc
  <2>3. QED
    BY <1>10, <2>2 DEF PutBackParam, handlerVars
<1>11. CASE ApplyParam
  <2>1. ctl.index \in Params /\ ctl.value \in Nat
    BY <1>11 DEF ApplyParam, At, ControllerType
  <2>2. IndexOK
    BY <1>1, <1>11, <1>p, <2>1 DEF ApplyParam, ControllerPc
  <2>3. model' \in ModelType /\ live_values' \in [Params -> Register(Nat)]
    BY <1>3, <1>11, <2>1 DEF ApplyParam
  <2>4. QED
    BY <1>11, <2>2, <2>3 DEF ApplyParam, StagingUnchanged, handlerVars
<1>12. CASE ApplyParamEnd
  <2>1. ctl.index \in Params /\ ctl.value \in Nat
    BY <1>12 DEF ApplyParamEnd, At, ControllerType
  <2> DEFINE c == NextParam("take", "takeMission")
  <2>2. /\ c \in ControllerType
        /\ c.pc \in {"restore", "restored", "take", "load", "putBack",
                     "value", "live"} => c.index \in Params
        /\ c.pc # "rows"
    BY <2>1, NextParamType DEF ControllerPc
  <2>3. ctl' = [c EXCEPT !.value = 0]
    BY <1>12 DEF ApplyParamEnd
  <2> HIDE DEF c
  <2>4. IndexOK
    BY <2>2, <2>3 DEF ControllerType
  <2>5. applied' \in AppliedType
    BY <1>12, <2>1 DEF ApplyParamEnd, WithApplied, AppliedType
  <2>6. live_values' \in [Params -> Register(Nat)]
    BY <1>4, <1>12, <2>1 DEF ApplyParamEnd
  <2>7. QED
    BY <1>12, <2>4, <2>5, <2>6 DEF ApplyParamEnd, StagingUnchanged, handlerVars
<1>13. CASE TakeMission
  <2>1. IndexOK
    BY <1>1, <1>13, <1>p DEF TakeMission, ControllerPc
  <2>2. mission' \in MissionType
    BY <1>13 DEF TakeMission, MissionType
  <2>3. QED
    BY <1>13, <2>1, <2>2 DEF TakeMission, handlerVars
<1>14. CASE ReadBefore
  <2>1. IndexOK
    BY <1>14, <1>p DEF ReadBefore, BeingFilled, Incomplete, To, ControllerType, ControllerPc,
                       MissionType
  <2>2. QED
    BY <1>14, <2>1, Sizes DEF ReadBefore, BeingFilled, StagingUnchanged, handlerVars
<1>15. CASE ReadRow
  <2>1. ctl.index \in Rows /\ mission.waypoints[ctl.index].val \in Point
    BY <1>15 DEF ReadRow, At, MissionType, Register
  <2>2. CASE ctl' = Incomplete
    BY <1>15, <1>1, <2>2 DEF ReadRow, Incomplete, ControllerPc, StagingUnchanged,
                             handlerVars
  <2>3. ASSUME NEW c, c \in {To("rows", ctl.index + 1), To("segments", 0)},
               c = To("rows", ctl.index + 1) => ctl.index < MaxSegments,
               ctl' = [c EXCEPT !.rows[ctl.index] = mission.waypoints[ctl.index].val]
        PROVE  TypeOK'
    <3>1. /\ c \in ControllerType /\ c.pc \in {"rows", "segments"}
          /\ c.pc = "rows" => c.index \in Rows
      <4>1. ctl.index \in 0 .. MaxSegments
        BY <2>1 DEF Rows
      <4>2. CASE c = To("segments", 0)
        BY <4>2, ToType DEF ControllerPc
      <4>3. CASE c = To("rows", ctl.index + 1)
        <5>1. ctl.index + 1 \in Rows /\ ctl.index + 1 \in Nat
          BY <2>3, <4>1, <4>3, Sizes DEF Rows
        <5>2. QED
          BY <4>3, <5>1, ToType DEF ControllerPc
      <4>4. QED
        BY <2>3, <4>2, <4>3
    <3>2. IndexOK
      BY <2>1, <2>3, <3>1 DEF ControllerType
    <3>3. QED
      BY <1>15, <3>2 DEF ReadRow, StagingUnchanged, handlerVars
  <2>4. CASE ctl' # Incomplete
    <3> DEFINE k == ctl.index
               next == IF k < MaxSegments THEN To("rows", k + 1)
                                          ELSE To("segments", 0)
    <3>1. ctl' = [next EXCEPT !.rows[k] = mission.waypoints[k].val]
      BY <1>15, <2>4 DEF ReadRow
    <3>2. next \in {To("rows", k + 1), To("segments", 0)}
      OBVIOUS
    <3>3. CASE k < MaxSegments
      BY <2>3, <3>1, <3>2, <3>3
    <3>4. CASE ~(k < MaxSegments)
      <4>1. ctl' = [To("segments", 0) EXCEPT !.rows[k] = mission.waypoints[k].val]
        BY <3>1, <3>4
      <4>2. To("segments", 0) # To("rows", k + 1)
        BY <2>1, Sizes, ToType DEF ControllerPc, Rows
      <4>3. QED
        BY <2>3, <4>1, <4>2
    <3>5. QED
      BY <3>3, <3>4
  <2>5. QED
    BY <2>2, <2>4
<1>16. CASE ReadSegments
  <2>1. IndexOK
    BY <1>16, <1>p DEF ReadSegments, To, ControllerType, ControllerPc, MissionType
  <2>2. QED
    BY <1>16, <2>1 DEF ReadSegments, StagingUnchanged, handlerVars
<1>17. EndOfApply \in ControllerType /\ EndOfApply.pc = "step"
  <2>1. To("step", 0) \in ControllerType /\ To("step", 0).pc = "step"
    BY ToType DEF ControllerPc
  <2>2. 0 \in 0 .. SeqModulus - 1 /\ 0 \in 0 .. MaxSegments
    BY Sizes
  <2>3. QED
    BY <2>1, <2>2, NoRowsType DEF EndOfApply, ControllerType
<1>18. CASE ApplyMission
  <2>1. model' \in ModelType
    BY <1>18, WithRouteType DEF ApplyMission, ControllerType
  <2>2. applied' \in AppliedType
    BY <1>18 DEF ApplyMission, AppliedType, ControllerType
  <2>3. QED
    BY <1>17, <1>18, <2>1, <2>2, Sizes DEF ApplyMission, StagingUnchanged, handlerVars
<1>19. CASE RejectMission
  <2>1. IndexOK
    BY <1>1, <1>19 DEF RejectMission, Incomplete, ControllerPc
  <2>2. QED
    BY <1>19, <2>1 DEF RejectMission, StagingUnchanged, handlerVars
<1>20. CASE PutBackMission
  <2>1. mission' \in MissionType
    BY <1>20 DEF PutBackMission, MissionType
  <2>2. QED
    BY <1>17, <1>20, <2>1, Sizes DEF PutBackMission, handlerVars
<1>21. CASE ModelStep \/ NoModelStep
  <2>1. IndexOK
    BY <1>1, <1>21 DEF ModelStep, NoModelStep, ControllerPc
  <2>2. model' \in ModelType
    BY <1>21, AllLegsType, Sizes DEF ModelStep, NoModelStep, ModelType, RouteType
  <2>3. QED
    BY <1>21, <2>1, <2>2 DEF ModelStep, NoModelStep, StagingUnchanged, handlerVars
<1>22. QED
  BY <1>2, <1>5, <1>6, <1>7, <1>8, <1>9, <1>10, <1>11, <1>12, <1>13, <1>14,
     <1>15, <1>16, <1>18, <1>19, <1>20, <1>21 DEF Controller

(* Every step of the program keeps the types. *)
LEMMA TypeStep == TypeOK /\ [Next]_vars => TypeOK'
<1> SUFFICES ASSUME TypeOK, [Next]_vars PROVE TypeOK'
  OBVIOUS
<1>1. CASE UNCHANGED vars
  BY <1>1 DEF vars, TypeOK
<1>2. QED
  BY <1>1, HandlerType, ControllerTypeStep DEF Next

(* Every reachable state is well typed; in particular plan_version is never *)
(* 0, however often it wraps.                                               *)
THEOREM TypeCorrect == Spec => []TypeOK
BY InitType, TypeStep, PTL DEF Spec

-----------------------------------------------------------------------------
(* Mutual exclusion of the handlers' stores *)

(* A step that leaves the flag and the set of writing handlers alone.      *)
LEMMA OneWriterStutter ==
  ASSUME OneWriter, command_writer' = command_writer,
         \A g \in Handlers : Writing(g)' => Writing(g)
  PROVE  OneWriter'
BY DEF OneWriter

(* Only TryLock lets a handler in, and only Unlock clears the flag.        *)
LEMMA OneWriterStep ==
  ASSUME TypeOK, OneWriter, [Next]_vars
  PROVE  OneWriter'
<1> USE DEF TypeOK
<1>1. ASSUME NEW h \in Handlers, NEW next, hpc' = [hpc EXCEPT ![h] = next],
             command_writer' = command_writer, Writing(h) \/ next \notin WriterPc
      PROVE  OneWriter'
  <2>1. \A g \in Handlers : Writing(g)' => Writing(g)
    BY <1>1 DEF Writing
  <2>2. QED
    BY <1>1, <2>1, OneWriterStutter
<1>2. ASSUME NEW h \in Handlers, Arrival(h) PROVE OneWriter'
  BY <1>1, <1>2 DEF Arrival, ReceiveInvalid, ReceiveParamGet, ReceiveParamSet,
                    ReceiveTrajectorySet, Receive, WriterPc
<1>3. ASSUME NEW h \in Handlers, TryLock(h) PROVE OneWriter'
  <2>1. CASE command_writer
    BY <1>1, <1>3, <2>1 DEF TryLock, WriterBusy, Goto, WriterPc
  <2>2. CASE ~command_writer
    <3>1. \A g \in Handlers : ~Writing(g)
      BY <2>2 DEF OneWriter
    <3>2. \A g \in Handlers : Writing(g)' => g = h
      BY <1>3, <3>1 DEF TryLock, Goto, Writing
    <3>3. command_writer'
      BY <1>3 DEF TryLock
    <3>4. QED
      BY <3>2, <3>3 DEF OneWriter
  <2>3. QED
    BY <2>1, <2>2
<1>4. ASSUME NEW h \in Handlers, Unlock(h) PROVE OneWriter'
  <2>1. Writing(h)
    BY <1>4 DEF Unlock, Goto, Writing, WriterPc
  <2>2. \A g \in Handlers : Writing(g) => g = h
    BY <2>1 DEF OneWriter
  <2>3. \A g \in Handlers : ~Writing(g)'
    BY <1>4, <2>2 DEF Unlock, Goto, Writing, WriterPc
  <2>4. QED
    BY <2>3 DEF OneWriter
<1>5. ASSUME NEW h \in Handlers, Reply(h) \/ ParamGet(h) PROVE OneWriter'
  BY <1>1, <1>5 DEF Reply, ParamGet, Goto, WriterPc
<1>6. ASSUME NEW h \in Handlers,
             \/ StoreParam(h) \/ StoreParamEnd(h) \/ FlagParam(h)
             \/ CheckVersion(h) \/ OpenMission(h) \/ StoreRow(h)
             \/ StoreRowEnd(h) \/ StoreSegments(h) \/ CloseMission(h)
             \/ FlagMission(h) \/ PublishVersion(h)
      PROVE  OneWriter'
  <2>1. \E next : hpc' = [hpc EXCEPT ![h] = next]
    BY <1>6 DEF StoreParam, StoreParamEnd, FlagParam, CheckVersion, OpenMission,
                StoreRow, StoreRowEnd, StoreSegments, CloseMission, FlagMission,
                PublishVersion, Goto
  <2>2. command_writer' = command_writer
    BY <1>6 DEF StoreParam, StoreParamEnd, FlagParam, CheckVersion, OpenMission,
                StoreRow, StoreRowEnd, StoreSegments, CloseMission, FlagMission,
                PublishVersion
  <2>3. Writing(h)
    BY <1>6 DEF StoreParam, StoreParamEnd, FlagParam, CheckVersion, OpenMission,
                StoreRow, StoreRowEnd, StoreSegments, CloseMission, FlagMission,
                PublishVersion, Goto, Writing, WriterPc
  <2>4. QED
    BY <1>1, <2>1, <2>2, <2>3
<1>7. ASSUME UNCHANGED <<command_writer, hpc>> PROVE OneWriter'
  BY <1>7, OneWriterStutter DEF Writing
<1>8. CASE Controller
  BY <1>7, <1>8
     DEF Controller, EfmiInit, NoEdge, RestoreParam, RestoreNothing,
         RestoreParamEnd, RestoreRoute, TakeParam, LoadParam, PutBackParam,
         ApplyParam, ApplyParamEnd, TakeMission, ReadBefore, ReadRow,
         ReadSegments, ApplyMission, RejectMission, PutBackMission, ModelStep,
         NoModelStep, StagingUnchanged, handlerVars
<1>9. CASE UNCHANGED vars
  BY <1>7, <1>9 DEF vars
<1>10. QED
  BY <1>2, <1>3, <1>4, <1>5, <1>6, <1>8, <1>9 DEF Next, Handler

(* At any time at most one handler is between setting and clearing         *)
(* command_writer, so every shared slot has a single writer.               *)
THEOREM WritersExclude == Spec => []OneWriter
<1>1. Init => OneWriter
  BY DEF Init, OneWriter, Writing, WriterPc
<1>2. QED
  BY <1>1, TypeCorrect, OneWriterStep, PTL DEF Spec

-----------------------------------------------------------------------------
(* The transfer of a plan: the handlers' side *)

(* What was staged stays staged. *)
LEMMA PlanIsStable ==
  ASSUME NEW w, NEW n, PlanIs(w, n), staged[Mission] \subseteq staged'[Mission]
  PROVE  PlanIs(w, n)'
BY DEF PlanIs

(* A step that does not touch the pending plan or the handler filling it.  *)
LEMMA WriterQuiet ==
  ASSUME MissionWriter,
         mission'.sequence = mission.sequence,
         mission'.segments = mission.segments,
         mission'.waypoints = mission.waypoints,
         staged'[Mission] = staged[Mission],
         \A g \in Handlers : Filling(g)' <=> Filling(g),
         \A g \in Handlers : Filling(g) => hpc'[g] = hpc[g] /\ req'[g] = req[g],
         \A g \in Handlers :
           hpc'[g] \in {"lock", "version", "open"} => req'[g].row = 0
  PROVE  MissionWriter'
<1>1. PendingRows' = PendingRows
  BY DEF PendingRows
<1>2. Odd(mission.sequence)' <=> Odd(mission.sequence)
  BY DEF Odd
<1>3. Odd(mission'.sequence) <=> \E h \in Handlers : Filling(h)'
  BY <1>2 DEF MissionWriter, Odd
<1>4. ~Odd(mission'.sequence) /\ staged'[Mission] # {} =>
        PlanIs(PendingRows, mission.segments)'
  BY <1>2, <1>1 DEF MissionWriter, PlanIs, Odd
<1>5. ASSUME NEW g \in Handlers, Filling(g)', NEW k \in Rows, RowFilled(g, k)'
      PROVE  PendingRows'[k] = PlanRow(req'[g].ticket, req'[g].segments, k)
  <2>1. hpc'[g] = hpc[g] /\ req'[g] = req[g] /\ Filling(g)
    BY <1>5
  <2>2. RowFilled(g, k)
    BY <1>5, <2>1 DEF RowFilled
  <2>3. QED
    BY <1>1, <2>1, <2>2 DEF MissionWriter
<1>6. ASSUME NEW g \in Handlers, hpc'[g] = "close"
      PROVE  mission'.segments = req'[g].segments
  BY <1>6 DEF MissionWriter, Filling
<1>7. QED
  BY <1>3, <1>4, <1>5, <1>6 DEF MissionWriter

(* While h writes, no other handler fills the pending plan. *)
LEMMA OnlyFiller ==
  ASSUME OneWriter, NEW h \in Handlers, Writing(h)
  PROVE  \A g \in Handlers : g # h => ~Filling(g) /\ hpc[g] \notin WriterPc
BY DEF OneWriter, Writing, Filling, WriterPc

(* The handlers' steps keep the pending plan as MissionWriter says.        *)
LEMMA WriterHandler ==
  ASSUME TypeOK, OneWriter, MissionWriter, NEW h \in Handlers,
         Arrival(h) \/ Handler(h)
  PROVE  MissionWriter'
<1> USE DEF TypeOK
<1>q. ASSUME NEW next, hpc' = [hpc EXCEPT ![h] = next],
             ~Filling(h), next \notin {"row", "rowEnd", "count", "close"},
             mission'.sequence = mission.sequence,
             mission'.segments = mission.segments,
             mission'.waypoints = mission.waypoints,
             staged'[Mission] = staged[Mission],
             \A g \in Handlers : g # h => req'[g] = req[g],
             next \in {"lock", "version", "open"} => req'[h].row = 0
      PROVE  MissionWriter'
  <2>1. \A g \in Handlers : Filling(g)' <=> Filling(g)
    BY <1>q DEF Filling
  <2>2. \A g \in Handlers : Filling(g) => hpc'[g] = hpc[g] /\ req'[g] = req[g]
    BY <1>q
  <2>3. ASSUME NEW g \in Handlers, hpc'[g] \in {"lock", "version", "open"}
        PROVE  req'[g].row = 0
    BY <1>q, <2>3 DEF MissionWriter
  <2>4. QED
    BY <1>q, <2>1, <2>2, <2>3, WriterQuiet
<1>1. CASE Arrival(h)
  <2>1. ASSUME NEW r, r.row = 0, NEW next \in {"Denied", "get", "lock"},
               Receive(h, r, next)
        PROVE  MissionWriter'
    <3>1. req'[h].row = 0 /\ \A g \in Handlers : g # h => req'[g] = req[g]
      BY <2>1 DEF Receive
    <3>2. UNCHANGED <<mission, staged>> /\ ~Filling(h)
      BY <2>1 DEF Receive, Filling
    <3>3. hpc' = [hpc EXCEPT ![h] = next]
      BY <2>1 DEF Receive
    <3>4. QED
      BY <1>q, <3>1, <3>2, <3>3
  <2>2. ASSUME NEW i \in Params, ReceiveParamGet(h, i) PROVE MissionWriter'
    <3> DEFINE r == [NoRequest EXCEPT !.service = "param_get", !.param = i]
    <3>1. r.row = 0
      BY DEF NoRequest
    <3>2. Receive(h, r, "get")
      BY <2>2 DEF ReceiveParamGet
    <3> HIDE DEF r
    <3>3. QED
      BY <2>1, <3>1, <3>2
  <2>3. ASSUME NEW i \in Params, ReceiveParamSet(h, i) PROVE MissionWriter'
    <3> DEFINE r == [NoRequest EXCEPT !.service = "param_set", !.param = i]
    <3>1. r.row = 0
      BY DEF NoRequest
    <3>2. Receive(h, r, "lock")
      BY <2>3 DEF ReceiveParamSet
    <3> HIDE DEF r
    <3>3. QED
      BY <2>1, <3>1, <3>2
  <2>4. ASSUME NEW n \in 1 .. MaxSegments, NEW e \in 0 .. VersionModulus - 1,
               ReceiveTrajectorySet(h, n, e)
        PROVE  MissionWriter'
    <3> DEFINE r == [NoRequest EXCEPT !.service = "trajectory_set",
                                      !.segments = n, !.expected = e]
    <3>1. r.row = 0
      BY DEF NoRequest
    <3>2. Receive(h, r, "lock")
      BY <2>4 DEF ReceiveTrajectorySet
    <3> HIDE DEF r
    <3>3. QED
      BY <2>1, <3>1, <3>2
  <2>5. CASE ReceiveInvalid(h)
    <3>1. NoRequest.row = 0
      BY DEF NoRequest
    <3>2. Receive(h, NoRequest, "Denied")
      BY <2>5 DEF ReceiveInvalid
    <3>3. QED
      BY <2>1, <3>1, <3>2
  <2>6. QED
    BY <1>1, <2>2, <2>3, <2>4, <2>5 DEF Arrival
<1>2. CASE Reply(h)
  <2>1. PICK code \in {"Accepted", "TemporarilyRejected", "Denied"} :
          Goto(h, code, "idle")
    BY <1>2 DEF Reply
  <2>2. QED
    BY <1>q, <1>2, <2>1 DEF Reply, Goto, Filling
<1>3. CASE ParamGet(h) \/ Unlock(h) \/ FlagParam(h) \/ PublishVersion(h)
  BY <1>q, <1>3
     DEF ParamGet, Unlock, FlagParam, PublishVersion, Goto, HandlerOnly, Filling
<1>4. CASE TryLock(h)
  <2>1. req[h].row = 0 /\ UNCHANGED <<mission, req, staged>>
    BY <1>4 DEF TryLock, Goto, HandlerOnly, MissionWriter
  <2>2. QED
    BY <1>q, <1>4, <2>1 DEF TryLock, Goto, Filling
<1>5. CASE StoreParam(h)
  BY <1>q, <1>5 DEF StoreParam, Goto, Filling
<1>6. CASE StoreParamEnd(h)
  <2>1. req[h].param # Mission
    BY DEF RequestType, Params, Mission
  <2>2. staged'[Mission] = staged[Mission]
    BY <1>6, <2>1 DEF StoreParamEnd
  <2>3. QED
    BY <1>q, <1>6, <2>2 DEF StoreParamEnd, Goto, Filling
<1>7. CASE CheckVersion(h)
  <2>1. /\ hpc[h] = "version" /\ req'[h].row = req[h].row
        /\ \A g \in Handlers : g # h => req'[g] = req[g]
    BY <1>7 DEF CheckVersion, Goto, RequestType
  <2>2. req'[h].row = 0
    BY <2>1 DEF MissionWriter
  <2>3. QED
    BY <1>q, <1>7, <2>1, <2>2 DEF CheckVersion, Goto, Filling
<1>8. CASE FlagMission(h)
  <2>1. /\ mission'.sequence = mission.sequence
        /\ mission'.segments = mission.segments
        /\ mission'.waypoints = mission.waypoints
    BY <1>8 DEF FlagMission, MissionType
  <2>2. QED
    BY <1>q, <1>8, <2>1 DEF FlagMission, Goto, HandlerOnly, Filling
<1>w. ASSUME hpc[h] \in WriterPc
      PROVE  \A g \in Handlers : g # h => ~Filling(g) /\ hpc[g] \notin WriterPc
  BY <1>w, OnlyFiller DEF Writing
<1>b. ASSUME BumpMissionSequence
      PROVE  /\ Odd(mission'.sequence) <=> ~Odd(mission.sequence)
             /\ mission'.waypoints = mission.waypoints
             /\ mission'.segments = mission.segments
  <2>1. mission.sequence \in 0 .. SeqModulus - 1
    BY DEF MissionType
  <2>2. mission'.sequence = NextSequence(mission.sequence)
    BY <1>b DEF BumpMissionSequence, MissionType
  <2>3. SeqModulus % 2 = 0 /\ SeqModulus \in Nat
    BY SequenceAssumption
  <2>4. Odd(mission'.sequence) <=> ~Odd(mission.sequence)
    <3>1. CASE mission.sequence = SeqModulus - 1
      BY <2>1, <2>2, <2>3, <3>1 DEF NextSequence, Odd
    <3>2. CASE mission.sequence # SeqModulus - 1
      BY <2>1, <2>2, <3>2 DEF NextSequence, Odd
    <3>3. QED
      BY <3>1, <3>2
  <2>5. QED
    BY <1>b, <2>4 DEF BumpMissionSequence, MissionType
<1>9. CASE OpenMission(h)
  <2>1. hpc[h] = "open" /\ hpc' = [hpc EXCEPT ![h] = "row"] /\ req[h].row = 0
    BY <1>9 DEF OpenMission, Goto, MissionWriter
  <2>2. \A g \in Handlers : g # h => ~Filling(g)
    BY <1>w, <2>1 DEF WriterPc
  <2>3. ~Odd(mission.sequence)
    BY <2>1, <2>2 DEF MissionWriter, Filling
  <2>4. Odd(mission'.sequence)
    BY <1>9, <1>b, <2>3 DEF OpenMission
  <2>5. Filling(h)' /\ \A g \in Handlers : g # h => ~Filling(g)'
    BY <2>1, <2>2 DEF Filling
  <2>6. req'[h].row = 0 /\ \A g \in Handlers : g # h => req'[g] = req[g]
    BY <1>9, <2>1 DEF OpenMission, RequestType
  <2>7. \A k \in Rows : ~RowFilled(h, k)'
    BY <2>1, <2>6 DEF RowFilled, Rows
  <2>8. \A g \in Handlers : hpc'[g] \in {"lock", "version", "open"} => req'[g].row = 0
    BY <2>1, <2>6 DEF MissionWriter
  <2>9. \A g \in Handlers : hpc'[g] # "close"
    BY <2>1, <2>5 DEF Filling
  <2>10. QED
    BY <2>4, <2>5, <2>7, <2>8, <2>9 DEF MissionWriter
<1>10. ASSUME hpc[h] \in {"row", "rowEnd", "count"},
              NEW next \in {"row", "rowEnd", "count", "close"},
              hpc' = [hpc EXCEPT ![h] = next],
              \A g \in Handlers : g # h => req'[g] = req[g],
              mission'.sequence = mission.sequence,
              \A k \in Rows : RowFilled(h, k)' =>
                PendingRows'[k] = PlanRow(req'[h].ticket, req'[h].segments, k),
              next = "close" => mission'.segments = req'[h].segments
       PROVE  MissionWriter'
  <2>1. \A g \in Handlers : g # h => ~Filling(g)
    BY <1>10, <1>w DEF WriterPc
  <2>2. Filling(h)' /\ \A g \in Handlers : g # h => ~Filling(g)'
    BY <1>10, <2>1 DEF Filling
  <2>3. Odd(mission'.sequence)
    BY <1>10 DEF MissionWriter, Filling
  <2>4. \A g \in Handlers : hpc'[g] \in {"lock", "version", "open"} => req'[g].row = 0
    BY <1>10 DEF MissionWriter
  <2>5. \A g \in Handlers : hpc'[g] = "close" => mission'.segments = req'[g].segments
    BY <1>10, <2>2 DEF Filling
  <2>6. QED
    BY <1>10, <2>2, <2>3, <2>4, <2>5 DEF MissionWriter
<1>11. CASE StoreRow(h)
  <2> DEFINE r == req[h].row
             cell == [val |-> PlanRow(req[h].ticket, req[h].segments, r),
                      storing |-> TRUE]
  <2>1. hpc[h] = "row" /\ hpc' = [hpc EXCEPT ![h] = "rowEnd"] /\ req' = req
    BY <1>11 DEF StoreRow, Goto, HandlerOnly
  <2>2. r \in Rows /\ mission.waypoints \in [Rows -> Register(Point)]
    BY DEF RequestType, MissionType
  <2>3. /\ mission'.sequence = mission.sequence
        /\ mission'.waypoints = [mission.waypoints EXCEPT ![r] = cell]
    BY <1>11 DEF StoreRow, MissionType
  <2>4. ASSUME NEW k \in Rows, RowFilled(h, k)'
        PROVE  PendingRows'[k] = PlanRow(req'[h].ticket, req'[h].segments, k)
    <3>1. CASE k = r
      BY <2>1, <2>2, <2>3, <3>1 DEF PendingRows
    <3>2. CASE k # r
      <4>1. RowFilled(h, k)
        BY <2>1, <2>4, <3>2 DEF RowFilled
      <4>2. PendingRows[k] = PlanRow(req[h].ticket, req[h].segments, k)
        BY <2>1, <4>1 DEF MissionWriter, Filling
      <4>3. PendingRows'[k] = PendingRows[k]
        BY <2>2, <2>3, <3>2 DEF PendingRows
      <4>4. QED
        BY <2>1, <4>2, <4>3
    <3>3. QED
      BY <3>1, <3>2
  <2>5. QED
    BY <1>10, <2>1, <2>3, <2>4
<1>12. CASE StoreRowEnd(h)
  <2> DEFINE r == req[h].row
             next == IF r = MaxSegments THEN "count" ELSE "row"
  <2>1. hpc[h] = "rowEnd" /\ hpc' = [hpc EXCEPT ![h] = next]
    BY <1>12 DEF StoreRowEnd, Goto
  <2>2. /\ req'[h].ticket = req[h].ticket /\ req'[h].segments = req[h].segments
        /\ req'[h].row = IF r = MaxSegments THEN 0 ELSE r + 1
        /\ \A g \in Handlers : g # h => req'[g] = req[g]
    BY <1>12 DEF StoreRowEnd, RequestType
  <2>3. r \in 0 .. MaxSegments /\ mission.waypoints \in [Rows -> Register(Point)]
    BY DEF RequestType, MissionType, Rows
  <2>4. /\ mission'.sequence = mission.sequence
        /\ mission'.waypoints = [mission.waypoints EXCEPT
                                   ![r] = [@ EXCEPT !.storing = FALSE]]
    BY <1>12 DEF StoreRowEnd, MissionType
  <2>5. PendingRows' = PendingRows
    <3>1. \A k \in Rows : mission'.waypoints[k].val = mission.waypoints[k].val
      BY <2>3, <2>4 DEF Register
    <3>2. QED
      BY <3>1 DEF PendingRows
  <2>6. ASSUME NEW k \in Rows, RowFilled(h, k)' PROVE RowFilled(h, k)
    BY <2>1, <2>2, <2>3, <2>6, Sizes DEF RowFilled, Rows
  <2>7. \A k \in Rows : RowFilled(h, k)' =>
          PendingRows'[k] = PlanRow(req'[h].ticket, req'[h].segments, k)
    BY <2>1, <2>2, <2>5, <2>6 DEF MissionWriter, Filling
  <2>8. QED
    BY <1>10, <2>1, <2>2, <2>4, <2>7
<1>13. CASE StoreSegments(h)
  <2>1. hpc[h] = "count" /\ hpc' = [hpc EXCEPT ![h] = "close"] /\ req' = req
    BY <1>13 DEF StoreSegments, Goto, HandlerOnly
  <2>2. /\ mission'.sequence = mission.sequence
        /\ mission'.waypoints = mission.waypoints
        /\ mission'.segments = req[h].segments
    BY <1>13 DEF StoreSegments, MissionType
  <2>3. \A k \in Rows : PendingRows'[k] = PlanRow(req[h].ticket, req[h].segments, k)
    BY <2>1, <2>2 DEF MissionWriter, Filling, RowFilled, PendingRows
  <2>4. QED
    BY <1>10, <2>1, <2>2, <2>3
<1>14. CASE CloseMission(h)
  <2>1. hpc[h] = "close" /\ hpc' = [hpc EXCEPT ![h] = "pending"] /\ req' = req
    BY <1>14 DEF CloseMission, Goto
  <2>2. \A g \in Handlers : g # h => ~Filling(g)
    BY <1>w, <2>1 DEF WriterPc
  <2>3. Odd(mission.sequence)
    BY <2>1 DEF MissionWriter, Filling
  <2>4. /\ ~Odd(mission'.sequence)
        /\ mission'.waypoints = mission.waypoints
        /\ mission'.segments = mission.segments
    BY <1>14, <1>b, <2>3 DEF CloseMission
  <2>5. \A g \in Handlers : ~Filling(g)'
    BY <2>1, <2>2 DEF Filling
  <2>6. PlanIs(PendingRows, mission.segments)'
    <3>1. req[h].ticket \in staged'[Mission]
      BY <1>14 DEF CloseMission, Slots
    <3>2. mission.segments = req[h].segments /\ req[h].segments \in 1 .. MaxSegments
      BY <2>1 DEF MissionWriter, RequestType
    <3>3. \A k \in Rows :
            PendingRows'[k] = PlanRow(req[h].ticket, req[h].segments, k)
      BY <2>1, <2>4 DEF MissionWriter, Filling, RowFilled, PendingRows
    <3>4. QED
      BY <2>4, <3>1, <3>2, <3>3 DEF PlanIs
  <2>7. \A g \in Handlers : hpc'[g] \in {"lock", "version", "open"} => req'[g].row = 0
    BY <2>1 DEF MissionWriter
  <2>8. QED
    BY <2>4, <2>5, <2>6, <2>7 DEF MissionWriter, Filling
<1>15. QED
  BY <1>1, <1>2, <1>3, <1>4, <1>5, <1>6, <1>7, <1>8, <1>9, <1>11, <1>12, <1>13,
     <1>14 DEF Handler
-----------------------------------------------------------------------------
(* The transfer of a plan: the controller's side *)

(* What the controller's steps leave of the handlers' state. *)
LEMMA ControllerFrame ==
  ASSUME TypeOK, Controller
  PROVE  /\ UNCHANGED <<hpc, req, staged>>
         /\ mission'.sequence = mission.sequence
         /\ mission'.segments = mission.segments
         /\ mission'.waypoints = mission.waypoints
<1> USE DEF TypeOK
<1>1. CASE UNCHANGED mission
  <2>1. UNCHANGED <<hpc, req, staged>>
    BY DEF Controller, EfmiInit, NoEdge, RestoreParam, RestoreNothing,
           RestoreParamEnd, RestoreRoute, TakeParam, LoadParam, PutBackParam,
           ApplyParam, ApplyParamEnd, TakeMission, ReadBefore, ReadRow,
           ReadSegments, ApplyMission, RejectMission, PutBackMission, ModelStep,
           NoModelStep, handlerVars
  <2>2. QED
    BY <1>1, <2>1
<1>2. CASE TakeMission \/ PutBackMission
  BY <1>2 DEF TakeMission, PutBackMission, MissionType, handlerVars
<1>3. QED
  BY <1>1, <1>2
     DEF Controller, EfmiInit, NoEdge, RestoreParam, RestoreNothing,
         RestoreParamEnd, RestoreRoute, TakeParam, LoadParam, PutBackParam,
         ApplyParam, ApplyParamEnd, ReadBefore, ReadRow, ReadSegments,
         ApplyMission, RejectMission, ModelStep, NoModelStep, StagingUnchanged

LEMMA WriterController ==
  ASSUME TypeOK, MissionWriter, Controller
  PROVE  MissionWriter'
<1>1. \A g \in Handlers : Filling(g)' <=> Filling(g)
  BY ControllerFrame DEF Filling
<1>2. \A g \in Handlers :
        hpc'[g] \in {"lock", "version", "open"} => req'[g].row = 0
  BY ControllerFrame DEF MissionWriter
<1>3. QED
  BY <1>1, <1>2, ControllerFrame, WriterQuiet

(* What the handlers' steps leave of the controller's state. *)
LEMMA HandlerFrame ==
  ASSUME TypeOK, NEW h \in Handlers, Arrival(h) \/ Handler(h)
  PROVE  /\ UNCHANGED <<ctl, model, applied>>
         /\ staged[Mission] \subseteq staged'[Mission]
         /\ mission'.pending = mission.pending \/ FlagMission(h)
         /\ CloseMission(h) \/ \A g \in Handlers : hpc'[g] = "pending" => hpc[g] = "pending"
<1> USE DEF TypeOK
<1>1. UNCHANGED <<ctl, model, applied>>
  BY DEF Arrival, ReceiveInvalid, ReceiveParamGet, ReceiveParamSet,
         ReceiveTrajectorySet, Receive, Handler, Reply, ParamGet, TryLock, Unlock,
         StoreParam, StoreParamEnd, FlagParam, CheckVersion, OpenMission, StoreRow,
         StoreRowEnd, StoreSegments, CloseMission, FlagMission, PublishVersion,
         HandlerOnly, controllerVars
<1>2. staged[Mission] \subseteq staged'[Mission]
  <2>1. CASE StoreParamEnd(h)
    BY <2>1 DEF StoreParamEnd, Slots
  <2>2. CASE CloseMission(h)
    BY <2>2 DEF CloseMission, Slots
  <2>3. QED
    BY <2>1, <2>2
       DEF Arrival, ReceiveInvalid, ReceiveParamGet, ReceiveParamSet,
           ReceiveTrajectorySet, Receive, Handler, Reply, ParamGet, TryLock,
           Unlock, StoreParam, FlagParam, CheckVersion, OpenMission, StoreRow,
           StoreRowEnd, StoreSegments, FlagMission, PublishVersion, HandlerOnly
<1>3. mission'.pending = mission.pending \/ FlagMission(h)
  <2>1. CASE OpenMission(h) \/ CloseMission(h)
    BY <2>1 DEF OpenMission, CloseMission, BumpMissionSequence, MissionType
  <2>2. CASE StoreRow(h) \/ StoreRowEnd(h) \/ StoreSegments(h)
    BY <2>2 DEF StoreRow, StoreRowEnd, StoreSegments, MissionType
  <2>3. QED
    BY <2>1, <2>2
       DEF Arrival, ReceiveInvalid, ReceiveParamGet, ReceiveParamSet,
           ReceiveTrajectorySet, Receive, Handler, Reply, ParamGet, TryLock,
           Unlock, StoreParam, StoreParamEnd, FlagParam, CheckVersion,
           PublishVersion
<1>4. CloseMission(h) \/ \A g \in Handlers : hpc'[g] = "pending" => hpc[g] = "pending"
  <2>1. ASSUME NEW next, hpc' = [hpc EXCEPT ![h] = next], next # "pending"
        PROVE  \A g \in Handlers : hpc'[g] = "pending" => hpc[g] = "pending"
    BY <2>1
  <2>2. CASE Arrival(h)
    BY <2>1, <2>2 DEF Arrival, ReceiveInvalid, ReceiveParamGet, ReceiveParamSet,
                      ReceiveTrajectorySet, Receive
  <2>3. CASE Handler(h)
    BY <2>1, <2>3
       DEF Handler, Reply, ParamGet, TryLock, Unlock, StoreParam, StoreParamEnd,
           FlagParam, CheckVersion, OpenMission, StoreRow, StoreRowEnd,
           StoreSegments, FlagMission, PublishVersion, Goto
  <2>4. QED
    BY <2>2, <2>3
<1>5. QED
  BY <1>1, <1>2, <1>3, <1>4

(* The two halves of MissionReader. *)
PlanStaged ==
  \/ mission.pending
  \/ ctl.pc \in {"before", "rows", "segments", "after", "putBackMission"}
  \/ \E h \in Handlers : hpc[h] = "pending"
  => staged[Mission] # {}

ReadCurrent ==
  ReadingMission =>
    /\ ~Odd(ctl.before)
    /\ \/ mission.sequence = ctl.before + overlap
       \/ mission.sequence = ctl.before + overlap - SeqModulus
    /\ overlap = 0 => \A k \in Rows :
         (ctl.pc = "rows" => k < ctl.index) => ctl.rows[k] = PendingRows[k]
    /\ overlap = 0 /\ ctl.pc = "after" => ctl.segments = mission.segments

LEMMA ReaderHalves == MissionReader <=> PlanStaged /\ ReadCurrent
BY DEF MissionReader, PlanStaged, ReadCurrent

LEMMA PlanStagedStep ==
  ASSUME TypeOK, PlanStaged, [Next]_vars
  PROVE  PlanStaged'
<1> USE DEF TypeOK
<1>1. ASSUME NEW h \in Handlers, Arrival(h) \/ Handler(h) PROVE PlanStaged'
  <2>1. CASE FlagMission(h)
    <3>1. staged[Mission] # {}
      BY <2>1 DEF FlagMission, Goto, PlanStaged
    <3>2. QED
      BY <1>1, <3>1, HandlerFrame DEF PlanStaged
  <2>2. CASE CloseMission(h)
    <3>1. staged'[Mission] # {}
      BY <2>2 DEF CloseMission, Slots
    <3>2. QED
      BY <3>1 DEF PlanStaged
  <2>3. CASE ~FlagMission(h) /\ ~CloseMission(h)
    BY <1>1, <2>3, HandlerFrame DEF PlanStaged
  <2>4. QED
    BY <2>1, <2>2, <2>3
<1>2. CASE Controller
  <2>1. CASE staged[Mission] # {}
    BY <1>2, <2>1, ControllerFrame DEF PlanStaged
  <2>2. CASE /\ ~mission.pending
             /\ ctl.pc \notin {"before", "rows", "segments", "after", "putBackMission"}
             /\ \A h \in Handlers : hpc[h] # "pending"
    <3>1. ~mission'.pending
      BY <1>2, <2>2
         DEF Controller, EfmiInit, NoEdge, RestoreParam, RestoreNothing,
             RestoreParamEnd, RestoreRoute, TakeParam, LoadParam, PutBackParam,
             ApplyParam, ApplyParamEnd, TakeMission, ReadBefore, ReadRow,
             ReadSegments, ApplyMission, RejectMission, PutBackMission, ModelStep,
             NoModelStep, StagingUnchanged, At, MissionType
    <3>2. ctl'.pc \notin {"before", "rows", "segments", "after", "putBackMission"}
      BY <1>2, <2>2
         DEF Controller, EfmiInit, NoEdge, RestoreParam, RestoreNothing,
             RestoreParamEnd, RestoreRoute, TakeParam, LoadParam, PutBackParam,
             ApplyParam, ApplyParamEnd, TakeMission, ReadBefore, ReadRow,
             ReadSegments, ApplyMission, RejectMission, PutBackMission, ModelStep,
             NoModelStep, At, To, AfterEfmiInit, NextParam, LoadFailed,
             ControllerType
    <3>3. \A h \in Handlers : hpc'[h] # "pending"
      BY <1>2, <2>2, ControllerFrame
    <3>4. QED
      BY <3>1, <3>2, <3>3 DEF PlanStaged
  <2>3. QED
    BY <2>1, <2>2 DEF PlanStaged
<1>3. CASE UNCHANGED vars
  BY <1>3 DEF vars, PlanStaged
<1>4. QED
  BY <1>1, <1>2, <1>3 DEF Next

(* A bump of mission_sequence is counted.                                  *)
LEMMA BumpCounted ==
  ASSUME TypeOK, ReadCurrent, ReadingMission, BumpMissionSequence,
         UNCHANGED ctl
  PROVE  ReadCurrent'
<1>1. /\ mission.sequence \in 0 .. SeqModulus - 1
      /\ ctl.before \in 0 .. SeqModulus - 1
      /\ overlap \in 0 .. SeqModulus - 1
  BY DEF TypeOK, MissionType, ControllerType
<1>2. /\ overlap < SeqModulus - 1 /\ overlap' = overlap + 1
      /\ mission'.sequence = NextSequence(mission.sequence)
  BY DEF BumpMissionSequence, TypeOK, MissionType
<1>3. SeqModulus \in Nat /\ SeqModulus >= 4
  BY SequenceAssumption
<1>4. \/ mission.sequence = ctl.before + overlap
      \/ mission.sequence = ctl.before + overlap - SeqModulus
  BY DEF ReadCurrent
<1>5. \/ mission'.sequence = ctl.before + overlap'
      \/ mission'.sequence = ctl.before + overlap' - SeqModulus
  BY <1>1, <1>2, <1>3, <1>4 DEF NextSequence
<1>6. overlap' # 0
  BY <1>1, <1>2
<1>7. QED
  BY <1>5, <1>6 DEF ReadCurrent, Odd

(* As long as nothing was bumped, nobody fills the plan being read.        *)
LEMMA NotFillingUnlessBumped ==
  ASSUME TypeOK, MissionWriter, ReadCurrent, ReadingMission, overlap = 0
  PROVE  ~Odd(mission.sequence) /\ \A h \in Handlers : ~Filling(h)
<1>1. /\ mission.sequence \in 0 .. SeqModulus - 1
      /\ ctl.before \in 0 .. SeqModulus - 1
  BY DEF TypeOK, MissionType, ControllerType
<1>2. SeqModulus \in Nat
  BY SequenceAssumption
<1>3. mission.sequence = ctl.before
  BY <1>1, <1>2 DEF ReadCurrent
<1>4. QED
  BY <1>3 DEF ReadCurrent, MissionWriter

LEMMA ReadCurrentHandler ==
  ASSUME TypeOK, MissionWriter, ReadCurrent, NEW h \in Handlers,
         Arrival(h) \/ Handler(h)
  PROVE  ReadCurrent'
<1> USE DEF TypeOK
<1>1. UNCHANGED ctl
  BY HandlerFrame
<1>2. CASE ~ReadingMission
  BY <1>1, <1>2 DEF ReadCurrent, ReadingMission
<1>3. CASE ReadingMission
  <2>1. CASE OpenMission(h) \/ CloseMission(h)
    BY <1>1, <1>3, <2>1, BumpCounted DEF OpenMission, CloseMission
  <2>2. ASSUME mission'.sequence = mission.sequence, overlap' = overlap,
               overlap = 0 => UNCHANGED <<PendingRows, mission.segments>>
        PROVE  ReadCurrent'
    BY <1>1, <2>2 DEF ReadCurrent, ReadingMission, Odd
  <2>3. CASE StoreRow(h) \/ StoreRowEnd(h) \/ StoreSegments(h)
    <3>1. Filling(h)
      BY <2>3 DEF StoreRow, StoreRowEnd, StoreSegments, Goto, Filling
    <3>2. overlap # 0
      BY <1>3, <3>1, NotFillingUnlessBumped
    <3>3. mission'.sequence = mission.sequence /\ overlap' = overlap
      BY <2>3 DEF StoreRow, StoreRowEnd, StoreSegments, HandlerOnly, MissionType
    <3>4. QED
      BY <2>2, <3>2, <3>3
  <2>4. CASE FlagMission(h)
    <3>1. /\ mission'.sequence = mission.sequence
          /\ mission'.segments = mission.segments
          /\ mission'.waypoints = mission.waypoints /\ overlap' = overlap
      BY <2>4 DEF FlagMission, HandlerOnly, MissionType
    <3>2. QED
      BY <2>2, <3>1 DEF PendingRows
  <2>5. CASE UNCHANGED <<mission, overlap>>
    BY <2>2, <2>5 DEF PendingRows
  <2>6. QED
    BY <2>1, <2>3, <2>4, <2>5
       DEF Arrival, ReceiveInvalid, ReceiveParamGet, ReceiveParamSet,
           ReceiveTrajectorySet, Receive, Handler, Reply, ParamGet, TryLock,
           Unlock, StoreParam, StoreParamEnd, FlagParam, CheckVersion,
           PublishVersion, HandlerOnly
<1>4. QED
  BY <1>2, <1>3

LEMMA ReadCurrentController ==
  ASSUME TypeOK, ReadCurrent, Controller
  PROVE  ReadCurrent'
<1> USE DEF TypeOK
<1>1. PendingRows' = PendingRows
  BY ControllerFrame DEF PendingRows
<1>2. CASE ReadBefore
  <2>1. ctl'.before = mission.sequence /\ overlap' = 0
    BY <1>2 DEF ReadBefore, BeingFilled, ControllerType, Incomplete, To
  <2>2. CASE Odd(mission.sequence)
    BY <1>2, <2>2 DEF ReadBefore, BeingFilled, Incomplete, To, ControllerType, ReadCurrent,
                      ReadingMission
  <2>3. CASE ~Odd(mission.sequence)
    <3>1. ctl'.pc = "rows" /\ ctl'.index = 0
      BY <1>2, <2>3 DEF ReadBefore, BeingFilled, To, ControllerType
    <3>2. mission.sequence = ctl'.before + overlap'
      BY <2>1 DEF MissionType
    <3>3. \A k \in Rows : ~(k < ctl'.index)
      BY <3>1 DEF Rows
    <3>4. QED
      BY <2>1, <2>3, <3>1, <3>2, <3>3, ControllerFrame DEF ReadCurrent, Odd
  <2>4. QED
    BY <2>2, <2>3
<1>3. CASE ReadRow
  <2> DEFINE k == ctl.index
  <2>1. /\ ctl.pc = "rows" /\ k \in Rows /\ overlap' = overlap
        /\ mission.waypoints \in [Rows -> Register(Point)]
    BY <1>3 DEF ReadRow, At, MissionType
  <2>2. CASE ~Loadable(mission.waypoints[k])
    BY <1>3, <2>2 DEF ReadRow, Incomplete, To, ControllerType, ReadCurrent,
                      ReadingMission
  <2>3. CASE Loadable(mission.waypoints[k])
    <3>1. /\ ctl'.before = ctl.before
          /\ ctl'.rows = [ctl.rows EXCEPT ![k] = mission.waypoints[k].val]
          /\ \/ ctl'.pc = "rows" /\ k < MaxSegments /\ ctl'.index = k + 1
             \/ ctl'.pc = "segments" /\ ~(k < MaxSegments)
      BY <1>3, <2>3 DEF ReadRow, To, ControllerType
    <3>2. ASSUME overlap = 0, NEW j \in Rows, ctl'.pc = "rows" => j < ctl'.index
          PROVE  ctl'.rows[j] = PendingRows[j]
      <4>1. ctl.rows \in [Rows -> Point]
        BY DEF ControllerType
      <4>2. CASE j = k
        BY <2>1, <3>1, <4>1, <4>2 DEF PendingRows
      <4>3. CASE j # k
        <5>1. j < k
          BY <2>1, <3>1, <3>2, <4>3, Sizes DEF Rows
        <5>2. ctl.rows[j] = PendingRows[j]
          BY <2>1, <3>2, <5>1 DEF ReadCurrent, ReadingMission
        <5>3. QED
          BY <3>1, <4>1, <4>3, <5>2
      <4>4. QED
        BY <4>2, <4>3
    <3>3. ReadingMission
      BY <2>1 DEF ReadingMission
    <3>4. QED
      BY <1>1, <2>1, <3>1, <3>2, <3>3, ControllerFrame DEF ReadCurrent, Odd
  <2>4. QED
    BY <2>2, <2>3
<1>4. CASE ReadSegments
  <2>1. /\ ctl.pc = "segments" /\ ctl'.pc = "after" /\ overlap' = overlap
        /\ ctl'.before = ctl.before /\ ctl'.rows = ctl.rows
        /\ ctl'.segments = mission.segments
    BY <1>4 DEF ReadSegments, At, To, ControllerType
  <2>2. QED
    BY <1>1, <2>1, ControllerFrame DEF ReadCurrent, ReadingMission, Odd
<1>5. CASE ~ReadBefore /\ ~ReadRow /\ ~ReadSegments
  <2>1. ctl'.pc \notin {"rows", "segments", "after"}
    BY <1>5
       DEF Controller, EfmiInit, NoEdge, RestoreParam, RestoreNothing,
           RestoreParamEnd, RestoreRoute, TakeParam, LoadParam, PutBackParam,
           ApplyParam, ApplyParamEnd, TakeMission, ApplyMission, RejectMission,
           PutBackMission, ModelStep, NoModelStep, At, To, AfterEfmiInit,
           NextParam, LoadFailed, Incomplete, EndOfApply, ControllerType
  <2>2. QED
    BY <2>1 DEF ReadCurrent, ReadingMission
<1>6. QED
  BY <1>2, <1>3, <1>4, <1>5

-----------------------------------------------------------------------------
(* Only whole plans are applied *)

(* A route made of a whole plan is one of those NoMixedRoute names.        *)
LEMMA WholeRoute ==
  ASSUME NEW w, NEW n, PlanIs(w, n)
  PROVE  \E t \in staged[Mission], m \in 1 .. MaxSegments :
           Route(w, n) = Route([k \in Rows |-> PlanRow(t, m, k)], m)
<1>1. PICK t \in staged[Mission] :
        n \in 1 .. MaxSegments /\ \A k \in Rows : w[k] = PlanRow(t, n, k)
  BY DEF PlanIs
<1>2. \A k \in Rows : Lower(k, n) \in Rows
  BY <1>1, Sizes DEF Lower, Rows
<1>3. \A k \in Rows : w[Lower(k, n)] = [j \in Rows |-> PlanRow(t, n, j)][Lower(k, n)]
  BY <1>1, <1>2
<1>4. Route(w, n) = Route([k \in Rows |-> PlanRow(t, n, k)], n)
  BY <1>3 DEF Route
<1>5. QED
  BY <1>1, <1>4

(* A step that stages more, and leaves the model's route alone.            *)
LEMMA RouteQuiet ==
  ASSUME NoMixedRoute, staged[Mission] \subseteq staged'[Mission],
         model'.route = model.route, model'.guidance_route = model.guidance_route
  PROVE  NoMixedRoute'
BY DEF NoMixedRoute

LEMMA AppliedQuiet ==
  ASSUME AppliedWhole, staged[Mission] \subseteq staged'[Mission],
         applied'.waypoints = applied.waypoints,
         applied'.segments = applied.segments, applied'.mission = applied.mission
  PROVE  AppliedWhole'
BY DEF AppliedWhole, PlanIs

(* What the controller has read without an overlap is a plan staged whole. *)
LEMMA WholeIsPlan ==
  ASSUME TypeOK, MissionWriter, PlanStaged, ReadCurrent, ApplyMission
  PROVE  PlanIs(ctl.rows, ctl.segments)
<1> USE DEF TypeOK
<1>1. /\ mission.sequence \in 0 .. SeqModulus - 1
      /\ ctl.before \in 0 .. SeqModulus - 1
      /\ overlap \in 0 .. SeqModulus - 1
  BY DEF MissionType, ControllerType
<1>2. SeqModulus \in Nat /\ ctl.pc = "after" /\ ctl.before = mission.sequence
  BY SequenceAssumption DEF ApplyMission, At, Whole
<1>3. ReadingMission
  BY <1>2 DEF ReadingMission
<1>4. overlap = 0
  BY <1>1, <1>2, <1>3 DEF ReadCurrent
<1>5. ~Odd(mission.sequence)
  BY <1>3, <1>4, NotFillingUnlessBumped
<1>6. staged[Mission] # {}
  BY <1>2 DEF PlanStaged
<1>7. PlanIs(PendingRows, mission.segments)
  BY <1>5, <1>6 DEF MissionWriter
<1>8. /\ \A k \in Rows : ctl.rows[k] = PendingRows[k]
      /\ ctl.segments = mission.segments
  BY <1>2, <1>3, <1>4 DEF ReadCurrent
<1>9. QED
  BY <1>7, <1>8 DEF PlanIs

(* apply_route replaces both copies of the route by a whole plan.          *)
LEMMA WithRouteWhole ==
  ASSUME TypeOK, NEW w, NEW n, PlanIs(w, n), model' = WithRoute(model, w, n),
         staged'[Mission] = staged[Mission]
  PROVE  NoMixedRoute'
<1>1. model'.route = Route(w, n) /\ model'.guidance_route = Route(w, n)
  BY DEF WithRoute, TypeOK, ModelType
<1>2. QED
  BY <1>1, WholeRoute DEF NoMixedRoute

LEMMA ApplyStep ==
  ASSUME TypeOK, MissionInv, PlanStaged, ReadCurrent, Controller
  PROVE  AppliedWhole' /\ NoMixedRoute'
<1> USE DEF TypeOK, MissionInv
<1>1. staged' = staged
  BY ControllerFrame
<1>2. CASE ApplyMission
  <2>1. PlanIs(ctl.rows, ctl.segments)
    BY <1>2, WholeIsPlan
  <2>2. applied'.waypoints = ctl.rows /\ applied'.segments = ctl.segments
    BY <1>2 DEF ApplyMission, AppliedType
  <2>3. AppliedWhole'
    BY <1>1, <2>1, <2>2 DEF AppliedWhole, PlanIs
  <2>4. NoMixedRoute'
    BY <1>1, <1>2, <2>1, WithRouteWhole DEF ApplyMission
  <2>5. QED
    BY <2>3, <2>4
<1>3. CASE RestoreRoute
  <2>1. applied' = applied
    BY <1>3 DEF RestoreRoute
  <2>2. AppliedWhole'
    BY <1>1, <2>1, AppliedQuiet
  <2>3. CASE applied.mission
    <3>1. PlanIs(applied.waypoints, applied.segments)
      BY <2>3 DEF AppliedWhole
    <3>2. QED
      BY <1>1, <1>3, <2>2, <2>3, <3>1, WithRouteWhole DEF RestoreRoute
  <2>4. CASE ~applied.mission
    BY <1>1, <1>3, <2>2, <2>4, RouteQuiet DEF RestoreRoute
  <2>5. QED
    BY <2>3, <2>4
<1>4. CASE EfmiInit
  <2>1. AppliedWhole'
    BY <1>1, <1>4, AppliedQuiet DEF EfmiInit
  <2>2. NoMixedRoute'
    BY <1>4 DEF EfmiInit, InitialModel, NoMixedRoute
  <2>3. QED
    BY <2>1, <2>2
<1>5. CASE RestoreParam \/ ApplyParam \/ ModelStep
  <2>1. model'.route = model.route /\ model'.guidance_route = model.guidance_route
    BY <1>5 DEF RestoreParam, ApplyParam, ModelStep, ApplyValue, WithValue,
                ModelType
  <2>2. applied' = applied
    BY <1>5 DEF RestoreParam, ApplyParam, ModelStep
  <2>3. QED
    BY <1>1, <2>1, <2>2, RouteQuiet, AppliedQuiet
<1>6. CASE ApplyParamEnd
  <2>1. /\ model' = model
        /\ applied'.waypoints = applied.waypoints
        /\ applied'.segments = applied.segments
        /\ applied'.mission = applied.mission
    BY <1>6 DEF ApplyParamEnd, WithApplied, AppliedType
  <2>2. QED
    BY <1>1, <2>1, RouteQuiet, AppliedQuiet
<1>7. CASE UNCHANGED <<model, applied>>
  BY <1>1, <1>7, RouteQuiet, AppliedQuiet
<1>8. QED
  BY <1>2, <1>3, <1>4, <1>5, <1>6, <1>7
     DEF Controller, NoEdge, RestoreNothing, RestoreParamEnd, TakeParam,
         LoadParam, PutBackParam, TakeMission, ReadBefore, ReadRow, ReadSegments,
         RejectMission, PutBackMission, NoModelStep

LEMMA MissionStep ==
  ASSUME TypeOK, OneWriter, MissionInv, [Next]_vars
  PROVE  MissionInv'
<1>1. PlanStaged /\ ReadCurrent
  BY ReaderHalves DEF MissionInv
<1>2. PlanStaged'
  BY <1>1, PlanStagedStep
<1>3. ASSUME NEW h \in Handlers, Arrival(h) \/ Handler(h) PROVE MissionInv'
  <2>1. MissionWriter'
    BY <1>3, WriterHandler DEF MissionInv
  <2>2. MissionReader'
    BY <1>1, <1>2, <1>3, ReadCurrentHandler, ReaderHalves
       DEF MissionInv, MissionReader, PlanStaged, ReadCurrent
  <2>3. AppliedWhole' /\ NoMixedRoute'
    BY <1>3, HandlerFrame, RouteQuiet, AppliedQuiet DEF MissionInv
  <2>4. QED
    BY <2>1, <2>2, <2>3 DEF MissionInv
<1>4. CASE Controller
  <2>1. MissionWriter'
    BY <1>4, WriterController DEF MissionInv
  <2>2. MissionReader'
    BY <1>1, <1>2, <1>4, ReadCurrentController
       DEF MissionReader, PlanStaged, ReadCurrent
  <2>3. QED
    BY <1>1, <1>4, <2>1, <2>2, ApplyStep DEF MissionInv
<1>5. CASE UNCHANGED vars
  BY <1>5 DEF vars, MissionInv, MissionWriter, MissionReader, AppliedWhole,
              NoMixedRoute, PlanIs, PendingRows, Filling, RowFilled,
              ReadingMission, Odd
<1>6. QED
  BY <1>3, <1>4, <1>5 DEF Next

LEMMA MissionInit == Init => MissionInv
<1> SUFFICES ASSUME Init PROVE MissionInv
  OBVIOUS
<1>1. MissionWriter
  BY DEF Init, MissionWriter, Odd, Filling, Slots, NoRequest
<1>2. MissionReader
  BY DEF Init, MissionReader, ReadingMission
<1>3. AppliedWhole /\ NoMixedRoute
  BY DEF Init, AppliedWhole, NoMixedRoute, InitialModel
<1>4. QED
  BY <1>1, <1>2, <1>3 DEF MissionInv

(* The transfer of a plan from trajectory_set to the model: the pending    *)
(* plan is whole while mission_sequence is even, and the controller knows  *)
(* of every bump while it reads.                                           *)
THEOREM MissionTransfer == Spec => []MissionInv
<1>1. QED
  BY MissionInit, TypeCorrect, WritersExclude, MissionStep, PTL DEF Spec

(* Hence the model never steps along a route mixed of two plans.           *)
THEOREM RoutesAreWhole == Spec => []NoMixedRoute
<1>1. MissionInv => NoMixedRoute
  BY DEF MissionInv
<1>2. QED
  BY <1>1, MissionTransfer, PTL

-----------------------------------------------------------------------------
(* The active leg lies in the plan being flown *)

(* apply_route clamps the leg to the new plan, whatever its length.        *)
LEMMA LegClamped ==
  ASSUME NEW m \in ModelType, NEW w, NEW n \in 1 .. MaxSegments,
         model' = WithRoute(m, w, n)
  PROVE  ActiveLegValid'
<1> DEFINE l == Clamp(m.leg.currentWaypoint, 1, n)
<1>1. m.leg.currentWaypoint \in Nat
  BY DEF ModelType, LegType
<1>2. l \in 1 .. n
  BY <1>1, Sizes DEF Clamp
<1>3. model'.guidance_route.segments = n /\ model'.leg = AllLegs(l)
  BY DEF WithRoute, Route, LegWithin, ModelType
<1>4. QED
  BY <1>2, <1>3 DEF ActiveLegValid

LEMMA LegStep ==
  ASSUME TypeOK, MissionInv, ActiveLegValid, [Next]_vars
  PROVE  ActiveLegValid'
<1> USE DEF TypeOK
<1>1. ASSUME model'.guidance_route = model.guidance_route, model'.leg = model.leg
      PROVE  ActiveLegValid'
  BY <1>1 DEF ActiveLegValid
<1>2. ASSUME NEW h \in Handlers, Arrival(h) \/ Handler(h) PROVE ActiveLegValid'
  BY <1>1, <1>2, HandlerFrame
<1>3. CASE ApplyMission
  <2>1. PlanIs(ctl.rows, ctl.segments)
    BY <1>3, WholeIsPlan, ReaderHalves DEF MissionInv
  <2>2. ctl.segments \in 1 .. MaxSegments
    BY <2>1 DEF PlanIs
  <2>3. QED
    BY <1>3, <2>2, LegClamped DEF ApplyMission
<1>4. CASE RestoreRoute
  <2>1. CASE applied.mission
    <3>1. applied.segments \in 1 .. MaxSegments
      BY <2>1 DEF MissionInv, AppliedWhole, PlanIs
    <3>2. QED
      BY <1>4, <2>1, <3>1, LegClamped DEF RestoreRoute
  <2>2. CASE ~applied.mission
    BY <1>1, <1>4, <2>2 DEF RestoreRoute
  <2>3. QED
    BY <2>1, <2>2
<1>5. CASE EfmiInit
  <2>1. model' = InitialModel
    BY <1>5 DEF EfmiInit
  <2>2. QED
    BY <2>1, Sizes DEF ActiveLegValid, InitialModel, DefaultRoute, Route
<1>6. CASE ModelStep
  <2>1. PICK l \in 1 .. model.guidance_route.segments :
          model' = [model EXCEPT !.leg = AllLegs(l)]
    BY <1>6 DEF ModelStep
  <2>2. model'.guidance_route = model.guidance_route /\ model'.leg = AllLegs(l)
    BY <2>1 DEF ModelType
  <2>3. QED
    BY <2>2 DEF ActiveLegValid
<1>7. CASE RestoreParam \/ ApplyParam
  BY <1>1, <1>7 DEF RestoreParam, ApplyParam, ApplyValue, WithValue, ModelType
<1>8. CASE UNCHANGED model
  BY <1>1, <1>8
<1>9. QED
  BY <1>2, <1>3, <1>4, <1>5, <1>6, <1>7, <1>8
     DEF Next, vars, Controller, NoEdge, RestoreNothing, RestoreParamEnd,
         TakeParam, LoadParam, PutBackParam, ApplyParamEnd, TakeMission,
         ReadBefore, ReadRow, ReadSegments, RejectMission, PutBackMission,
         NoModelStep

(* Every copy of the active leg is a leg of the plan being flown, however  *)
(* short the plan that replaced the one the leg was counted in.            *)
THEOREM LegsAreValid == Spec => []ActiveLegValid
<1>1. Init => ActiveLegValid
  BY Sizes DEF Init, ActiveLegValid, InitialModel, DefaultRoute, Route
<1>2. QED
  BY <1>1, TypeCorrect, MissionTransfer, LegStep, PTL DEF Spec

-----------------------------------------------------------------------------
(* Conditional replacement of a plan *)

(* What was compared under command_writer still holds at the publication.  *)
Compared(h) ==
  hpc[h] \in {"open", "row", "rowEnd", "count", "close", "pending", "publish"}
VersionHeld ==
  \A h \in Handlers : Compared(h) =>
    req[h].version = plan_version /\ VersionMatches(h)

(* A request that arrives moves its own handler only.                      *)
LEMMA ArrivalMoves ==
  ASSUME TypeOK, NEW h \in Handlers, Arrival(h)
  PROVE  /\ hpc[h] = "idle" /\ plan_version' = plan_version
         /\ \E next \in {"Denied", "get", "lock"} : hpc' = [hpc EXCEPT ![h] = next]
         /\ \A g \in Handlers : g # h => req'[g] = req[g]
<1> DEFINE Moves ==
      /\ hpc[h] = "idle" /\ plan_version' = plan_version
      /\ \E next \in {"Denied", "get", "lock"} : hpc' = [hpc EXCEPT ![h] = next]
      /\ \A g \in Handlers : g # h => req'[g] = req[g]
<1>1. ASSUME NEW r, NEW next \in {"Denied", "get", "lock"}, Receive(h, r, next)
      PROVE  Moves
  BY <1>1 DEF Receive, TypeOK
<1> HIDE DEF Moves
<1>2. ASSUME ReceiveInvalid(h) PROVE Moves
  BY <1>1, <1>2 DEF ReceiveInvalid
<1>3. ASSUME NEW i \in Params, ReceiveParamGet(h, i) PROVE Moves
  BY <1>1, <1>3 DEF ReceiveParamGet
<1>4. ASSUME NEW i \in Params, ReceiveParamSet(h, i) PROVE Moves
  BY <1>1, <1>4 DEF ReceiveParamSet
<1>5. ASSUME NEW n, NEW e, ReceiveTrajectorySet(h, n, e) PROVE Moves
  BY <1>1, <1>5 DEF ReceiveTrajectorySet
<1>6. Moves
  BY <1>2, <1>3, <1>4, <1>5 DEF Arrival
<1>7. QED
  BY <1>6 DEF Moves

LEMMA HandlerMoves ==
  ASSUME NEW h \in Handlers, Handler(h)
  PROVE  \E next : hpc' = [hpc EXCEPT ![h] = next]
BY DEF Handler, Reply, ParamGet, TryLock, Unlock, StoreParam, StoreParamEnd,
       FlagParam, CheckVersion, OpenMission, StoreRow, StoreRowEnd, StoreSegments,
       CloseMission, FlagMission, PublishVersion, Goto

LEMMA VersionStep ==
  ASSUME TypeOK, OneWriter, VersionHeld, [Next]_vars
  PROVE  VersionHeld'
<1> USE DEF TypeOK
<1>1. ASSUME plan_version' = plan_version,
             \A g \in Handlers : Compared(g)' =>
               /\ Compared(g)
               /\ req'[g].version = req[g].version
               /\ req'[g].expected = req[g].expected
      PROVE  VersionHeld'
  BY <1>1 DEF VersionHeld, VersionMatches
<1>2. ASSUME NEW h \in Handlers, Arrival(h) \/ Handler(h) PROVE VersionHeld'
  <2>q. ASSUME NEW next, hpc' = [hpc EXCEPT ![h] = next],
               plan_version' = plan_version,
               \A g \in Handlers : g # h => req'[g] = req[g],
               \/ next \notin {"open", "row", "rowEnd", "count", "close",
                               "pending", "publish"}
               \/ /\ Compared(h)
                  /\ req'[h].version = req[h].version
                  /\ req'[h].expected = req[h].expected
        PROVE  VersionHeld'
    BY <1>1, <2>q DEF Compared
  <2>1. CASE Arrival(h)
    BY <2>q, <2>1, ArrivalMoves
  <2>2. CASE Reply(h) \/ ParamGet(h) \/ TryLock(h) \/ Unlock(h)
    BY <2>q, <2>2 DEF Reply, ParamGet, TryLock, Unlock, Goto, HandlerOnly
  <2>3. CASE StoreParam(h) \/ StoreParamEnd(h) \/ FlagParam(h)
    BY <2>q, <2>3 DEF StoreParam, StoreParamEnd, FlagParam, Goto, HandlerOnly
  <2>4. CASE CheckVersion(h)
    <3>1. /\ req' = [req EXCEPT ![h].version = plan_version]
          /\ plan_version' = plan_version
          /\ hpc' = [hpc EXCEPT ![h] = IF VersionMatches(h) THEN "open" ELSE "reject"]
      BY <2>4 DEF CheckVersion, Goto
    <3>2. CASE VersionMatches(h)
      <4>1. ASSUME NEW g \in Handlers, g # h, Compared(g)' PROVE Compared(g)
        BY <3>1, <4>1 DEF Compared
      <4>2. /\ req'[h].version = plan_version
            /\ req'[h].expected = req[h].expected
        BY <3>1 DEF RequestType
      <4>3. \A g \in Handlers : g # h => req'[g] = req[g]
        BY <3>1
      <4>4. QED
        BY <3>1, <3>2, <4>1, <4>2, <4>3 DEF VersionHeld, VersionMatches
    <3>3. CASE ~VersionMatches(h)
      BY <2>q, <3>1, <3>3
    <3>4. QED
      BY <3>2, <3>3
  <2>5. CASE OpenMission(h) \/ StoreRowEnd(h)
    <3>1. Compared(h) /\ plan_version' = plan_version
      BY <2>5 DEF OpenMission, StoreRowEnd, Goto, Compared
    <3>2. /\ \A g \in Handlers : g # h => req'[g] = req[g]
          /\ req'[h].version = req[h].version
          /\ req'[h].expected = req[h].expected
      BY <2>5 DEF OpenMission, StoreRowEnd, RequestType
    <3>3. \E next : hpc' = [hpc EXCEPT ![h] = next]
      BY <2>5 DEF OpenMission, StoreRowEnd, Goto
    <3>4. QED
      BY <2>q, <3>1, <3>2, <3>3
  <2>6. CASE \/ StoreRow(h) \/ StoreSegments(h) \/ CloseMission(h)
             \/ FlagMission(h)
    <3>1. Compared(h) /\ plan_version' = plan_version /\ req' = req
      BY <2>6 DEF StoreRow, StoreSegments, CloseMission, FlagMission, Goto,
                  Compared, HandlerOnly
    <3>2. \E next : hpc' = [hpc EXCEPT ![h] = next]
      BY <2>6 DEF StoreRow, StoreSegments, CloseMission, FlagMission, Goto
    <3>3. QED
      BY <2>q, <3>1, <3>2
  <2>7. CASE PublishVersion(h)
    <3>1. \A g \in Handlers : g # h => ~Compared(g)
      BY <2>7 DEF PublishVersion, Goto, OneWriter, Writing, WriterPc, Compared
    <3>2. \A g \in Handlers : ~Compared(g)'
      BY <2>7, <3>1 DEF PublishVersion, Goto, Compared
    <3>3. QED
      BY <3>2 DEF VersionHeld
  <2>8. QED
    BY <1>2, <2>1, <2>2, <2>3, <2>4, <2>5, <2>6, <2>7 DEF Handler
<1>3. ASSUME UNCHANGED <<plan_version, hpc, req>> PROVE VersionHeld'
  BY <1>1, <1>3 DEF Compared
<1>4. CASE Controller
  BY <1>3, <1>4
     DEF Controller, EfmiInit, NoEdge, RestoreParam, RestoreNothing,
         RestoreParamEnd, RestoreRoute, TakeParam, LoadParam, PutBackParam,
         ApplyParam, ApplyParamEnd, TakeMission, ReadBefore, ReadRow,
         ReadSegments, ApplyMission, RejectMission, PutBackMission, ModelStep,
         NoModelStep, StagingUnchanged, handlerVars
<1>5. QED
  BY <1>2, <1>3, <1>4 DEF Next, vars

(* The version an accepted plan replaces is the one its request named, and *)
(* is never the one it publishes.                                          *)
THEOREM PlanSetIsConditional == Spec => ConditionalPlanSet
<1>1. Init => VersionHeld
  BY DEF Init, VersionHeld, Compared
<1>2. ASSUME TypeOK, VersionHeld, [Next]_vars,
             NEW h \in Handlers, hpc[h] = "publish", hpc'[h] # "publish"
      PROVE  /\ req[h].expected \in {0, plan_version}
             /\ plan_version' \notin {0, plan_version}
  <2> USE DEF TypeOK
  <2>1. req[h].version = plan_version /\ req[h].expected \in {0, plan_version}
    BY <1>2 DEF VersionHeld, Compared, VersionMatches
  <2>2. PublishVersion(h)
    <3>1. ASSUME NEW g \in Handlers, Arrival(g) \/ Handler(g) PROVE g = h
      <4>1. PICK next : hpc' = [hpc EXCEPT ![g] = next]
        BY <1>2, <3>1, ArrivalMoves, HandlerMoves
      <4>2. QED
        BY <1>2, <4>1
    <3>2. ~Controller
      BY <1>2, ControllerFrame
    <3>3. Handler(h)
      BY <1>2, <3>1, <3>2, ArrivalMoves DEF Next, vars
    <3>4. QED
      BY <1>2, <3>3
         DEF Handler, Reply, ParamGet, TryLock, Unlock, StoreParam,
             StoreParamEnd, FlagParam, CheckVersion, OpenMission, StoreRow,
             StoreRowEnd, StoreSegments, CloseMission, FlagMission, Goto
  <2>3. plan_version' = NextVersion(plan_version)
    BY <2>1, <2>2 DEF PublishVersion
  <2>4. /\ VersionModulus \in Nat /\ VersionModulus >= 3
        /\ plan_version \in 1 .. VersionModulus - 1
    BY <1>2, Sizes
  <2>5. plan_version' # 0 /\ plan_version' # plan_version
    BY <2>3, <2>4 DEF NextVersion
  <2>6. QED
    BY <2>1, <2>5
<1>3. TypeOK /\ VersionHeld /\ [Next]_vars =>
        [\A h \in Handlers :
           hpc[h] = "publish" /\ hpc'[h] # "publish" =>
             /\ req[h].expected \in {0, plan_version}
             /\ plan_version' \notin {0, plan_version}]_vars
  BY <1>2
<1>4. QED
  BY <1>1, <1>3, TypeCorrect, WritersExclude, VersionStep, PTL
     DEF Spec, ConditionalPlanSet

-----------------------------------------------------------------------------
(***************************************************************************)
(* Parameters.  A parameter's way from param_set to the model: it is not   *)
(* lost, a step of the model sees what was applied last, EFMI_INIT or not, *)
(* and param_get never goes back.                                          *)
(***************************************************************************)

(* The handlers' side *)

(* The handlers only add to what is staged, and number it upwards.         *)
LEMMA HandlerParamFrame ==
  ASSUME TypeOK, ParamWriter, NEW h \in Handlers, Arrival(h) \/ Handler(h)
  PROVE  /\ UNCHANGED <<ctl, model, applied, live_values>>
         /\ \A i \in Params :
              /\ staged[i] \subseteq staged'[i]
              /\ pending_values[i].val <= pending_values'[i].val
              /\ pending_value_set[i] => pending_value_set'[i]
<1> USE DEF TypeOK
<1>1. UNCHANGED live_values
  BY DEF Arrival, ReceiveInvalid, ReceiveParamGet, ReceiveParamSet,
         ReceiveTrajectorySet, Receive, Handler, Reply, ParamGet, TryLock, Unlock,
         StoreParam, StoreParamEnd, FlagParam, CheckVersion, OpenMission, StoreRow,
         StoreRowEnd, StoreSegments, CloseMission, FlagMission, PublishVersion,
         HandlerOnly
<1>2. ASSUME NEW i \in Params PROVE staged[i] \subseteq staged'[i]
  <2>1. CASE StoreParamEnd(h)
    BY <2>1 DEF StoreParamEnd, Slots
  <2>2. CASE CloseMission(h)
    BY <2>2 DEF CloseMission, Slots
  <2>3. QED
    BY <2>1, <2>2
       DEF Arrival, ReceiveInvalid, ReceiveParamGet, ReceiveParamSet,
           ReceiveTrajectorySet, Receive, Handler, Reply, ParamGet, TryLock,
           Unlock, StoreParam, FlagParam, CheckVersion, OpenMission, StoreRow,
           StoreRowEnd, StoreSegments, FlagMission, PublishVersion, HandlerOnly
<1>3. ASSUME NEW i \in Params
      PROVE  pending_values[i].val <= pending_values'[i].val
  <2>1. pending_values[i].val \in Nat /\ ticket \in Nat
    BY DEF Register
  <2>2. CASE StoreParam(h)
    <3>1. pending_values[i].val <= ticket
      BY DEF ParamWriter
    <3>2. QED
      BY <2>1, <2>2, <3>1 DEF StoreParam
  <2>3. CASE StoreParamEnd(h)
    BY <2>1, <2>3 DEF StoreParamEnd, Register
  <2>4. CASE UNCHANGED pending_values
    BY <2>1, <2>4
  <2>5. QED
    BY <2>2, <2>3, <2>4
       DEF Arrival, ReceiveInvalid, ReceiveParamGet, ReceiveParamSet,
           ReceiveTrajectorySet, Receive, Handler, Reply, ParamGet, TryLock,
           Unlock, FlagParam, CheckVersion, OpenMission, StoreRow, StoreRowEnd,
           StoreSegments, CloseMission, FlagMission, PublishVersion
<1>4. ASSUME NEW i \in Params, pending_value_set[i] PROVE pending_value_set'[i]
  <2>1. CASE FlagParam(h)
    BY <1>4, <2>1 DEF FlagParam
  <2>2. CASE UNCHANGED pending_value_set
    BY <1>4, <2>2
  <2>3. QED
    BY <2>1, <2>2
       DEF Arrival, ReceiveInvalid, ReceiveParamGet, ReceiveParamSet,
           ReceiveTrajectorySet, Receive, Handler, Reply, ParamGet, TryLock,
           Unlock, StoreParam, StoreParamEnd, CheckVersion, OpenMission, StoreRow,
           StoreRowEnd, StoreSegments, CloseMission, FlagMission, PublishVersion
<1>5. QED
  BY <1>1, <1>2, <1>3, <1>4, HandlerFrame

(* A step that stores no parameter. *)
LEMMA ParamWriterQuiet ==
  ASSUME TypeOK, ParamWriter, pending_values' = pending_values,
         \A i \in Params : staged'[i] = staged[i],
         ticket' \in Nat, ticket <= ticket',
         \A g \in Handlers : hpc'[g] = "storing" =>
           hpc[g] = "storing" /\ req'[g] = req[g]
  PROVE  ParamWriter'
<1>1. ticket \in Nat /\ \A i \in Params : pending_values[i].val \in Nat
  BY DEF TypeOK, Register
<1>2. QED
  BY <1>1 DEF ParamWriter

LEMMA ParamWriterHandler ==
  ASSUME TypeOK, OneWriter, ParamWriter, NEW h \in Handlers,
         Arrival(h) \/ Handler(h)
  PROVE  ParamWriter'
<1> USE DEF TypeOK
<1>q. ASSUME NEW next, hpc' = [hpc EXCEPT ![h] = next], next # "storing",
             pending_values' = pending_values,
             \A i \in Params : staged'[i] = staged[i],
             ticket' = ticket \/ ticket' = ticket + 1,
             \A g \in Handlers : g # h => req'[g] = req[g]
      PROVE  ParamWriter'
  <2>1. \A g \in Handlers : hpc'[g] = "storing" =>
          hpc[g] = "storing" /\ req'[g] = req[g]
    BY <1>q
  <2>2. ticket' \in Nat /\ ticket <= ticket'
    BY <1>q
  <2>3. QED
    BY <1>q, <2>1, <2>2, ParamWriterQuiet
<1>1. CASE Arrival(h)
  BY <1>q, <1>1 DEF Arrival, ReceiveInvalid, ReceiveParamGet, ReceiveParamSet,
                    ReceiveTrajectorySet, Receive
<1>2. CASE StoreParam(h)
  <2> DEFINE i == req[h].param
  <2>1. /\ hpc[h] = "store" /\ hpc' = [hpc EXCEPT ![h] = "storing"]
        /\ ticket' = ticket + 1 /\ staged' = staged
        /\ req' = [req EXCEPT ![h].ticket = ticket + 1]
        /\ pending_values' = [pending_values EXCEPT ![i] =
                                [val |-> ticket + 1, storing |-> TRUE]]
    BY <1>2 DEF StoreParam, Goto
  <2>2. i \in Params
    BY DEF RequestType
  <2>3. req'[h].param = i /\ req'[h].ticket = ticket + 1
    BY <2>1 DEF RequestType
  <2>4. \A g \in Handlers : hpc'[g] = "storing" => g = h
    BY <2>1, OnlyFiller DEF Writing, WriterPc
  <2>5. ASSUME NEW j \in Params
        PROVE  /\ \A t \in staged'[j] : t <= pending_values'[j].val
               /\ pending_values'[j].val <= ticket'
               /\ \/ pending_values'[j].storing
                  \/ pending_values'[j].val \in staged'[j] \union {0}
    <3>1. /\ \A t \in staged[j] : t \in Nat /\ t <= pending_values[j].val
          /\ pending_values[j].val \in Nat /\ pending_values[j].val <= ticket
          /\ \/ pending_values[j].storing
             \/ pending_values[j].val \in staged[j] \union {0}
      BY DEF ParamWriter, Register, Slots
    <3>2. CASE j = i
      BY <2>1, <2>2, <3>1, <3>2
    <3>3. CASE j # i
      BY <2>1, <2>2, <3>1, <3>3
    <3>4. QED
      BY <3>2, <3>3
  <2>6. QED
    BY <2>1, <2>2, <2>3, <2>4, <2>5 DEF ParamWriter
<1>3. CASE StoreParamEnd(h)
  <2> DEFINE i == req[h].param
  <2>1. /\ hpc[h] = "storing" /\ hpc' = [hpc EXCEPT ![h] = "flag"]
        /\ ticket' = ticket /\ req' = req
        /\ staged' = [staged EXCEPT ![i] = @ \union {req[h].ticket}]
        /\ pending_values' = [pending_values EXCEPT ![i].storing = FALSE]
    BY <1>3 DEF StoreParamEnd, Goto
  <2>2. i \in Params /\ i \in Slots /\ req[h].ticket \in Nat
    BY DEF RequestType, Slots
  <2>3. pending_values[i].val = req[h].ticket
    BY <2>1 DEF ParamWriter
  <2>4. \A j \in Params : pending_values'[j].val = pending_values[j].val
    BY <2>1 DEF Register
  <2>5. ASSUME NEW j \in Params
        PROVE  /\ \A t \in staged'[j] : t <= pending_values'[j].val
               /\ pending_values'[j].val <= ticket'
               /\ \/ pending_values'[j].storing
                  \/ pending_values'[j].val \in staged'[j] \union {0}
    <3>1. /\ \A t \in staged[j] : t <= pending_values[j].val
          /\ pending_values[j].val <= ticket
          /\ \/ pending_values[j].storing
             \/ pending_values[j].val \in staged[j] \union {0}
      BY DEF ParamWriter
    <3>2. CASE j = i
      BY <2>1, <2>2, <2>3, <2>4, <3>1, <3>2
    <3>3. CASE j # i
      BY <2>1, <2>2, <2>4, <3>1, <3>3 DEF Slots
    <3>4. QED
      BY <3>2, <3>3
  <2>6. \A g \in Handlers : hpc'[g] # "storing"
    BY <2>1, OnlyFiller DEF Writing, WriterPc
  <2>7. QED
    BY <2>5, <2>6 DEF ParamWriter
<1>4. CASE CloseMission(h)
  <2>1. \A i \in Params : staged'[i] = staged[i]
    BY <1>4 DEF CloseMission, Params, Mission, Slots
  <2>2. QED
    BY <1>q, <1>4, <2>1 DEF CloseMission, Goto
<1>5. CASE Reply(h) \/ ParamGet(h) \/ TryLock(h) \/ Unlock(h)
  BY <1>q, <1>5 DEF Reply, ParamGet, TryLock, Unlock, Goto, HandlerOnly
<1>6. CASE \/ FlagParam(h) \/ CheckVersion(h) \/ OpenMission(h) \/ StoreRow(h)
           \/ StoreRowEnd(h) \/ StoreSegments(h) \/ FlagMission(h)
           \/ PublishVersion(h)
  BY <1>q, <1>6 DEF FlagParam, CheckVersion, OpenMission, StoreRow, StoreRowEnd,
                    StoreSegments, FlagMission, PublishVersion, Goto, HandlerOnly
<1>7. QED
  BY <1>1, <1>2, <1>3, <1>4, <1>5, <1>6 DEF Handler

LEMMA ParamReaderHandler ==
  ASSUME TypeOK, ParamWriter, ParamReader, NEW h \in Handlers,
         Arrival(h) \/ Handler(h), TypeOK'
  PROVE  ParamReader'
<1>1. \A i \in Params :
        /\ pending_values[i].val \in Nat /\ pending_values'[i].val \in Nat
        /\ applied.values[i] \in Nat /\ ctl.value \in Nat
  BY DEF TypeOK, Register, AppliedType, ControllerType
<1>2. QED
  BY <1>1, HandlerParamFrame
     DEF ParamReader, InForce, BeingApplied, NotYetRestored

LEMMA NoLostParamHandler ==
  ASSUME TypeOK, ParamWriter, NoLostParam, NEW h \in Handlers,
         Arrival(h) \/ Handler(h)
  PROVE  NoLostParam'
<1> USE DEF TypeOK
<1>1. \A i \in Params : HoldsParam(i) /\ staged'[i] = staged[i] => HoldsParam(i)'
  BY HandlerParamFrame DEF HoldsParam
<1>q. ASSUME \A i \in Params : staged'[i] = staged[i],
             \A g \in Handlers : hpc[g] = "flag" => hpc'[g] = "flag" /\ req'[g] = req[g]
      PROVE  NoLostParam'
  BY <1>1, <1>q, HandlerParamFrame DEF NoLostParam
<1>2. CASE StoreParamEnd(h)
  <2>1. /\ hpc' = [hpc EXCEPT ![h] = "flag"] /\ req' = req /\ hpc[h] = "storing"
        /\ \A i \in Params : i # req[h].param => staged'[i] = staged[i]
    BY <1>2 DEF StoreParamEnd, Goto, Slots
  <2>2. ASSUME NEW i \in Params, i # req[h].param
        PROVE  \/ pending_value_set'[i]
               \/ HoldsParam(i)'
               \/ \E g \in Handlers : hpc'[g] = "flag" /\ req'[g].param = i
               \/ \A t \in staged'[i] : t <= applied'.values[i]
    BY <1>1, <2>1, <2>2, HandlerParamFrame DEF NoLostParam
  <2>3. QED
    BY <2>1, <2>2 DEF NoLostParam
<1>3. CASE FlagParam(h)
  <2>1. /\ hpc[h] = "flag" /\ hpc' = [hpc EXCEPT ![h] = "unlock"]
        /\ req' = req /\ staged' = staged /\ pending_value_set'[req[h].param]
    BY <1>3 DEF FlagParam, Goto, HandlerOnly, RequestType
  <2>2. ASSUME NEW i \in Params, i # req[h].param
        PROVE  \/ pending_value_set'[i]
               \/ HoldsParam(i)'
               \/ \E g \in Handlers : hpc'[g] = "flag" /\ req'[g].param = i
               \/ \A t \in staged'[i] : t <= applied'.values[i]
    BY <1>1, <2>1, <2>2, HandlerParamFrame DEF NoLostParam
  <2>3. QED
    BY <2>1, <2>2 DEF NoLostParam
<1>4. CASE Arrival(h)
  BY <1>q, <1>4 DEF Arrival, ReceiveInvalid, ReceiveParamGet, ReceiveParamSet,
                    ReceiveTrajectorySet, Receive
<1>5. CASE CloseMission(h)
  <2>1. \A i \in Params : staged'[i] = staged[i]
    BY <1>5 DEF CloseMission, Params, Mission, Slots
  <2>2. QED
    BY <1>q, <1>5, <2>1 DEF CloseMission, Goto
<1>6. CASE Reply(h) \/ ParamGet(h) \/ TryLock(h) \/ Unlock(h) \/ StoreParam(h)
  <2>1. staged' = staged
    BY <1>6 DEF Reply, ParamGet, TryLock, Unlock, StoreParam, HandlerOnly
  <2>2. \A g \in Handlers : hpc[g] = "flag" => hpc'[g] = "flag" /\ req'[g] = req[g]
    BY <1>6 DEF Reply, ParamGet, TryLock, Unlock, StoreParam, HandlerOnly, Goto
  <2>3. QED
    BY <1>q, <2>1, <2>2
<1>7. CASE \/ CheckVersion(h) \/ OpenMission(h) \/ StoreRow(h) \/ StoreRowEnd(h)
           \/ StoreSegments(h) \/ FlagMission(h) \/ PublishVersion(h)
  <2>1. staged' = staged
    BY <1>7 DEF CheckVersion, OpenMission, StoreRow, StoreRowEnd, StoreSegments,
                FlagMission, PublishVersion, HandlerOnly
  <2>2. \A g \in Handlers : hpc[g] = "flag" => hpc'[g] = "flag" /\ req'[g] = req[g]
    BY <1>7 DEF CheckVersion, OpenMission, StoreRow, StoreRowEnd, StoreSegments,
                FlagMission, PublishVersion, HandlerOnly, Goto
  <2>3. QED
    BY <1>q, <2>1, <2>2
<1>8. QED
  BY <1>2, <1>3, <1>4, <1>5, <1>6, <1>7 DEF Handler

-----------------------------------------------------------------------------
(* The controller's side *)

(* The controller's steps leave the staged parameters alone, but for the   *)
(* flag of the slot it is at.                                              *)
LEMMA ControllerParamFrame ==
  ASSUME TypeOK, Controller
  PROVE  /\ UNCHANGED <<pending_values, staged, ticket, hpc, req>>
         /\ \/ UNCHANGED pending_value_set
            \/ TakeParam \/ PutBackParam
BY DEF Controller, EfmiInit, NoEdge, RestoreParam, RestoreNothing,
       RestoreParamEnd, RestoreRoute, TakeParam, LoadParam, PutBackParam,
       ApplyParam, ApplyParamEnd, TakeMission, ReadBefore, ReadRow, ReadSegments,
       ApplyMission, RejectMission, PutBackMission, ModelStep, NoModelStep,
       StagingUnchanged, handlerVars

LEMMA ParamWriterController ==
  ASSUME TypeOK, ParamWriter, Controller
  PROVE  ParamWriter'
BY ControllerParamFrame DEF ParamWriter


LEMMA ParamReaderQuiet ==
  ASSUME ParamReader,
         UNCHANGED <<pending_values, staged, live_values>>,
         applied'.values = applied.values, applied'.value_set = applied.value_set,
         model'.leaf = model.leaf, model'.mirror = model.mirror,
         ctl.pc \notin {"restore", "restored", "value", "live"},
         ctl'.pc \notin {"restore", "restored", "value", "live"}
  PROVE  ParamReader'
BY DEF ParamReader, InForce, BeingApplied, NotYetRestored

LEMMA ParamReaderController ==
  ASSUME TypeOK, ParamWriter, ParamReader, Controller
  PROVE  ParamReader'
<1> USE DEF TypeOK
<1>f. /\ UNCHANGED <<pending_values, staged>>
      /\ \A i \in Params : pending_values[i].val \in Nat /\ applied.values[i] \in Nat
      /\ ctl.value \in Nat /\ NumParams \in Nat
  BY ControllerParamFrame, Sizes DEF Register, AppliedType, ControllerType
<1>1. CASE EfmiInit
  <2>1. ctl'.pc = "restore" /\ ctl'.index = 1 /\ ctl.pc = "top"
    BY <1>1 DEF EfmiInit, AfterEfmiInit, To, At, ControllerType
  <2>2. /\ UNCHANGED <<live_values, applied>>
        /\ \A i \in Params : model'.leaf[i] = 0 /\ model'.mirror[i] = 0
    BY <1>1 DEF EfmiInit, InitialModel
  <2>3. \A i \in Params : 1 <= i
    BY DEF Params
  <2>4. QED
    BY <1>f, <2>1, <2>2, <2>3 DEF ParamReader, InForce, BeingApplied, NotYetRestored
<1>2. CASE RestoreParam
  <2> DEFINE i == ctl.index
             v == applied.values[i]
  <2>1. /\ ctl.pc = "restore" /\ i \in Params /\ applied' = applied
        /\ ctl'.pc = "restored" /\ ctl'.index = i /\ ctl'.value = ctl.value
    BY <1>2 DEF RestoreParam, At, To, ControllerType
  <2>2. /\ live_values' = [live_values EXCEPT ![i] = [val |-> v, storing |-> TRUE]]
        /\ model'.leaf = [model.leaf EXCEPT ![i] = v]
        /\ model'.mirror = [model.mirror EXCEPT ![i] = v]
    BY <1>2 DEF RestoreParam, ApplyValue, WithValue, ModelType
  <2>3. ASSUME NEW j \in Params
        PROVE  /\ live_values'[j].val = applied.values[j]
               /\ live_values'[j].storing <=> i = j
               /\ model'.leaf[j] = IF i < j THEN 0 ELSE applied.values[j]
               /\ model'.mirror[j] = model'.leaf[j]
    <3>1. /\ live_values[j].val = applied.values[j]
          /\ ~live_values[j].storing
          /\ model.leaf[j] = IF i <= j THEN 0 ELSE applied.values[j]
          /\ model.mirror[j] = model.leaf[j]
      BY <2>1 DEF ParamReader, InForce, BeingApplied, NotYetRestored
    <3>2. i \in Nat /\ j \in Nat
      BY <2>1, <1>f DEF Params
    <3>3. model.leaf \in [Params -> Nat] /\ model.mirror \in [Params -> Nat]
      BY DEF ModelType
    <3>4. CASE i = j
      BY <2>1, <2>2, <3>3, <3>4, <3>2
    <3>5. CASE i # j
      BY <2>1, <2>2, <3>1, <3>2, <3>3, <3>5
    <3>6. QED
      BY <3>4, <3>5
  <2>4. QED
    BY <1>f, <2>1, <2>3 DEF ParamReader, InForce, BeingApplied, NotYetRestored
<1>3. CASE RestoreNothing \/ RestoreParamEnd
  <2> DEFINE i == ctl.index
  <2>1. /\ i \in Params /\ applied' = applied /\ model' = model
        /\ ctl.pc \in {"restore", "restored"} /\ ctl'.value = ctl.value
        /\ \/ ctl'.pc = "restore" /\ ctl'.index = i + 1 /\ i < NumParams
           \/ ctl'.pc = "restoreRoute" /\ i = NumParams
    <3>1. ctl' = NextParam("restore", "restoreRoute")
      BY <1>3 DEF RestoreNothing, RestoreParamEnd
    <3>2. /\ i \in Params /\ applied' = applied /\ model' = model
          /\ ctl.pc \in {"restore", "restored"}
      BY <1>3 DEF RestoreNothing, RestoreParamEnd, At
    <3>3. i \in 1 .. NumParams /\ ctl \in ControllerType
      BY <3>2 DEF Params
    <3>4. CASE i < NumParams
      BY <3>1, <3>2, <3>4 DEF NextParam, To, ControllerType
    <3>5. CASE i = NumParams
      BY <1>f, <3>1, <3>2, <3>5 DEF NextParam, To, ControllerType
    <3>6. QED
      BY <1>f, <3>3, <3>4, <3>5
  <2>2. \A j \in Params : /\ live_values'[j].val = live_values[j].val
                          /\ ~live_values'[j].storing
    BY <1>3, <2>1
       DEF RestoreNothing, RestoreParamEnd, LiveStoreEnd, ParamReader, Register, At
  <2>3. ASSUME NEW j \in Params, ctl'.pc = "restore"
        PROVE  model.leaf[j] = IF i + 1 <= j THEN 0 ELSE applied.values[j]
    <3>1. i \in Nat /\ j \in Nat
      BY <1>f, <2>1 DEF Params
    <3>2. CASE i = j
      BY <1>3, <2>1, <3>1, <3>2
         DEF RestoreNothing, RestoreParamEnd, At, ParamReader, NotYetRestored,
             InForce, BeingApplied
    <3>3. CASE i # j
      BY <1>3, <2>1, <3>1, <3>3
         DEF RestoreNothing, RestoreParamEnd, At, ParamReader, NotYetRestored,
             InForce, BeingApplied
    <3>4. QED
      BY <3>2, <3>3
  <2>4. ASSUME NEW j \in Params, ctl'.pc = "restoreRoute"
        PROVE  model.leaf[j] = applied.values[j]
    <3>1. i \in Nat /\ j \in Nat /\ j <= i
      BY <1>f, <2>1, <2>4 DEF Params
    <3>2. CASE i = j
      BY <1>3, <2>1, <3>1, <3>2
         DEF RestoreNothing, RestoreParamEnd, At, ParamReader, NotYetRestored,
             InForce, BeingApplied
    <3>3. CASE i # j
      BY <1>3, <2>1, <3>1, <3>3
         DEF RestoreNothing, RestoreParamEnd, At, ParamReader, NotYetRestored,
             InForce, BeingApplied
    <3>4. QED
      BY <3>2, <3>3
  <2>5. QED
    BY <1>f, <2>1, <2>2, <2>3, <2>4
       DEF ParamReader, InForce, BeingApplied, NotYetRestored
<1>4. CASE LoadParam
  <2> DEFINE i == ctl.index
  <2>1. /\ ctl.pc = "load" /\ i \in Params
        /\ UNCHANGED <<live_values, applied, model>>
    BY <1>4 DEF LoadParam, At
  <2>2. CASE Loadable(pending_values[i])
    <3>1. ctl'.pc = "value" /\ ctl'.index = i /\ ctl'.value = pending_values[i].val
      BY <1>4, <2>2 DEF LoadParam, To, ControllerType
    <3>2. pending_values[i].val \in staged[i] \union {0}
      BY <2>1, <2>2 DEF Loadable, ParamWriter
    <3>3. QED
      BY <1>f, <2>1, <3>1, <3>2
         DEF ParamReader, InForce, BeingApplied, NotYetRestored
  <2>3. CASE ~Loadable(pending_values[i])
    <3>1. ctl'.pc = "putBack"
      BY <1>4, <2>3 DEF LoadParam, LoadFailed, To, ControllerType
    <3>2. QED
      BY <1>f, <2>1, <3>1, ParamReaderQuiet
  <2>4. QED
    BY <2>2, <2>3
<1>5. CASE ApplyParam
  <2> DEFINE i == ctl.index
             v == ctl.value
  <2>1. /\ ctl.pc = "value" /\ i \in Params /\ applied' = applied
        /\ ctl'.pc = "live" /\ ctl'.index = i /\ ctl'.value = v
    BY <1>5 DEF ApplyParam, At, To, ControllerType
  <2>2. /\ live_values' = [live_values EXCEPT ![i] = [val |-> v, storing |-> TRUE]]
        /\ model'.leaf = [model.leaf EXCEPT ![i] = v]
        /\ model'.mirror = [model.mirror EXCEPT ![i] = v]
        /\ model.leaf \in [Params -> Nat] /\ model.mirror \in [Params -> Nat]
    BY <1>5 DEF ApplyParam, ApplyValue, WithValue, ModelType
  <2>3. ASSUME NEW j \in Params
        PROVE  /\ live_values'[j].val = IF i = j THEN v ELSE applied.values[j]
               /\ live_values'[j].storing <=> i = j
               /\ model'.leaf[j] = IF i = j THEN v ELSE applied.values[j]
               /\ model'.mirror[j] = model'.leaf[j]
    BY <2>1, <2>2 DEF ParamReader, InForce, BeingApplied, NotYetRestored
  <2>4. QED
    BY <1>f, <2>1, <2>3 DEF ParamReader, InForce, BeingApplied, NotYetRestored
<1>6. CASE ApplyParamEnd
  <2> DEFINE i == ctl.index
             v == ctl.value
  <2>1. /\ ctl.pc = "live" /\ i \in Params /\ model' = model
        /\ ctl'.pc \in {"take", "takeMission"}
        /\ applied'.values = [applied.values EXCEPT ![i] = v]
        /\ applied'.value_set = [applied.value_set EXCEPT ![i] = TRUE]
        /\ live_values' = [live_values EXCEPT ![i].storing = FALSE]
    BY <1>6 DEF ApplyParamEnd, At, To, NextParam, LiveStoreEnd, WithApplied,
                ControllerType, AppliedType
  <2>2. ASSUME NEW j \in Params
        PROVE  /\ applied'.value_set[j] \/ applied'.values[j] = 0
               /\ applied'.values[j] <= pending_values[j].val
               /\ live_values'[j].val = applied'.values[j]
               /\ ~live_values'[j].storing
               /\ model.leaf[j] = applied'.values[j]
               /\ model.mirror[j] = model.leaf[j]
    <3>1. /\ applied.values \in [Params -> Nat]
          /\ applied.value_set \in [Params -> BOOLEAN]
      BY DEF AppliedType
    <3>2. CASE j = i
      BY <2>1, <3>1, <3>2
         DEF ParamReader, InForce, BeingApplied, NotYetRestored, Register
    <3>3. CASE j # i
      BY <2>1, <3>1, <3>3
         DEF ParamReader, InForce, BeingApplied, NotYetRestored, Register
    <3>4. QED
      BY <3>2, <3>3
  <2>3. QED
    BY <1>f, <2>1, <2>2 DEF ParamReader, InForce, BeingApplied, NotYetRestored
<1>7. CASE ApplyMission
  <2>1. /\ applied'.values = applied.values
        /\ applied'.value_set = applied.value_set
        /\ model'.leaf = model.leaf /\ model'.mirror = model.mirror
    BY <1>7 DEF ApplyMission, WithRoute, ModelType, AppliedType
  <2>2. ctl.pc = "after" /\ ctl'.pc = "step" /\ live_values' = live_values
    BY <1>7 DEF ApplyMission, At, EndOfApply, To, ControllerType
  <2>3. QED
    BY <1>f, <2>1, <2>2, ParamReaderQuiet
<1>8. CASE RestoreRoute \/ ModelStep
  <2>1. /\ model'.leaf = model.leaf /\ model'.mirror = model.mirror
        /\ UNCHANGED <<live_values, applied>>
    BY <1>8 DEF RestoreRoute, ModelStep, WithRoute, ModelType
  <2>2. ctl.pc \in {"restoreRoute", "step"} /\ ctl'.pc \in {"take", "top"}
    BY <1>8 DEF RestoreRoute, ModelStep, At, To, ControllerType
  <2>3. QED
    BY <1>f, <2>1, <2>2, ParamReaderQuiet
<1>9. CASE \/ NoEdge \/ TakeParam \/ PutBackParam \/ TakeMission \/ ReadBefore
           \/ ReadRow \/ ReadSegments \/ RejectMission \/ PutBackMission
           \/ NoModelStep
  <2>1. UNCHANGED <<live_values, applied, model>>
    BY <1>9 DEF NoEdge, TakeParam, PutBackParam, TakeMission, ReadBefore, ReadRow,
                ReadSegments, RejectMission, PutBackMission, NoModelStep
  <2>2. /\ ctl.pc \notin {"restore", "restored", "value", "live"}
        /\ ctl'.pc \notin {"restore", "restored", "value", "live"}
    <3>1. CASE NoEdge \/ TakeMission \/ NoModelStep
      <4>1. ctl.pc \in {"top", "takeMission", "step"}
        BY <3>1 DEF NoEdge, TakeMission, NoModelStep, At
      <4>2. ctl'.pc \in {"take", "before", "step", "top"}
        BY <3>1 DEF NoEdge, TakeMission, NoModelStep, To, ControllerType
      <4>3. QED
        BY <4>1, <4>2
    <3>5. CASE TakeParam \/ PutBackParam
      <4>1. ctl.pc \in {"take", "putBack"}
        BY <3>5 DEF TakeParam, PutBackParam, At
      <4>2. ctl' \in {To("load", ctl.index), NextParam("take", "takeMission")}
        BY <3>5 DEF TakeParam, PutBackParam
      <4>3. ctl'.pc \in {"load", "take", "takeMission"}
        BY <4>2 DEF To, NextParam, ControllerType
      <4>4. QED
        BY <4>1, <4>3
    <3>2. CASE ReadBefore
      BY <3>2 DEF ReadBefore, At, To, Incomplete, ControllerType
    <3>3. CASE ReadRow
      BY <3>3 DEF ReadRow, At, To, Incomplete, ControllerType
    <3>4. CASE ReadSegments \/ RejectMission \/ PutBackMission
      BY <3>4 DEF ReadSegments, RejectMission, PutBackMission, At, To, Incomplete,
                  EndOfApply, ControllerType
    <3>6. QED
      BY <1>9, <3>1, <3>2, <3>3, <3>4, <3>5
  <2>3. QED
    BY <1>f, <2>1, <2>2, ParamReaderQuiet
<1>10. QED
  BY <1>1, <1>2, <1>3, <1>4, <1>5, <1>6, <1>7, <1>8, <1>9 DEF Controller

LEMMA NoLostParamController ==
  ASSUME TypeOK, ParamWriter, ParamReader, NoLostParam, Controller
  PROVE  NoLostParam'
<1> USE DEF TypeOK
<1>f. /\ UNCHANGED <<staged, hpc, req>>
      /\ \A i \in Params : \A t \in staged[i] : t \in Nat
      /\ \A i \in Params : applied.values[i] \in Nat
      /\ ctl.value \in Nat
  BY ControllerParamFrame DEF Slots, AppliedType, ControllerType
<1>q. ASSUME NEW i \in Params, pending_value_set[i] => pending_value_set'[i],
             HoldsParam(i) => HoldsParam(i)',
             applied'.values[i] = applied.values[i]
      PROVE  \/ pending_value_set'[i]
             \/ HoldsParam(i)'
             \/ \E h \in Handlers : hpc'[h] = "flag" /\ req'[h].param = i
             \/ \A t \in staged'[i] : t <= applied'.values[i]
  BY <1>f, <1>q DEF NoLostParam
<1>1. CASE TakeParam
  <2> DEFINE j == ctl.index
  <2>1. /\ ctl.pc = "take" /\ j \in Params /\ applied' = applied
        /\ pending_value_set' = [pending_value_set EXCEPT ![j] = FALSE]
        /\ pending_value_set[j] => ctl'.pc = "load" /\ ctl'.index = j
    BY <1>1 DEF TakeParam, At, To, ControllerType
  <2>2. ASSUME NEW i \in Params
        PROVE  \/ pending_value_set'[i]
               \/ HoldsParam(i)'
               \/ \E h \in Handlers : hpc'[h] = "flag" /\ req'[h].param = i
               \/ \A t \in staged'[i] : t <= applied'.values[i]
    <3>1. CASE i = j /\ pending_value_set[j]
      BY <2>1, <3>1 DEF HoldsParam
    <3>2. CASE ~(i = j /\ pending_value_set[j])
      BY <1>q, <2>1, <3>2 DEF HoldsParam
    <3>3. QED
      BY <3>1, <3>2
  <2>3. QED
    BY <2>2 DEF NoLostParam
<1>2. CASE LoadParam
  <2> DEFINE j == ctl.index
  <2>1. /\ ctl.pc = "load" /\ j \in Params
        /\ UNCHANGED <<pending_value_set, applied>> /\ ctl'.index = j
        /\ \/ ctl'.pc = "value" /\ ctl'.value = pending_values[j].val
           \/ ctl'.pc = "putBack"
    BY <1>2 DEF LoadParam, At, To, LoadFailed, StagingUnchanged, ControllerType
  <2>2. \A i \in Params : HoldsParam(i) => HoldsParam(i)'
    BY <1>f, <2>1 DEF HoldsParam, ParamWriter
  <2>3. QED
    BY <1>q, <2>1, <2>2 DEF NoLostParam
<1>3. CASE PutBackParam
  <2> DEFINE j == ctl.index
  <2>1. /\ ctl.pc = "putBack" /\ j \in Params /\ applied' = applied
        /\ pending_value_set' = [pending_value_set EXCEPT ![j] = TRUE]
    BY <1>3 DEF PutBackParam, At
  <2>2. \A i \in Params : i # j => ~HoldsParam(i)
    BY DEF HoldsParam
  <2>3. QED
    BY <1>q, <2>1, <2>2 DEF NoLostParam
<1>4. CASE ApplyParam
  <2>1. /\ ctl.pc = "value" /\ ctl'.pc = "live" /\ ctl'.index = ctl.index
        /\ ctl'.value = ctl.value /\ UNCHANGED <<pending_value_set, applied>>
    BY <1>4 DEF ApplyParam, At, To, StagingUnchanged, ControllerType
  <2>2. \A i \in Params : HoldsParam(i) => HoldsParam(i)'
    BY <1>f, <2>1 DEF HoldsParam
  <2>3. QED
    BY <1>q, <2>1, <2>2 DEF NoLostParam
<1>5. CASE ApplyParamEnd
  <2> DEFINE j == ctl.index
  <2>1. /\ ctl.pc = "live" /\ j \in Params /\ UNCHANGED pending_value_set
        /\ applied'.values = [applied.values EXCEPT ![j] = ctl.value]
        /\ applied.values \in [Params -> Nat]
    BY <1>5 DEF ApplyParamEnd, At, WithApplied, StagingUnchanged, AppliedType
  <2>2. applied.values[j] <= ctl.value
    BY <2>1 DEF ParamReader
  <2>3. ASSUME NEW i \in Params
        PROVE  \/ pending_value_set'[i]
               \/ HoldsParam(i)'
               \/ \E h \in Handlers : hpc'[h] = "flag" /\ req'[h].param = i
               \/ \A t \in staged'[i] : t <= applied'.values[i]
    <3>1. CASE i = j
      BY <1>f, <2>1, <2>2, <3>1 DEF NoLostParam, HoldsParam
    <3>2. CASE i # j
      BY <1>q, <2>1, <3>2 DEF HoldsParam
    <3>3. QED
      BY <3>1, <3>2
  <2>4. QED
    BY <2>3 DEF NoLostParam
<1>6. CASE ~(TakeParam \/ LoadParam \/ PutBackParam \/ ApplyParam \/ ApplyParamEnd)
  <2>1. UNCHANGED pending_value_set
    BY <1>6, ControllerParamFrame
  <2>2. applied'.values = applied.values
    <3>1. CASE ApplyMission
      BY <3>1 DEF ApplyMission, AppliedType
    <3>2. CASE UNCHANGED applied
      BY <3>2
    <3>3. QED
      BY <1>6, <3>1, <3>2
         DEF Controller, EfmiInit, NoEdge, RestoreParam, RestoreNothing,
             RestoreParamEnd, RestoreRoute, TakeMission, ReadBefore, ReadRow,
             ReadSegments, RejectMission, PutBackMission, ModelStep, NoModelStep
  <2>3. ctl.pc \notin {"load", "putBack", "value", "live"}
    BY <1>6
       DEF Controller, EfmiInit, NoEdge, RestoreParam, RestoreNothing,
           RestoreParamEnd, RestoreRoute, TakeMission, ReadBefore, ReadRow,
           ReadSegments, ApplyMission, RejectMission, PutBackMission, ModelStep,
           NoModelStep, At
  <2>4. \A i \in Params : ~HoldsParam(i)
    BY <2>3 DEF HoldsParam
  <2>5. QED
    BY <1>q, <2>1, <2>2, <2>4 DEF NoLostParam
<1>7. QED
  BY <1>1, <1>2, <1>3, <1>4, <1>5, <1>6

-----------------------------------------------------------------------------
LEMMA ParamInit == Init => ParamInv
<1> SUFFICES ASSUME Init PROVE ParamInv
  OBVIOUS
<1>1. \A i \in Params : staged[i] = {}
  BY DEF Init, Slots
<1>2. ParamWriter
  <2>1. \A i \in Params : pending_values[i].val = 0
    BY DEF Init, Slot
  <2>2. ticket = 0 /\ \A h \in Handlers : hpc[h] # "storing"
    BY DEF Init
  <2>3. QED
    BY <1>1, <2>1, <2>2 DEF ParamWriter
<1>3. ParamReader
  <2>1. \A i \in Params :
          /\ pending_values[i].val = 0 /\ live_values[i].val = 0
          /\ ~live_values[i].storing /\ applied.values[i] = 0
          /\ model.leaf[i] = 0 /\ model.mirror[i] = 0
    BY DEF Init, Slot, InitialModel
  <2>2. ctl.pc = "top"
    BY DEF Init
  <2>3. QED
    BY <2>1, <2>2 DEF ParamReader, InForce, BeingApplied, NotYetRestored
<1>4. NoLostParam
  BY <1>1 DEF NoLostParam
<1>5. QED
  BY <1>2, <1>3, <1>4 DEF ParamInv

LEMMA ParamStep ==
  ASSUME TypeOK, OneWriter, ParamInv, [Next]_vars, TypeOK'
  PROVE  ParamInv'
<1>1. ASSUME NEW h \in Handlers, Arrival(h) \/ Handler(h) PROVE ParamInv'
  BY <1>1, ParamWriterHandler, ParamReaderHandler, NoLostParamHandler DEF ParamInv
<1>2. CASE Controller
  BY <1>2, ParamWriterController, ParamReaderController, NoLostParamController
     DEF ParamInv
<1>3. CASE UNCHANGED vars
  BY <1>3 DEF vars, ParamInv, ParamWriter, ParamReader, NoLostParam, HoldsParam,
              InForce, BeingApplied, NotYetRestored
<1>4. QED
  BY <1>1, <1>2, <1>3 DEF Next

(* The transfer of a parameter from param_set to the model.                *)
THEOREM ParamTransfer == Spec => []ParamInv
<1>1. QED
  BY ParamInit, TypeCorrect, WritersExclude, ParamStep, PTL DEF Spec

(* No accepted parameter value is lost between param_set and the model.    *)
THEOREM NoParamIsLost == Spec => []NoLostParam
<1>1. ParamInv => NoLostParam
  BY DEF ParamInv
<1>2. QED
  BY <1>1, ParamTransfer, PTL

(* What steps is what was applied, EFMI_INIT or not.                       *)
THEOREM StepsSeeApplied == Spec => []ModelMatchesApplied
<1>1. TypeOK /\ ParamInv => ModelMatchesApplied
  <2> SUFFICES ASSUME TypeOK, ParamInv, ctl.pc = "step", NEW i \in Params
               PROVE  /\ model.leaf[i] = applied.values[i]
                      /\ model.mirror[i] = applied.values[i]
                      /\ live_values[i] = Slot(applied.values[i])
    BY DEF ModelMatchesApplied, At
  <2>1. /\ live_values[i].val = applied.values[i]
        /\ ~live_values[i].storing
        /\ model.leaf[i] = applied.values[i] /\ model.mirror[i] = model.leaf[i]
    BY DEF ParamInv, ParamReader, InForce, BeingApplied, NotYetRestored
  <2>2. live_values[i] \in [val : Nat, storing : BOOLEAN]
    BY DEF TypeOK, Register
  <2>3. QED
    BY <2>1, <2>2 DEF Slot
<1>2. QED
  BY <1>1, ParamTransfer, TypeCorrect, PTL

(* Stores to live_values never go back.                                    *)
LEMMA LiveStep ==
  ASSUME TypeOK, ParamInv, [Next]_vars, NEW i \in Params
  PROVE  live_values'[i].val >= live_values[i].val
<1> USE DEF TypeOK
<1>1. live_values[i].val \in Nat /\ applied.values[i] \in Nat /\ ctl.value \in Nat
  BY DEF Register, AppliedType, ControllerType
<1>2. CASE UNCHANGED live_values
  BY <1>1, <1>2
<1>3. CASE RestoreParam
  <2>1. live_values[i].val = applied.values[i]
    BY <1>3 DEF RestoreParam, At, ParamInv, ParamReader, InForce, BeingApplied
  <2>2. live_values' = [live_values EXCEPT ![ctl.index] =
          [val |-> applied.values[ctl.index], storing |-> TRUE]]
    BY <1>3 DEF RestoreParam, ApplyValue
  <2>3. QED
    BY <1>1, <2>1, <2>2
<1>4. CASE ApplyParam
  <2>1. live_values[i].val = applied.values[i]
    BY <1>4 DEF ApplyParam, At, ParamInv, ParamReader, InForce, BeingApplied
  <2>2. ctl.index = i => applied.values[i] <= ctl.value
    BY <1>4 DEF ApplyParam, At, ParamInv, ParamReader
  <2>3. live_values' = [live_values EXCEPT ![ctl.index] =
          [val |-> ctl.value, storing |-> TRUE]]
    BY <1>4 DEF ApplyParam, ApplyValue
  <2>4. QED
    BY <1>1, <2>1, <2>2, <2>3
<1>5. CASE RestoreParamEnd \/ ApplyParamEnd
  <2>1. live_values' = [live_values EXCEPT ![ctl.index].storing = FALSE]
    BY <1>5 DEF RestoreParamEnd, ApplyParamEnd, LiveStoreEnd
  <2>2. live_values'[i].val = live_values[i].val
    BY <2>1 DEF Register
  <2>3. QED
    BY <1>1, <2>2
<1>6. ASSUME NEW h \in Handlers, Arrival(h) \/ Handler(h)
      PROVE  UNCHANGED live_values
  BY <1>6, HandlerParamFrame DEF ParamInv
<1>7. CASE Controller
  BY <1>2, <1>3, <1>4, <1>5, <1>7
     DEF Controller, EfmiInit, NoEdge, RestoreNothing, RestoreRoute, TakeParam,
         LoadParam, PutBackParam, TakeMission, ReadBefore, ReadRow, ReadSegments,
         ApplyMission, RejectMission, PutBackMission, ModelStep, NoModelStep
<1>8. QED
  BY <1>2, <1>6, <1>7 DEF Next, vars

(* param_get never goes back to an older value.                            *)
THEOREM LiveValuesAdvance == Spec => LiveNeverRegresses
<1>1. TypeOK /\ ParamInv /\ [Next]_vars =>
        [\A i \in Params : live_values'[i].val >= live_values[i].val]_vars
  BY LiveStep
<1>2. QED
  BY <1>1, TypeCorrect, ParamTransfer, PTL DEF Spec, LiveNeverRegresses

-----------------------------------------------------------------------------
(***************************************************************************)
(* Refinement.  The services of RuntimeControl implement the mailboxes of  *)
(* StagedConfig: every step stages one whole command, delivers one that is *)
(* newer than what was delivered before, or changes neither.               *)
(***************************************************************************)

(* Tickets are drawn and staged in order: the one a handler carries was    *)
(* drawn last and is staged nowhere yet.                                   *)
Carrying(h) == hpc[h] \in {"storing", "row", "rowEnd", "count", "close"}
Fresh ==
  /\ \A s \in Slots : staged[s] \subseteq 1 .. ticket
  /\ \A h \in Handlers : Carrying(h) =>
       /\ req[h].ticket = ticket
       /\ ticket > 0
       /\ \A s \in Slots : ticket \notin staged[s]

(* Every command draws one ticket at most.                                 *)
Undrawn == {h \in Handlers : hpc[h] \in {"lock", "store", "version", "open"}}
Budget ==
  /\ IsFiniteSet(Undrawn)
  /\ ticket + Cardinality(Undrawn) <= issued
  /\ issued <= MaxCommands

(* The pending plan is the newest one staged, unless it is being filled.   *)
Newest ==
  ~Odd(mission.sequence) =>
    \A t \in staged[Mission] : t <= PendingRows[0].ticket

TicketInv == Fresh /\ Budget /\ Newest

-----------------------------------------------------------------------------
LEMMA FreshQuiet ==
  ASSUME Fresh, ticket' = ticket, staged' = staged,
         \A g \in Handlers : Carrying(g)' =>
           Carrying(g) /\ req'[g].ticket = req[g].ticket
  PROVE  Fresh'
BY DEF Fresh

LEMMA FreshHandler ==
  ASSUME TypeOK, OneWriter, Fresh, NEW h \in Handlers, Arrival(h) \/ Handler(h)
  PROVE  Fresh'
<1> USE DEF TypeOK
<1>q. ASSUME NEW next, hpc' = [hpc EXCEPT ![h] = next],
             ticket' = ticket, staged' = staged,
             \A g \in Handlers : g # h => req'[g] = req[g],
             \/ next \notin {"storing", "row", "rowEnd", "count", "close"}
             \/ Carrying(h) /\ req'[h].ticket = req[h].ticket
      PROVE  Fresh'
  <2>1. \A g \in Handlers : Carrying(g)' =>
          Carrying(g) /\ req'[g].ticket = req[g].ticket
    BY <1>q DEF Carrying
  <2>2. QED
    BY <1>q, <2>1, FreshQuiet
<1>w. ASSUME hpc[h] \in WriterPc
      PROVE  \A g \in Handlers : g # h => ~Carrying(g)
  BY <1>w, OnlyFiller DEF Writing, WriterPc, Carrying
<1>1. CASE Arrival(h)
  BY <1>q, <1>1 DEF Arrival, ReceiveInvalid, ReceiveParamGet, ReceiveParamSet,
                    ReceiveTrajectorySet, Receive
<1>2. CASE StoreParam(h) \/ OpenMission(h)
  <2>1. /\ hpc[h] \in {"store", "open"} /\ ticket' = ticket + 1 /\ staged' = staged
        /\ req' = [req EXCEPT ![h].ticket = ticket + 1]
        /\ \E next : hpc' = [hpc EXCEPT ![h] = next]
    BY <1>2 DEF StoreParam, OpenMission, Goto
  <2>2. \A g \in Handlers : Carrying(g)' => g = h
    BY <1>w, <2>1 DEF WriterPc, Carrying
  <2>3. req'[h].ticket = ticket'
    BY <2>1 DEF RequestType
  <2>4. \A s \in Slots : staged[s] \subseteq 1 .. ticket
    BY DEF Fresh
  <2>5. \A s \in Slots : ticket + 1 \notin staged[s]
    BY <2>4
  <2>6. \A s \in Slots : staged'[s] \subseteq 1 .. ticket'
    BY <2>1, <2>4
  <2>7. QED
    BY <2>1, <2>2, <2>3, <2>5, <2>6 DEF Fresh
<1>3. CASE StoreParamEnd(h) \/ CloseMission(h)
  <2>1. /\ hpc[h] \in {"storing", "close"} /\ ticket' = ticket
        /\ \E s \in Slots : staged' = [staged EXCEPT ![s] = @ \union {req[h].ticket}]
        /\ \E next \in {"flag", "pending"} : hpc' = [hpc EXCEPT ![h] = next]
    BY <1>3 DEF StoreParamEnd, CloseMission, Goto, Slots, RequestType
  <2>2. \A g \in Handlers : ~Carrying(g)'
    BY <1>w, <2>1 DEF WriterPc, Carrying
  <2>3. req[h].ticket = ticket /\ ticket > 0
    BY <2>1 DEF Fresh, Carrying
  <2>4. \A s \in Slots : staged'[s] \subseteq 1 .. ticket'
    <3>1. \A s \in Slots : staged[s] \subseteq 1 .. ticket
      BY DEF Fresh
    <3>2. ticket \in 1 .. ticket
      BY <2>3
    <3>3. QED
      BY <2>1, <2>3, <3>1, <3>2
  <2>5. QED
    BY <2>2, <2>4 DEF Fresh
<1>4. CASE Reply(h) \/ ParamGet(h) \/ TryLock(h) \/ Unlock(h)
  BY <1>q, <1>4 DEF Reply, ParamGet, TryLock, Unlock, Goto, HandlerOnly
<1>5. CASE FlagParam(h) \/ CheckVersion(h) \/ FlagMission(h) \/ PublishVersion(h)
  BY <1>q, <1>5 DEF FlagParam, CheckVersion, FlagMission, PublishVersion, Goto,
                    HandlerOnly
<1>6. CASE StoreRow(h) \/ StoreSegments(h)
  BY <1>q, <1>6 DEF StoreRow, StoreSegments, Goto, HandlerOnly, Carrying
<1>7. CASE StoreRowEnd(h)
  BY <1>q, <1>7 DEF StoreRowEnd, Goto, Carrying, RequestType
<1>8. QED
  BY <1>1, <1>2, <1>3, <1>4, <1>5, <1>6, <1>7 DEF Handler

(* What may happen to the budget. *)
LEMMA BudgetUnused ==
  ASSUME Budget, ticket \in Nat, issued \in Nat,
         Undrawn' \subseteq Undrawn, ticket' = ticket, issued' = issued
  PROVE  Budget'
<1>1. IsFiniteSet(Undrawn') /\ Cardinality(Undrawn') <= Cardinality(Undrawn)
  BY FS_Subset DEF Budget
<1>2. Cardinality(Undrawn') \in Nat /\ Cardinality(Undrawn) \in Nat
  BY <1>1, FS_CardinalityType DEF Budget
<1>3. QED
  BY <1>1, <1>2, Sizes DEF Budget

LEMMA BudgetIssued ==
  ASSUME Budget, ticket \in Nat, issued \in Nat, NEW h,
         Undrawn' \subseteq Undrawn \union {h},
         ticket' = ticket, issued' = issued + 1, issued < MaxCommands
  PROVE  Budget'
<1> DEFINE S == Undrawn \union {h}
<1>1. IsFiniteSet(S) /\ Cardinality(S) <= Cardinality(Undrawn) + 1
  BY FS_AddElement, FS_CardinalityType DEF Budget
<1>2. IsFiniteSet(Undrawn') /\ Cardinality(Undrawn') <= Cardinality(S)
  BY <1>1, FS_Subset
<1>3. /\ Cardinality(Undrawn') \in Nat /\ Cardinality(Undrawn) \in Nat
      /\ Cardinality(S) \in Nat
  BY <1>1, <1>2, FS_CardinalityType DEF Budget
<1> HIDE DEF S
<1>4. QED
  BY <1>1, <1>2, <1>3, SizesAssumption DEF Budget

LEMMA BudgetDrawn ==
  ASSUME Budget, ticket \in Nat, issued \in Nat, NEW h \in Undrawn,
         Undrawn' \subseteq Undrawn \ {h}, ticket' = ticket + 1, issued' = issued
  PROVE  Budget'
<1> DEFINE S == Undrawn \ {h}
<1>1. IsFiniteSet(S) /\ Cardinality(S) = Cardinality(Undrawn) - 1
  BY FS_RemoveElement DEF Budget
<1>2. IsFiniteSet(Undrawn') /\ Cardinality(Undrawn') <= Cardinality(S)
  BY <1>1, FS_Subset
<1>3. /\ Cardinality(Undrawn') \in Nat /\ Cardinality(Undrawn) \in Nat
      /\ Cardinality(S) \in Nat
  BY <1>1, <1>2, FS_CardinalityType DEF Budget
<1> HIDE DEF S
<1>4. QED
  BY <1>1, <1>2, <1>3, SizesAssumption DEF Budget

LEMMA BudgetHandler ==
  ASSUME TypeOK, Budget, NEW h \in Handlers, Arrival(h) \/ Handler(h)
  PROVE  Budget'
<1> USE DEF TypeOK
<1>q. ASSUME NEW next, hpc' = [hpc EXCEPT ![h] = next],
             \/ next \notin {"lock", "store", "version", "open"}
             \/ h \in Undrawn
      PROVE  Undrawn' \subseteq Undrawn
  BY <1>q DEF Undrawn
<1>1. CASE ReceiveInvalid(h) \/ \E i \in Params : ReceiveParamGet(h, i)
  <2>1. \E next \in {"Denied", "get"} : hpc' = [hpc EXCEPT ![h] = next]
    BY <1>1 DEF ReceiveInvalid, ReceiveParamGet, Receive
  <2>2. Undrawn' \subseteq Undrawn
    BY <1>q, <2>1
  <2>3. ticket' = ticket /\ issued' = issued
    BY <1>1 DEF ReceiveInvalid, ReceiveParamGet, Receive
  <2>4. QED
    BY <2>2, <2>3, BudgetUnused
<1>2. CASE \/ \E i \in Params : ReceiveParamSet(h, i)
           \/ \E n \in 1 .. MaxSegments, e \in 0 .. VersionModulus - 1 :
                ReceiveTrajectorySet(h, n, e)
  <2>1. /\ hpc' = [hpc EXCEPT ![h] = "lock"] /\ ticket' = ticket
        /\ issued' = issued + 1 /\ issued < MaxCommands
    BY <1>2 DEF ReceiveParamSet, ReceiveTrajectorySet, Receive
  <2>2. Undrawn' \subseteq Undrawn \union {h}
    BY <2>1 DEF Undrawn
  <2>3. QED
    BY <2>1, <2>2, BudgetIssued
<1>3. CASE StoreParam(h) \/ OpenMission(h)
  <2>1. /\ hpc[h] \in {"store", "open"} /\ ticket' = ticket + 1 /\ issued' = issued
        /\ \E next \in {"storing", "row"} : hpc' = [hpc EXCEPT ![h] = next]
    BY <1>3 DEF StoreParam, OpenMission, Goto
  <2>2. h \in Undrawn /\ Undrawn' \subseteq Undrawn \ {h}
    BY <2>1 DEF Undrawn
  <2>3. QED
    BY <2>1, <2>2, BudgetDrawn
<1>4. CASE TryLock(h) \/ CheckVersion(h)
  <2>1. /\ hpc[h] \in {"lock", "version"} /\ ticket' = ticket /\ issued' = issued
        /\ \E next : hpc' = [hpc EXCEPT ![h] = next]
    BY <1>4 DEF TryLock, CheckVersion, Goto, HandlerOnly
  <2>2. h \in Undrawn
    BY <2>1 DEF Undrawn
  <2>3. QED
    BY <1>q, <2>1, <2>2, BudgetUnused
<1>5. CASE Reply(h) \/ ParamGet(h) \/ Unlock(h) \/ StoreParamEnd(h) \/ FlagParam(h)
  <2>1. \E next \in {"idle", "Accepted", "TemporarilyRejected", "flag", "unlock"} :
          hpc' = [hpc EXCEPT ![h] = next]
    BY <1>5 DEF Reply, ParamGet, Unlock, StoreParamEnd, FlagParam, Goto
  <2>2. Undrawn' \subseteq Undrawn
    BY <1>q, <2>1
  <2>3. ticket' = ticket /\ issued' = issued
    BY <1>5 DEF Reply, ParamGet, Unlock, StoreParamEnd, FlagParam, HandlerOnly
  <2>4. QED
    BY <2>2, <2>3, BudgetUnused
<1>6. CASE \/ StoreRow(h) \/ StoreRowEnd(h) \/ StoreSegments(h) \/ CloseMission(h)
           \/ FlagMission(h) \/ PublishVersion(h)
  <2>1. \E next \in {"row", "rowEnd", "count", "close", "pending", "publish", "unlock"} :
          hpc' = [hpc EXCEPT ![h] = next]
    BY <1>6 DEF StoreRow, StoreRowEnd, StoreSegments, CloseMission, FlagMission,
                PublishVersion, Goto
  <2>2. Undrawn' \subseteq Undrawn
    BY <1>q, <2>1
  <2>3. ticket' = ticket /\ issued' = issued
    BY <1>6 DEF StoreRow, StoreRowEnd, StoreSegments, CloseMission, FlagMission,
                PublishVersion, HandlerOnly
  <2>4. QED
    BY <2>2, <2>3, BudgetUnused
<1>7. QED
  BY <1>1, <1>2, <1>3, <1>4, <1>5, <1>6 DEF Arrival, Handler

LEMMA NewestHandler ==
  ASSUME TypeOK, OneWriter, MissionWriter, MissionWriter', Fresh, Newest,
         NEW h \in Handlers, Arrival(h) \/ Handler(h)
  PROVE  Newest'
<1> USE DEF TypeOK
<1>1. CASE CloseMission(h)
  <2>1. /\ hpc[h] = "close" /\ mission'.waypoints = mission.waypoints
        /\ staged'[Mission] = staged[Mission] \union {req[h].ticket}
    BY <1>1 DEF CloseMission, Goto, BumpMissionSequence, MissionType, Slots
  <2>2. 0 \in Rows /\ req[h].segments \in 1 .. MaxSegments
    BY Sizes DEF Rows, RequestType
  <2>3. PendingRows[0] = PlanRow(req[h].ticket, req[h].segments, 0)
    BY <2>1, <2>2 DEF MissionWriter, Filling, RowFilled
  <2>4. PendingRows[0].ticket = req[h].ticket
    BY <2>2, <2>3 DEF PlanRow
  <2>5. PendingRows' = PendingRows
    BY <2>1 DEF PendingRows
  <2>6. req[h].ticket = ticket /\ \A t \in staged[Mission] : t <= ticket
    BY <2>1 DEF Fresh, Carrying, Slots
  <2>7. PendingRows'[0].ticket = ticket
    BY <2>4, <2>5, <2>6
  <2>8. \A t \in staged'[Mission] : t <= ticket
    <3>1. staged'[Mission] = staged[Mission] \union {ticket} /\ ticket <= ticket
      BY <2>1, <2>6
    <3>2. QED
      BY <2>6, <3>1
  <2>9. QED
    BY <2>7, <2>8 DEF Newest
<1>2. CASE OpenMission(h) \/ StoreRow(h) \/ StoreRowEnd(h) \/ StoreSegments(h)
  <2>1. Filling(h)'
    BY <1>2 DEF OpenMission, StoreRow, StoreRowEnd, StoreSegments, Goto, Filling
  <2>2. Odd(mission'.sequence)
    BY <2>1 DEF MissionWriter, Odd
  <2>3. QED
    BY <2>2 DEF Newest, Odd
<1>3. ASSUME mission'.sequence = mission.sequence,
             mission'.waypoints = mission.waypoints,
             staged'[Mission] = staged[Mission]
      PROVE  Newest'
  BY <1>3 DEF Newest, PendingRows, Odd
<1>4. CASE FlagMission(h)
  BY <1>3, <1>4 DEF FlagMission, HandlerOnly, MissionType
<1>5. CASE StoreParamEnd(h)
  <2>1. req[h].param # Mission
    BY DEF RequestType, Params, Mission
  <2>2. staged'[Mission] = staged[Mission] /\ mission' = mission
    BY <1>5, <2>1 DEF StoreParamEnd
  <2>3. QED
    BY <1>3, <2>2
<1>6. CASE mission' = mission /\ staged' = staged
  BY <1>3, <1>6
<1>7. QED
  BY <1>1, <1>2, <1>4, <1>5, <1>6
     DEF Arrival, ReceiveInvalid, ReceiveParamGet, ReceiveParamSet,
         ReceiveTrajectorySet, Receive, Handler, Reply, ParamGet, TryLock, Unlock,
         StoreParam, FlagParam, CheckVersion, PublishVersion, HandlerOnly

LEMMA TicketStep ==
  ASSUME TypeOK, OneWriter, MissionInv, MissionInv', TicketInv, [Next]_vars
  PROVE  TicketInv'
<1>1. ASSUME NEW h \in Handlers, Arrival(h) \/ Handler(h) PROVE TicketInv'
  BY <1>1, FreshHandler, BudgetHandler, NewestHandler DEF TicketInv, MissionInv
<1>2. CASE Controller
  <2>1. UNCHANGED <<staged, ticket, hpc, req, issued>>
    BY <1>2
       DEF Controller, EfmiInit, NoEdge, RestoreParam, RestoreNothing,
           RestoreParamEnd, RestoreRoute, TakeParam, LoadParam, PutBackParam,
           ApplyParam, ApplyParamEnd, TakeMission, ReadBefore, ReadRow,
           ReadSegments, ApplyMission, RejectMission, PutBackMission, ModelStep,
           NoModelStep, handlerVars
  <2>2. Fresh' /\ Budget'
    BY <2>1 DEF TicketInv, Fresh, Budget, Carrying, Undrawn
  <2>3. Newest'
    BY <1>2, <2>1, ControllerFrame DEF TicketInv, Newest, PendingRows, Odd
  <2>4. QED
    BY <2>2, <2>3 DEF TicketInv
<1>3. CASE UNCHANGED vars
  BY <1>3 DEF vars, TicketInv, Fresh, Budget, Newest, Carrying, Undrawn,
              PendingRows, Odd
<1>4. QED
  BY <1>1, <1>2, <1>3 DEF Next

LEMMA TicketInit == Init => TicketInv
<1> SUFFICES ASSUME Init PROVE TicketInv
  OBVIOUS
<1>1. Fresh
  BY DEF Init, Fresh, Carrying
<1>2. Undrawn = {}
  BY DEF Init, Undrawn
<1>3. Budget
  <2>1. IsFiniteSet(Undrawn) /\ Cardinality(Undrawn) = 0
    BY <1>2, FS_EmptySet
  <2>2. QED
    BY <2>1, SizesAssumption DEF Init, Budget
<1>4. Newest
  BY DEF Init, Newest, Slots
<1>5. QED
  BY <1>1, <1>3, <1>4 DEF TicketInv

LEMMA TicketsInOrder == Spec => []TicketInv
<1>1. QED
  BY TicketInit, TypeCorrect, WritersExclude, MissionTransfer, TicketStep, PTL
     DEF Spec

-----------------------------------------------------------------------------
(* No plan is lost *)

(* The ticket of a whole plan is the one of its first row.                 *)
LEMMA PlanTicket ==
  ASSUME NEW w, NEW n, PlanIs(w, n)
  PROVE  w[0].ticket \in staged[Mission]
<1>1. PICK t \in staged[Mission] :
        n \in 1 .. MaxSegments /\ \A k \in Rows : w[k] = PlanRow(t, n, k)
  BY DEF PlanIs
<1>2. 0 \in Rows /\ 0 <= n
  BY <1>1, Sizes DEF Rows
<1>3. w[0] = PlanRow(t, n, 0)
  BY <1>1, <1>2
<1>4. PlanRow(t, n, 0) = [ticket |-> t, segments |-> n, row |-> 0]
  BY <1>2 DEF PlanRow
<1>5. QED
  BY <1>3, <1>4

(* ApplyMission takes over the pending plan, the newest one staged.        *)
LEMMA AppliesNewest ==
  ASSUME TypeOK, MissionInv, TicketInv, ApplyMission
  PROVE  /\ applied'.values = applied.values
         /\ AppliedPlan' \in staged[Mission]
         /\ \A u \in staged[Mission] : u <= AppliedPlan'
<1> USE DEF TypeOK
<1> DEFINE t == ctl.rows[0].ticket
<1>1. /\ ctl.pc = "after" /\ ctl.before = mission.sequence
      /\ applied' = [applied EXCEPT !.waypoints = ctl.rows,
                                    !.segments = ctl.segments, !.mission = TRUE]
  BY DEF ApplyMission, At, Whole
<1>2. /\ applied'.values = applied.values /\ applied'.mission
      /\ applied'.waypoints = ctl.rows
  BY <1>1 DEF AppliedType
<1>3. AppliedPlan' = t
  BY <1>2 DEF AppliedPlan
<1>4. PlanStaged /\ ReadCurrent /\ ReadingMission
  BY <1>1, ReaderHalves DEF MissionInv, ReadingMission
<1>5. t \in staged[Mission]
  BY <1>4, WholeIsPlan, PlanTicket DEF MissionInv
<1>6. overlap = 0
  <2>1. /\ mission.sequence \in 0 .. SeqModulus - 1
        /\ overlap \in 0 .. SeqModulus - 1 /\ SeqModulus \in Nat
    BY SequenceAssumption DEF MissionType
  <2>2. QED
    BY <1>1, <1>4, <2>1 DEF ReadCurrent
<1>7. \A u \in staged[Mission] : u <= t
  <2>1. ~Odd(mission.sequence)
    BY <1>4, <1>6, NotFillingUnlessBumped DEF MissionInv
  <2>2. 0 \in Rows
    BY Sizes DEF Rows
  <2>3. ctl.rows[0] = PendingRows[0]
    BY <1>1, <1>4, <1>6, <2>2 DEF ReadCurrent
  <2>4. QED
    BY <2>1, <2>3 DEF TicketInv, Newest
<1>8. QED
  BY <1>2, <1>3, <1>5, <1>7

ReadingPlan ==
  ctl.pc \in {"before", "rows", "segments", "after", "putBackMission"}

(* A whole plan is announced until the controller has applied one that is  *)
(* not older.                                                              *)
LEMMA MissionKept ==
  ASSUME TypeOK, MissionInv, TicketInv, NoLostMission, [Next]_vars
  PROVE  NoLostMission'
<1> USE DEF TypeOK
<1>1. ASSUME NEW h \in Handlers, Arrival(h) \/ Handler(h) PROVE NoLostMission'
  <2>1. CASE CloseMission(h)
    BY <2>1 DEF CloseMission, Goto, NoLostMission
  <2>2. CASE FlagMission(h)
    BY <2>2 DEF FlagMission, NoLostMission, MissionType
  <2>3. CASE ~CloseMission(h) /\ ~FlagMission(h)
    <3>1. UNCHANGED <<ctl, applied>> /\ mission'.pending = mission.pending
      BY <1>1, <2>3, HandlerFrame
    <3>2. \A g \in Handlers : hpc[g] = "pending" => hpc'[g] = "pending"
      BY <1>1, <2>3
         DEF Arrival, ReceiveInvalid, ReceiveParamGet, ReceiveParamSet,
             ReceiveTrajectorySet, Receive, Handler, Reply, ParamGet, TryLock,
             Unlock, StoreParam, StoreParamEnd, FlagParam, CheckVersion,
             OpenMission, StoreRow, StoreRowEnd, StoreSegments, PublishVersion,
             Goto
    <3>3. staged'[Mission] = staged[Mission]
      <4>1. CASE StoreParamEnd(h)
        BY <4>1 DEF StoreParamEnd, RequestType, Params, Mission
      <4>2. CASE staged' = staged
        BY <4>2
      <4>3. QED
        BY <1>1, <2>3, <4>1, <4>2
           DEF Arrival, ReceiveInvalid, ReceiveParamGet, ReceiveParamSet,
               ReceiveTrajectorySet, Receive, Handler, Reply, ParamGet, TryLock,
               Unlock, StoreParam, FlagParam, CheckVersion, OpenMission,
               StoreRow, StoreRowEnd, StoreSegments, PublishVersion, HandlerOnly
    <3>4. AppliedPlan' = AppliedPlan
      BY <3>1 DEF AppliedPlan
    <3>5. QED
      BY <3>1, <3>2, <3>3, <3>4 DEF NoLostMission
  <2>4. QED
    BY <2>1, <2>2, <2>3
<1>2. CASE Controller
  <2>1. hpc' = hpc /\ staged' = staged
    BY <1>2, ControllerFrame
  <2>2. CASE ApplyMission
    BY <2>1, <2>2, AppliesNewest DEF NoLostMission
  <2>3. CASE PutBackMission
    BY <2>3 DEF PutBackMission, NoLostMission, MissionType
  <2>4. CASE TakeMission
    <3>1. CASE mission.pending
      BY <2>4, <3>1 DEF TakeMission, To, NoLostMission, ControllerType
    <3>2. CASE ~mission.pending
      BY <2>1, <2>4, <3>2
         DEF TakeMission, At, NoLostMission, AppliedPlan
    <3>3. QED
      BY <3>1, <3>2
  <2>5. CASE ReadBefore \/ ReadRow \/ ReadSegments \/ RejectMission
    BY <2>5 DEF ReadBefore, ReadRow, ReadSegments, RejectMission, Incomplete, To,
                NoLostMission, ControllerType
  <2>6. ASSUME mission' = mission, ~ReadingPlan, AppliedPlan' = AppliedPlan
        PROVE  NoLostMission'
    BY <2>1, <2>6 DEF NoLostMission, ReadingPlan
  <2>7. CASE ApplyParamEnd
    BY <2>6, <2>7
       DEF ApplyParamEnd, WithApplied, AppliedPlan, AppliedType, At, ReadingPlan,
           StagingUnchanged
  <2>8. CASE UNCHANGED <<mission, applied>> /\ ~ReadingPlan
    BY <2>6, <2>8 DEF AppliedPlan
  <2>9. QED
    BY <1>2, <2>2, <2>3, <2>4, <2>5, <2>7, <2>8
       DEF Controller, EfmiInit, NoEdge, RestoreParam, RestoreNothing,
           RestoreParamEnd, RestoreRoute, TakeParam, LoadParam, PutBackParam,
           ApplyParam, ModelStep, NoModelStep, At, StagingUnchanged, ReadingPlan
<1>3. CASE UNCHANGED vars
  BY <1>3 DEF vars, NoLostMission, AppliedPlan
<1>4. QED
  BY <1>1, <1>2, <1>3 DEF Next

(* Whatever plan a client was told is accepted is applied, superseded by a *)
(* newer one, or still announced.                                          *)
THEOREM NoMissionIsLost == Spec => []NoLostMission
<1>1. Init => NoLostMission
  BY DEF Init, NoLostMission, Slots
<1>2. QED
  BY <1>1, TypeCorrect, MissionTransfer, TicketsInOrder, MissionKept, PTL DEF Spec

-----------------------------------------------------------------------------
(* Accepted is in force *)

(* A step that leaves the route, what is applied and the restore alone.    *)
LEMMA ForceQuiet ==
  ASSUME RouteInForce, model'.route = model.route,
         applied'.waypoints = applied.waypoints,
         applied'.segments = applied.segments,
         applied'.mission = applied.mission, Reset' <=> Reset
  PROVE  RouteInForce'
BY DEF RouteInForce

(* apply and restore take over the same rows, so what EFMI_INIT resets is  *)
(* put back as it was.                                                     *)
LEMMA ForceStep ==
  ASSUME TypeOK, RouteInForce, [Next]_vars
  PROVE  RouteInForce'
<1> USE DEF TypeOK
<1>1. ASSUME NEW h \in Handlers, Arrival(h) \/ Handler(h) PROVE RouteInForce'
  BY <1>1, HandlerFrame, ForceQuiet DEF Reset
<1>2. CASE EfmiInit
  <2>1. model'.route = DefaultRoute
    BY <1>2 DEF EfmiInit, InitialModel
  <2>2. Reset'
    BY <1>2 DEF EfmiInit, AfterEfmiInit, To, ControllerType, Reset
  <2>3. QED
    BY <2>1, <2>2 DEF RouteInForce
<1>3. CASE RestoreRoute
  <2>1. Reset /\ ~Reset' /\ applied' = applied
    BY <1>3 DEF RestoreRoute, At, To, ControllerType, Reset
  <2>2. CASE applied.mission
    <3>1. model'.route = Route(applied.waypoints, applied.segments)
      BY <1>3, <2>2 DEF RestoreRoute, WithRoute, ModelType
    <3>2. QED
      BY <2>1, <2>2, <3>1 DEF RouteInForce
  <2>3. CASE ~applied.mission
    BY <1>3, <2>1, <2>3 DEF RestoreRoute, RouteInForce
  <2>4. QED
    BY <2>2, <2>3
<1>4. CASE ApplyMission
  <2>1. ~Reset'
    BY <1>4 DEF ApplyMission, EndOfApply, To, ControllerType, Reset
  <2>2. /\ applied'.waypoints = ctl.rows /\ applied'.segments = ctl.segments
        /\ applied'.mission
    BY <1>4 DEF ApplyMission, AppliedType
  <2>3. model'.route = Route(ctl.rows, ctl.segments)
    BY <1>4 DEF ApplyMission, WithRoute, ModelType
  <2>4. QED
    BY <2>1, <2>2, <2>3 DEF RouteInForce
<1>5. CASE RestoreParam \/ RestoreNothing \/ RestoreParamEnd
  <2>1. Reset /\ Reset' /\ applied' = applied
    BY <1>5 DEF RestoreParam, RestoreNothing, RestoreParamEnd, At, To, NextParam,
                ControllerType, Reset
  <2>2. model'.route = model.route
    BY <1>5 DEF RestoreParam, RestoreNothing, RestoreParamEnd, ApplyValue,
                WithValue, ModelType
  <2>3. QED
    BY <2>1, <2>2, ForceQuiet
<1>6. CASE ApplyParamEnd
  <2>1. ~Reset /\ ~Reset'
    BY <1>6 DEF ApplyParamEnd, At, To, NextParam, ControllerType, Reset
  <2>2. QED
    BY <1>6, <2>1, ForceQuiet DEF ApplyParamEnd, WithApplied, AppliedType
<1>7. CASE ApplyParam \/ ModelStep
  <2>1. ~Reset /\ ~Reset' /\ applied' = applied
    BY <1>7 DEF ApplyParam, ModelStep, At, To, ControllerType, Reset
  <2>2. model'.route = model.route
    BY <1>7 DEF ApplyParam, ModelStep, ApplyValue, WithValue, ModelType
  <2>3. QED
    BY <2>1, <2>2, ForceQuiet
<1>8. CASE \/ NoEdge \/ TakeParam \/ LoadParam \/ PutBackParam \/ TakeMission
           \/ ReadBefore \/ ReadRow \/ ReadSegments \/ RejectMission
           \/ PutBackMission \/ NoModelStep
  <2>1. UNCHANGED <<model, applied>>
    BY <1>8 DEF NoEdge, TakeParam, LoadParam, PutBackParam, TakeMission,
                ReadBefore, ReadRow, ReadSegments, RejectMission, PutBackMission,
                NoModelStep
  <2>2. ~Reset
    BY <1>8 DEF NoEdge, TakeParam, LoadParam, PutBackParam, TakeMission,
                ReadBefore, ReadRow, ReadSegments, RejectMission, PutBackMission,
                NoModelStep, At, Reset
  <2>3. CASE NoEdge \/ TakeParam \/ LoadParam \/ PutBackParam
    <3>1. CASE NoEdge \/ TakeParam \/ PutBackParam
      BY <2>1, <2>2, <3>1, ForceQuiet
         DEF NoEdge, TakeParam, PutBackParam, To, NextParam, ControllerType, Reset
    <3>2. CASE LoadParam
      <4>1. ctl'.pc \in {"value", "putBack"}
        BY <3>2 DEF LoadParam, LoadFailed, To, ControllerType
      <4>2. QED
        BY <2>1, <2>2, <4>1, ForceQuiet DEF Reset
    <3>3. QED
      BY <2>3, <3>1, <3>2
  <2>4. CASE TakeMission \/ PutBackMission \/ NoModelStep
    <3>1. ~Reset'
      BY <2>4 DEF TakeMission, PutBackMission, NoModelStep, EndOfApply, To,
                  ControllerType, Reset
    <3>2. QED
      BY <2>1, <2>2, <3>1, ForceQuiet
  <2>5. CASE ReadBefore \/ ReadRow \/ ReadSegments \/ RejectMission
    <3>1. ~Reset'
      BY <2>5 DEF ReadBefore, ReadRow, ReadSegments, RejectMission, Incomplete,
                  To, ControllerType, Reset
    <3>2. QED
      BY <2>1, <2>2, <3>1, ForceQuiet
  <2>6. QED
    BY <1>8, <2>3, <2>4, <2>5
<1>9. CASE UNCHANGED vars
  BY <1>9, ForceQuiet DEF vars, Reset
<1>10. QED
  BY <1>1, <1>2, <1>3, <1>4, <1>5, <1>6, <1>7, <1>8, <1>9 DEF Next, Controller

(* The model flies the plan that was applied last, except while EFMI_INIT  *)
(* has reset it and restore has not come to the route.                     *)
THEOREM RoutesStayInForce == Spec => []RouteInForce
<1>1. Init => RouteInForce
  BY DEF Init, RouteInForce, InitialModel
<1>2. QED
  BY <1>1, TypeCorrect, ForceStep, PTL DEF Spec

(* The first point of a route tells its plan. *)
LEMMA RouteTicket ==
  ASSUME TypeOK, RouteInForce, ~Reset
  PROVE  model.route.waypoints[0].ticket = AppliedPlan
<1>1. \A n \in Nat : Lower(0, n) = 0
  BY DEF Lower
<1>2. 0 \in Rows /\ MaxSegments \in Nat /\ applied.segments \in Nat
  BY Sizes DEF Rows, TypeOK, AppliedType
<1>3. CASE applied.mission
  <2>1. model.route = Route(applied.waypoints, applied.segments)
    BY <1>3 DEF RouteInForce
  <2>2. QED
    BY <1>1, <1>2, <1>3, <2>1 DEF Route, AppliedPlan
<1>4. CASE ~applied.mission
  <2>1. model.route = DefaultRoute
    BY <1>4 DEF RouteInForce
  <2>2. DefaultRoute.waypoints[0] = PlanRow(0, MaxSegments, 0)
    BY <1>1, <1>2 DEF DefaultRoute, Route
  <2>3. PlanRow(0, MaxSegments, 0).ticket = 0
    BY <1>2 DEF PlanRow
  <2>4. QED
    BY <1>4, <2>1, <2>2, <2>3 DEF AppliedPlan
<1>5. QED
  BY <1>3, <1>4

(* What was accepted is in force at every step of the model, or announced  *)
(* for a later one.                                                        *)
THEOREM AcceptedIsInForce == Spec => []AcceptedInForce
<1>1. TypeOK /\ NoLostParam /\ NoLostMission /\ ModelMatchesApplied /\ RouteInForce
        => AcceptedInForce
  <2> SUFFICES ASSUME TypeOK, NoLostParam, NoLostMission, ModelMatchesApplied,
                      RouteInForce, ctl.pc = "step", NEW s \in Slots
               PROVE  Flagged(s) \/ \A t \in staged[s] : t <= InModel(s)
    <3>1. \A i \in Params : i # Mission /\ i \in Slots
      BY DEF Params, Mission, Slots
    <3>2. QED
      BY <3>1 DEF AcceptedInForce, ModelMatchesApplied, InModel, At
  <2>1. CASE s = Mission
    <3>1. InModel(s) = AppliedPlan
      BY <2>1, RouteTicket DEF InModel, Reset
    <3>2. QED
      BY <2>1, <3>1 DEF NoLostMission, Flagged
  <2>2. CASE s # Mission
    <3>1. s \in Params /\ ~HoldsParam(s)
      BY <2>2 DEF Slots, HoldsParam
    <3>2. InModel(s) = applied.values[s]
      BY <2>2, <3>1 DEF InModel, ModelMatchesApplied, At
    <3>3. QED
      BY <2>2, <3>1, <3>2 DEF NoLostParam, Flagged
  <2>3. QED
    BY <2>1, <2>2
<1>2. QED
  BY <1>1, TypeCorrect, NoParamIsLost, NoMissionIsLost, StepsSeeApplied,
     RoutesStayInForce, PTL

-----------------------------------------------------------------------------
(* The refinement *)

MailboxesNext ==
  \/ Mailboxes!Next
  \/ UNCHANGED <<staged, Delivered>>

(* A handler's step that completes a command for slot s stages it.         *)
LEMMA StageStep ==
  ASSUME TypeOK, TicketInv, NEW h \in Handlers, Carrying(h), NEW s \in Slots,
         staged' = [staged EXCEPT ![s] = @ \union {req[h].ticket}],
         UNCHANGED applied
  PROVE  Mailboxes!Next
<1> DEFINE t == req[h].ticket
<1>1. t \in 1 .. MaxCommands
  <2>1. t = ticket /\ ticket > 0 /\ ticket \in Nat /\ issued \in Nat
    BY DEF TypeOK, TicketInv, Fresh
  <2>2. Cardinality(Undrawn) \in Nat
    BY FS_CardinalityType DEF TicketInv, Budget
  <2>3. ticket <= MaxCommands
    BY <2>1, <2>2, SizesAssumption DEF TicketInv, Budget
  <2>4. QED
    BY <2>1, <2>3, SizesAssumption
<1>2. \A r \in Slots : \A u \in staged[r] : u < t
  <2>1. t = ticket /\ ticket \in Nat
    BY DEF TypeOK, TicketInv, Fresh
  <2>2. \A r \in Slots : staged[r] \subseteq 1 .. ticket /\ ticket \notin staged[r]
    BY DEF TicketInv, Fresh
  <2>3. QED
    BY <2>1, <2>2
<1>3. UNCHANGED Delivered
  BY DEF Delivered, AppliedPlan
<1>4. Mailboxes!Stage(s)
  BY <1>1, <1>2, <1>3 DEF Mailboxes!Stage
<1>5. QED
  BY <1>4 DEF Mailboxes!Next

LEMMA RefineHandler ==
  ASSUME TypeOK, TicketInv, NEW h \in Handlers, Arrival(h) \/ Handler(h)
  PROVE  MailboxesNext
<1>1. CASE StoreParamEnd(h)
  <2>1. Carrying(h) /\ req[h].param \in Slots /\ UNCHANGED applied
    BY <1>1, HandlerFrame
       DEF StoreParamEnd, Goto, Carrying, TypeOK, RequestType, Slots
  <2>2. staged' = [staged EXCEPT ![req[h].param] = @ \union {req[h].ticket}]
    BY <1>1 DEF StoreParamEnd
  <2>3. QED
    BY <2>1, <2>2, StageStep DEF MailboxesNext
<1>2. CASE CloseMission(h)
  <2>1. Carrying(h) /\ Mission \in Slots /\ UNCHANGED applied
    BY <1>2, HandlerFrame DEF CloseMission, Goto, Carrying, Slots
  <2>2. staged' = [staged EXCEPT ![Mission] = @ \union {req[h].ticket}]
    BY <1>2 DEF CloseMission
  <2>3. QED
    BY <2>1, <2>2, StageStep DEF MailboxesNext
<1>3. CASE UNCHANGED staged
  <2>1. UNCHANGED applied
    BY HandlerFrame
  <2>2. QED
    BY <1>3, <2>1 DEF MailboxesNext, Delivered, AppliedPlan
<1>4. QED
  BY <1>1, <1>2, <1>3
     DEF Arrival, ReceiveInvalid, ReceiveParamGet, ReceiveParamSet,
         ReceiveTrajectorySet, Receive, Handler, Reply, ParamGet, TryLock, Unlock,
         StoreParam, FlagParam, CheckVersion, OpenMission, StoreRow, StoreRowEnd,
         StoreSegments, FlagMission, PublishVersion, HandlerOnly

(* The end of a parameter's application delivers what the loop loaded.     *)
LEMMA RefineApplyParam ==
  ASSUME TypeOK, ParamInv, ApplyParamEnd
  PROVE  MailboxesNext
<1> USE DEF TypeOK
<1> DEFINE i == ctl.index
           v == ctl.value
<1>1. /\ ctl.pc = "live" /\ i \in Params /\ staged' = staged
      /\ applied' = WithApplied(applied, i, v)
  BY DEF ApplyParamEnd, At, handlerVars
<1>2. /\ applied'.values = [applied.values EXCEPT ![i] = v]
      /\ applied'.mission = applied.mission
      /\ applied'.waypoints = applied.waypoints
      /\ applied.values \in [Params -> Nat]
  BY <1>1 DEF WithApplied, AppliedType
<1>3. i # Mission /\ i \in Slots /\ v \in Nat
  BY <1>1 DEF Params, Mission, Slots, ControllerType
<1>4. AppliedPlan' = AppliedPlan
  BY <1>2 DEF AppliedPlan
<1>5. Delivered' = [Delivered EXCEPT ![i] = v]
  BY <1>2, <1>3, <1>4 DEF Delivered, Slots
<1>6. /\ applied.values[i] <= v
      /\ v \in staged[i] \union {0}
      /\ applied.values[i] \in Nat
  BY <1>1, <1>2 DEF ParamInv, ParamReader
<1>7. Delivered[i] = applied.values[i]
  BY <1>3 DEF Delivered
<1>8. CASE v = applied.values[i]
  <2>1. Delivered' = Delivered
    BY <1>5, <1>7, <1>8 DEF Delivered
  <2>2. QED
    BY <1>1, <2>1 DEF MailboxesNext
<1>9. CASE v # applied.values[i]
  <2>1. v \in staged[i] /\ Delivered[i] < v
    BY <1>3, <1>6, <1>7, <1>9
  <2>2. Mailboxes!Deliver(i)
    BY <1>1, <1>5, <2>1 DEF Mailboxes!Deliver
  <2>3. QED
    BY <1>3, <2>2 DEF MailboxesNext, Mailboxes!Next
<1>10. QED
  BY <1>8, <1>9

(* Hence it is a delivery from the mailbox of plans.                       *)
LEMMA RefineApplyMission ==
  ASSUME TypeOK, MissionInv, TicketInv, ApplyMission
  PROVE  MailboxesNext
<1> USE DEF TypeOK
<1> DEFINE t == AppliedPlan'
<1>1. Mission \in Slots /\ \A i \in Params : i # Mission
  BY DEF Params, Mission, Slots
<1>2. /\ applied'.values = applied.values /\ t \in staged[Mission]
      /\ \A u \in staged[Mission] : u <= t
  BY AppliesNewest
<1>3. Delivered' = [Delivered EXCEPT ![Mission] = t]
  BY <1>1, <1>2 DEF Delivered, Slots
<1>4. staged' = staged
  BY DEF ApplyMission, handlerVars
<1>5. staged[Mission] \subseteq 1 .. ticket
  BY <1>1 DEF TicketInv, Fresh
<1>6. Delivered[Mission] = AppliedPlan
  BY <1>1 DEF Delivered
<1>7. AppliedPlan \in staged[Mission] \union {0}
  <2>1. CASE applied.mission
    BY <2>1, PlanTicket DEF MissionInv, AppliedWhole, AppliedPlan
  <2>2. CASE ~applied.mission
    BY <2>2 DEF AppliedPlan
  <2>3. QED
    BY <2>1, <2>2
<1>8. CASE t = AppliedPlan
  <2>1. Delivered' = Delivered
    BY <1>3, <1>6, <1>8 DEF Delivered
  <2>2. QED
    BY <1>4, <2>1 DEF MailboxesNext
<1>9. CASE t # AppliedPlan
  <2>1. AppliedPlan < t
    BY <1>2, <1>5, <1>7, <1>9
  <2>2. Mailboxes!Deliver(Mission)
    BY <1>2, <1>3, <1>4, <1>6, <2>1 DEF Mailboxes!Deliver
  <2>3. QED
    BY <1>1, <2>2 DEF MailboxesNext, Mailboxes!Next
<1>10. QED
  BY <1>8, <1>9

LEMMA RefineStep ==
  ASSUME TypeOK, MissionInv, ParamInv, TicketInv, [Next]_vars
  PROVE  MailboxesNext
<1>1. ASSUME NEW h \in Handlers, Arrival(h) \/ Handler(h) PROVE MailboxesNext
  BY <1>1, RefineHandler
<1>2. CASE Controller
  <2>1. CASE UNCHANGED applied
    BY <1>2, <2>1, ControllerFrame DEF MailboxesNext, Delivered, AppliedPlan
  <2>2. QED
    BY <1>2, <2>1, RefineApplyParam, RefineApplyMission
       DEF Controller, EfmiInit, NoEdge, RestoreParam, RestoreNothing,
           RestoreParamEnd, RestoreRoute, TakeParam, LoadParam, PutBackParam,
           ApplyParam, TakeMission, ReadBefore, ReadRow, ReadSegments,
           RejectMission, PutBackMission, ModelStep, NoModelStep
<1>3. CASE UNCHANGED vars
  BY <1>3 DEF vars, MailboxesNext, Delivered, AppliedPlan
<1>4. QED
  BY <1>1, <1>2, <1>3 DEF Next

(* The services and the controller implement the mailboxes: only whole     *)
(* staged commands are delivered, and never an older one after a newer.    *)
THEOREM ServicesImplementMailboxes == Spec => ImplementsStagedConfig
<1>1. Init => Mailboxes!Init
  BY DEF Init, Mailboxes!Init, Delivered, AppliedPlan, Slots
<1>2. TypeOK /\ MissionInv /\ ParamInv /\ TicketInv /\ [Next]_vars =>
        [Mailboxes!Next]_(Mailboxes!vars)
  BY RefineStep DEF MailboxesNext, Mailboxes!vars
<1>3. QED
  BY <1>1, <1>2, TypeCorrect, MissionTransfer, ParamTransfer, TicketsInOrder, PTL
     DEF Spec, ImplementsStagedConfig, Mailboxes!Spec
=============================================================================
