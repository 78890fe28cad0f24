-------------------------- MODULE SilHarnessProofs --------------------------
(***************************************************************************)
(* A run that the harness calls a success was one, and when main() returns *)
(* no process is left, whenever processes end, fail or hang.               *)
(***************************************************************************)
EXTENDS SilHarness, TLAPS

Processes == {"router", "native_sim", "plant"}
Statuses == {"none", "running", "succeeded", "failed", "stopped"}

LEMMA HarnessInit == Init => HarnessInv
  BY DEF Init, HarnessInv, SuccessIsEarned, TypeOK, VerdictGrounded,
         StoppedInOrder, Up

(* What a step of the environment can do: processes that run may end, the  *)
(* thread that runs may fail or end; main() stays where it is.             *)
LEMMA EnvironmentStep ==
  ASSUME TypeOK, Environment
  PROVE  /\ UNCHANGED <<args, pc, outcome>>
         /\ proc' \in [Processes -> Statuses]
         /\ \A p \in Processes : proc'[p] # proc[p] => Up(p) /\ ~Up(p)'
         /\ ending' \in {"unset", "succeeded", "failed"}
         /\ thread' \in {"none", "running", "ended"}
         /\ thread' = "running" => thread = "running"
         /\ stop_bridge' \in BOOLEAN /\ bridge_error' \in BOOLEAN
         /\ thread # "running" => bridge_error' = bridge_error
<1> USE DEF TypeOK, Processes, Statuses, Becomes, Up, bridge
<1>1. CASE \E p \in DOMAIN proc : Fails(p)
  BY <1>1 DEF Fails
<1>2. CASE RunnerTerminates
  BY <1>2 DEF RunnerTerminates
<1>3. CASE PlantExits
  <2>1. PICK status \in {"succeeded", "failed"} : Becomes("plant", status)
    BY <1>3 DEF PlantExits
  <2> QED
    BY <1>3, <2>1 DEF PlantExits
<1>4. CASE SimExits
  BY <1>4 DEF SimExits
<1>5. CASE ThreadFails
  BY <1>5 DEF ThreadFails
<1>6. CASE ThreadEnds
  BY <1>6 DEF ThreadEnds
<1> QED
  BY <1>1, <1>2, <1>3, <1>4, <1>5, <1>6 DEF Environment

LEMMA EnvironmentKeepsHarness ==
  ASSUME HarnessInv, Environment
  PROVE  HarnessInv'
<1>1. TypeOK
  BY DEF HarnessInv, SuccessIsEarned
<1>2. TypeOK'
  BY <1>1, EnvironmentStep DEF TypeOK, Processes, Statuses
<1>3. \A p \in Processes : /\ ~Up(p) => ~Up(p)'
                           /\ proc[p] = "succeeded" => proc'[p] = "succeeded"
  BY <1>1, EnvironmentStep DEF Up
<1>4. thread # "running" => thread' # "running" /\ bridge_error' = bridge_error
  BY <1>1, EnvironmentStep
<1>5. UNCHANGED <<pc, outcome>>
  BY <1>1, EnvironmentStep
<1> QED
  BY <1>2, <1>3, <1>4, <1>5
     DEF HarnessInv, SuccessIsEarned, VerdictGrounded, StoppedInOrder, Processes,
         Up

-----------------------------------------------------------------------------
(* main() *)

LEMMA StartKeepsHarness ==
  ASSUME HarnessInv, StartRouter \/ StartSim \/ StartPlant \/ StartFails
  PROVE  HarnessInv'
<1> USE DEF HarnessInv, SuccessIsEarned, TypeOK, VerdictGrounded, StoppedInOrder,
            Up, Start, Goto, Raise, bridge
<1>1. CASE StartRouter
  BY <1>1 DEF StartRouter
<1>2. CASE StartSim
  BY <1>2 DEF StartSim
<1>3. CASE StartPlant
  BY <1>3 DEF StartPlant
<1>4. CASE StartFails
  BY <1>4 DEF StartFails
<1> QED
  BY <1>1, <1>2, <1>3, <1>4

LEMMA WatchKeepsHarness ==
  ASSUME HarnessInv,
         \/ Require("router", "check_router", "start_sim")
         \/ Require("native_sim", "check_sim", "start_plant")
         \/ Poll
         \/ Require("router", "loop_router", "loop_sim")
         \/ Require("native_sim", "loop_sim", "loop_bridge")
         \/ LoopBridge
  PROVE  HarnessInv'
<1> USE DEF HarnessInv, SuccessIsEarned, TypeOK, VerdictGrounded, StoppedInOrder,
            Up, Goto, Raise, bridge
<1>1. CASE Poll
  BY <1>1 DEF Poll
<1>2. CASE LoopBridge
  BY <1>2 DEF LoopBridge
<1>3. CASE ~Poll /\ ~LoopBridge
  BY <1>3 DEF Require
<1> QED
  BY <1>1, <1>2, <1>3

(* The way to the verdict: each look finds what VerdictGrounded keeps.     *)
LEMMA VerdictKeepsHarness ==
  ASSUME HarnessInv, Status \/ Join \/ Joined \/ CheckError \/ Checks
  PROVE  HarnessInv'
<1> USE DEF HarnessInv, SuccessIsEarned, TypeOK, VerdictGrounded, StoppedInOrder,
            Up, Raise, bridge
<1>1. CASE Status
  BY <1>1 DEF Status
<1>2. CASE Join
  BY <1>2 DEF Join
<1>3. CASE Joined
  BY <1>3 DEF Joined, ThreadOver
<1>4. CASE CheckError
  BY <1>4 DEF CheckError
<1>5. CASE Checks
  BY <1>5 DEF Checks
<1> QED
  BY <1>1, <1>2, <1>3, <1>4, <1>5

LEMMA FinallyKeepsHarness ==
  ASSUME HarnessInv, Finally
  PROVE  HarnessInv'
<1> USE DEF HarnessInv, SuccessIsEarned, TypeOK, VerdictGrounded, StoppedInOrder,
            Up, Goto, Stop, bridge
<1>1. CASE Goto("finally", "stop_plant")
  BY <1>1 DEF Finally
<1>2. CASE Stop("plant", "stop_plant", "stop_sim") /\ UNCHANGED bridge
  BY <1>2
<1>3. CASE Stop("native_sim", "stop_sim", "stop_router") /\ UNCHANGED bridge
  BY <1>3
<1>4. CASE Stop("router", "stop_router", "done") /\ UNCHANGED bridge
  BY <1>4
<1> QED
  BY <1>1, <1>2, <1>3, <1>4 DEF Finally

(* HarnessInv holds in every state (lines 1479-1609 of the harness).       *)
THEOREM HarnessCorrect == Spec => []HarnessInv
<1>1. HarnessInv /\ [Next]_vars => HarnessInv'
  <2> SUFFICES ASSUME HarnessInv, [Next]_vars PROVE HarnessInv'
    OBVIOUS
  <2>1. CASE Environment
    BY <2>1, EnvironmentKeepsHarness
  <2>2. CASE Main
    BY <2>2, StartKeepsHarness, WatchKeepsHarness, VerdictKeepsHarness,
       FinallyKeepsHarness DEF Main
  <2>3. CASE UNCHANGED vars
    BY <2>3 DEF vars, HarnessInv, SuccessIsEarned, TypeOK, VerdictGrounded,
                StoppedInOrder, Up
  <2> QED
    BY <2>1, <2>2, <2>3 DEF Next
<1> QED
  BY <1>1, HarnessInit, PTL DEF Spec

(* A run is a success only if the plant ran to its end and the bridge      *)
(* thread did its work to the end, too (lines 1509-1545).                  *)
THEOREM SuccessesAreEarned == Spec => []SuccessIsEarned
  BY HarnessCorrect, PTL DEF HarnessInv

(* When main() has returned, no process of the run is left, however it     *)
(* ended (lines 1601-1609).                                                *)
THEOREM NothingOutlivesRun ==
  Spec => [](pc = "done" => \A p \in DOMAIN proc : ~Up(p))
<1>1. HarnessInv => (pc = "done" => \A p \in DOMAIN proc : ~Up(p))
  BY DEF HarnessInv, SuccessIsEarned, TypeOK, StoppedInOrder
<1> QED
  BY <1>1, HarnessCorrect, PTL
=============================================================================
