----------------------------- MODULE SilHarness -----------------------------
(***************************************************************************)
(* tests/zephyr/run_native_sim_zenoh_sil.py: main() starts a router, the   *)
(* firmware (native_sim, or the bridge in its place), the plant and, for   *)
(* the Rumoca backend, a bridge thread; watches them; and stops them.  The *)
(* processes and the thread run on between any two of its looks at them.   *)
(***************************************************************************)
EXTENDS Naturals

VARIABLES
  args,          \* backend: "fmi3" or "rumoca"; reuse_router
  proc,          \* Each process.
  ending,        \* Once the runner has set `terminate`: how it will exit.
  thread,        \* bridge_thread
  stop_bridge,   \* The event of that name.
  bridge_error,  \* bridge_log.error is not None
  pc,            \* The line main() is at.
  outcome        \* "running", "success", "failure", or who "exited early"

vars == <<args, proc, ending, thread, stop_bridge, bridge_error, pc, outcome>>
bridge == <<thread, stop_bridge, bridge_error>>

Init ==
  /\ args \in [backend : {"fmi3", "rumoca"}, reuse_router : BOOLEAN]
  /\ proc = [p \in {"router", "native_sim", "plant"} |-> "none"]
  /\ ending = "unset"
  /\ thread = "none"
  /\ stop_bridge = FALSE
  /\ bridge_error = FALSE
  /\ pc = "start_router"
  /\ outcome = "running"

-----------------------------------------------------------------------------
(* The processes and the bridge thread *)

Up(p) == proc[p] = "running"

Becomes(p, status) ==
  /\ proc' = [proc EXCEPT ![p] = status]
  /\ UNCHANGED <<args, bridge, pc, outcome>>

(* Any process may end on its own before its time. *)
Fails(p) == Up(p) /\ Becomes(p, "failed") /\ UNCHANGED ending

(* The runner's cleanup sets `terminate` while it still runs: the FMU is   *)
(* freed and the trace files are flushed afterwards                        *)
(* (fmi3_lockstep_runner.c:753-770).                                       *)
RunnerTerminates ==
  /\ args.backend = "fmi3" /\ Up("plant") /\ ending = "unset"
  /\ ending' \in {"succeeded", "failed"}
  /\ UNCHANGED <<args, proc, bridge, pc, outcome>>

PlantExits ==
  /\ Up("plant")
  /\ \E status \in {"succeeded", "failed"} :
       /\ args.backend = "fmi3" => status = ending
       /\ Becomes("plant", status)
  /\ UNCHANGED ending

(* lockstep.c:73-78: nsi_exit(0) once the runner has set `terminate`. *)
SimExits ==
  /\ ending # "unset" /\ Up("native_sim")
  /\ Becomes("native_sim", "succeeded")
  /\ UNCHANGED ending

(* bridge_topics ends by its event, or sets it when something goes wrong.  *)
ThreadFails ==
  /\ thread = "running" /\ ~bridge_error
  /\ bridge_error' = TRUE /\ stop_bridge' = TRUE
  /\ UNCHANGED <<args, proc, ending, thread, pc, outcome>>

ThreadEnds ==
  /\ thread = "running" /\ stop_bridge
  /\ thread' = "ended"
  /\ UNCHANGED <<args, proc, ending, stop_bridge, bridge_error, pc, outcome>>

Environment ==
  \/ \E p \in DOMAIN proc : Fails(p)
  \/ RunnerTerminates \/ PlantExits \/ SimExits \/ ThreadFails \/ ThreadEnds

-----------------------------------------------------------------------------
(* main() *)

Goto(from, to) == pc = from /\ pc' = to

Raise(what) == pc' = "finally" /\ outcome' = what

Start(p, from, to) ==
  /\ Goto(from, to)
  /\ proc' = [proc EXCEPT ![p] = "running"]
  /\ UNCHANGED <<args, ending, outcome>>

StartRouter ==
  \/ ~args.reuse_router /\ Start("router", "start_router", "check_router")
     /\ UNCHANGED bridge
  \/ /\ args.reuse_router /\ Goto("start_router", "start_sim")
     /\ UNCHANGED <<args, proc, ending, bridge, outcome>>

StartSim == Start("native_sim", "start_sim", "check_sim") /\ UNCHANGED bridge

StartPlant ==
  /\ Start("plant", "start_plant", "poll")
  /\ thread' = IF args.backend = "rumoca" THEN "running" ELSE "none"
  /\ UNCHANGED <<stop_bridge, bridge_error>>

(* A program is not there: start_process raises. *)
StartFails ==
  /\ \/ pc = "start_router" /\ ~args.reuse_router
     \/ pc \in {"start_sim", "start_plant"}
  /\ Raise("failure")
  /\ thread' = IF pc = "start_plant" /\ args.backend = "rumoca"
                 THEN "running" ELSE thread
  /\ UNCHANGED <<args, proc, ending, stop_bridge, bridge_error>>

(* require_running(process, log_path, name) *)
Require(p, from, to) ==
  /\ pc = from
  /\ IF ~Up(p) THEN Raise(p) ELSE pc' = to /\ UNCHANGED outcome
  /\ UNCHANGED <<args, proc, ending, bridge>>

Poll ==
  /\ Goto("poll", IF ~Up("plant") THEN "status"
                  ELSE IF args.reuse_router THEN "loop_sim" ELSE "loop_router")
  /\ UNCHANGED <<args, proc, ending, bridge, outcome>>

ErrorIgnored == FALSE                                      \* mutant
ErrorSeen == args.backend = "rumoca" /\ bridge_error

LoopBridge ==
  /\ pc = "loop_bridge"
  /\ IF ErrorSeen THEN Raise("failure") ELSE pc' = "poll" /\ UNCHANGED outcome
  /\ UNCHANGED <<args, proc, ending, bridge>>

Status ==
  /\ pc = "status"
  /\ IF proc.plant = "succeeded" THEN pc' = "join" /\ UNCHANGED outcome
     ELSE Raise("failure")
  /\ UNCHANGED <<args, proc, ending, bridge>>

(* stop_bridge.set() and join with a timeout; then bridge_log.error *)
Join ==
  /\ pc = "join"
  /\ stop_bridge' = TRUE
  /\ pc' = "joined"
  /\ UNCHANGED <<args, proc, ending, thread, bridge_error, outcome>>

NoNeedToJoin == TRUE                                       \* mutant
ThreadOver == thread # "running"

Joined ==
  /\ pc = "joined"
  /\ \/ ThreadOver /\ pc' = "bridge_error" /\ UNCHANGED outcome
     \/ thread = "running" /\ Raise("failure")
  /\ UNCHANGED <<args, proc, ending, bridge>>

CheckError ==
  /\ pc = "bridge_error"
  /\ IF bridge_error THEN Raise("failure") ELSE pc' = "checks" /\ UNCHANGED outcome
  /\ UNCHANGED <<args, proc, ending, bridge>>

(* The metrics of the run are within their limits or not. *)
Checks ==
  /\ pc = "checks"
  /\ \E verdict \in {"success", "failure"} : Raise(verdict)
  /\ UNCHANGED <<args, proc, ending, bridge>>

(* stop_process: terminate, or kill after a timeout *)
Stop(p, from, to) ==
  /\ Goto(from, to)
  /\ proc' = [proc EXCEPT ![p] = IF Up(p) THEN "stopped" ELSE @]
  /\ UNCHANGED <<args, ending, outcome>>

Finally ==
  \/ /\ Goto("finally", "stop_plant")    \* a join that may time out
     /\ stop_bridge' = TRUE
     /\ UNCHANGED <<args, proc, ending, thread, bridge_error, outcome>>
  \/ /\ \/ Stop("plant", "stop_plant", "stop_sim")
        \/ Stop("native_sim", "stop_sim", "stop_router")
        \/ Stop("router", "stop_router", "done")
     /\ UNCHANGED bridge

Main ==
  \/ StartRouter
  \/ Require("router", "check_router", "start_sim")
  \/ StartSim
  \/ Require("native_sim", "check_sim", "start_plant")
  \/ StartPlant
  \/ StartFails
  \/ Poll
  \/ Require("router", "loop_router", "loop_sim")
  \/ Require("native_sim", "loop_sim", "loop_bridge")
  \/ LoopBridge \/ Status \/ Join \/ Joined \/ CheckError \/ Checks \/ Finally

Next == Main \/ Environment

Spec == Init /\ [][Next]_vars

(* main() runs on: each of its waits has a timeout.  Processes may hang.   *)
FairSpec == Spec /\ WF_vars(Main)

-----------------------------------------------------------------------------
(* Properties *)

TypeOK ==
  /\ args \in [backend : {"fmi3", "rumoca"}, reuse_router : BOOLEAN]
  /\ proc \in [{"router", "native_sim", "plant"} ->
       {"none", "running", "succeeded", "failed", "stopped"}]
  /\ ending \in {"unset", "succeeded", "failed"}
  /\ thread \in {"none", "running", "ended"}
  /\ stop_bridge \in BOOLEAN /\ bridge_error \in BOOLEAN
  /\ pc \in {"start_router", "check_router", "start_sim", "check_sim",
             "start_plant", "poll", "loop_router", "loop_sim", "loop_bridge",
             "status", "join", "joined", "bridge_error", "checks", "finally",
             "stop_plant", "stop_sim", "stop_router", "done"}
  /\ outcome \in {"running", "success", "failure", "router", "native_sim"}

(* State keeps its form.  A run is a success only if the plant ran to its  *)
(* end and the bridge thread did its work to the end, too: nothing can go  *)
(* wrong in it after the look at bridge_log.error (lines 1509-1545).       *)
SuccessIsEarned ==
  /\ TypeOK
  /\ outcome = "success" =>
       proc.plant = "succeeded" /\ ~bridge_error /\ thread # "running"

(* When a party is gone, the run ends, though the plant waits for it for   *)
(* ever (1500-1524), and none of its processes outlives it (1601-1609):    *)
(* the firmware of one run would answer the samples of the next.           *)
Over == pc = "done" /\ \A p \in DOMAIN proc : ~Up(p)

FailureEndsRun ==
  /\ \A p \in {"router", "native_sim"} : (proc[p] = "failed") ~> Over
  /\ bridge_error ~> Over

(* "{name} exited early with status {rc}" (line 290): not said of a         *)
(* native_sim that stopped because the runner, its run a success, told it  *)
(* to.                                                                     *)
ExitedEarly ==
  outcome = "native_sim" =>
    ~(proc.native_sim = "succeeded" /\ ending = "succeeded")

-----------------------------------------------------------------------------
(* Why SuccessIsEarned holds: an inductive invariant. *)

(* What main() knows on its way to the verdict stays true while processes  *)
(* and the thread run on: neither a plant that has ended nor a thread that *)
(* has ended does anything any more.                                       *)
VerdictGrounded ==
  /\ pc \in {"join", "joined", "bridge_error", "checks"} =>
       proc.plant = "succeeded"
  /\ pc \in {"bridge_error", "checks"} => thread # "running"
  /\ pc = "checks" => ~bridge_error
  /\ pc \notin {"finally", "stop_plant", "stop_sim", "stop_router", "done"} =>
       outcome = "running"

(* The processes are stopped one after the other, and none is started.     *)
StoppedInOrder ==
  /\ pc \in {"stop_sim", "stop_router", "done"} => ~Up("plant")
  /\ pc \in {"stop_router", "done"} => ~Up("native_sim")
  /\ pc = "done" => ~Up("router")

HarnessInv == SuccessIsEarned /\ VerdictGrounded /\ StoppedInOrder
=============================================================================
