------------------------------ MODULE Lockstep ------------------------------
(***************************************************************************)
(* Deterministic lockstep over shared memory: the FMI 3 runner with the    *)
(* plant (tests/zephyr/fmi3_lockstep_runner.c), the firmware               *)
(* (subsys/lockstep/lockstep.c) and, under FastDyn, the bridge between     *)
(* their two shared objects (tools/fastdyn_bridge/src/main.rs).  One       *)
(* action per access to a shared object.  Sample n is taken at time n - 1; *)
(* sample 0 is the cleared payload.  The controller's outputs carry the    *)
(* number and the timestamp of the sample they were computed from.         *)
(***************************************************************************)
EXTENDS Naturals, Sequences

CONSTANT Steps  \* The samples of the run: t_end / 0.02 + 1.

ASSUME LockstepAssumption == Steps \in Nat \ {0}

VARIABLES
  up,        \* The runner's shared object.
  down,      \* The one in FastDyn's RAM.
  runner, bridge, firmware,
  computed   \* History: the samples the controller computed outputs from.

vars == <<up, down, runner, bridge, firmware, computed>>

(* FastDyn: the bridge is between runner and firmware. *)
Bridged == bridge.pc # "absent"
near == IF Bridged THEN down ELSE up   \* the firmware's

Cleared == [magic |-> FALSE, odometry_sequence |-> 0, response_sequence |-> 0,
            terminate |-> FALSE, odometry |-> 0, outputs |-> 0]

(* FastDyn's RAM: reset_memory_files = true (fastdyn/mr_vmu_tropic.toml).   *)
LeftBehind == [Cleared EXCEPT !.magic = TRUE]              \* mutant
Fresh == Cleared

(* The harness prepares a new file with the magic word for the runner.     *)
Init ==
  /\ up = [Cleared EXCEPT !.magic = TRUE]
  /\ down = Fresh
  /\ runner = [pc |-> "open", sequence |-> 0, outputs |-> 0,
               result |-> "running"]
  /\ bridge \in [pc : {"open", "absent"}, completed : {0}, sequence : {0},
                 odometry : {0}, outputs : {0}]
  /\ firmware = [pc |-> "boot", completed |-> 0, sequence |-> 0,
                 odometry |-> 0]
  /\ computed = <<>>

-----------------------------------------------------------------------------
(* The runner *)

RunnerStep(from, to) ==
  /\ runner.pc = from
  /\ runner' = [runner EXCEPT !.pc = to]
  /\ UNCHANGED <<down, bridge, firmware, computed>>

RunnerEnds(result) ==
  runner' = [runner EXCEPT !.pc = "terminate", !.result = result]

RunnerOpen ==
  /\ up.magic
  /\ RunnerStep("open", "write")
  /\ UNCHANGED up

(* The FMU cannot be instantiated or the object not be mapped: there is    *)
(* no object yet in which to say that the run is over.                     *)
RunnerNeverOpens ==
  /\ runner.pc = "open"
  /\ runner' = [runner EXCEPT !.pc = "done", !.result = "failure"]
  /\ UNCHANGED <<up, down, bridge, firmware, computed>>

WriteOdometry ==
  /\ RunnerStep("write", "post")
  /\ up' = [up EXCEPT !.odometry = runner.sequence + 1]

Post ==
  /\ runner.pc = "post"
  /\ runner' = [runner EXCEPT !.pc = "wait", !.sequence = @ + 1]
  /\ up' = [up EXCEPT !.odometry_sequence = runner.sequence + 1]
  /\ UNCHANGED <<down, bridge, firmware, computed>>

AnyAnswer(response, sequence) == response <= sequence      \* mutant
Answers(response, sequence) == response = sequence

SeeResponse ==
  /\ Answers(up.response_sequence, runner.sequence)
  /\ RunnerStep("wait", "copy")
  /\ UNCHANGED up

(* The FMU fails, before or after the exchange; or the deadline passes,    *)
(* perhaps just after the response arrived.                                *)
NoDeadline == {"write", "step"}                            \* mutant
RunnerFailsAt == {"write", "wait", "step"}

RunnerGivesUp ==
  /\ runner.pc \in RunnerFailsAt
  /\ RunnerEnds("failure")
  /\ UNCHANGED <<up, down, bridge, firmware, computed>>

Timestamp(sample) == IF sample = 0 THEN 0 ELSE sample - 1

CopyOutputs ==
  /\ runner.pc = "copy"
  /\ IF Timestamp(up.outputs) < Timestamp(runner.sequence)
       THEN RunnerEnds("failure")
       ELSE runner' = [runner EXCEPT !.pc = "step",
                                     !.outputs = up.outputs]
  /\ UNCHANGED <<up, down, bridge, firmware, computed>>

OneStepMore == runner.sequence <= Steps                    \* mutant
WillStep == runner.sequence < Steps

StepPlant ==
  /\ runner.pc = "step"
  /\ IF WillStep
       THEN runner' = [runner EXCEPT !.pc = "write"]
       ELSE RunnerEnds("success")
  /\ UNCHANGED <<up, down, bridge, firmware, computed>>

Terminate ==
  /\ RunnerStep("terminate", "bump")
  /\ up' = [up EXCEPT !.terminate = TRUE]

(* A sequence number without a sample wakes who waits for one. *)
Bump ==
  /\ RunnerStep("bump", "done")
  /\ up' = [up EXCEPT !.odometry_sequence = @ + 1]

RunnerWorks == RunnerOpen \/ WriteOdometry \/ Post \/ SeeResponse
               \/ CopyOutputs \/ StepPlant \/ Terminate \/ Bump

Runner == RunnerWorks \/ RunnerNeverOpens \/ RunnerGivesUp

-----------------------------------------------------------------------------
(* The bridge *)

BridgeStep(from, to) ==
  /\ bridge.pc = from
  /\ bridge' = [bridge EXCEPT !.pc = to]
  /\ UNCHANGED <<runner, firmware, computed>>

BridgeOpen ==
  /\ up.magic
  /\ BridgeStep("open", "connect")
  /\ UNCHANGED <<up, down>>

(* FastDyn's RAM file does not appear in time. *)
BridgeNeverMaps ==
  /\ BridgeStep("connect", "done")
  /\ UNCHANGED <<up, down>>

BridgeConnect ==
  /\ bridge.pc = "connect"
  /\ down.magic
  /\ bridge' = [bridge EXCEPT !.pc = "poll",
                              !.completed = up.response_sequence]
  /\ UNCHANGED <<up, down, runner, firmware, computed>>

(* The firmware does not start, or does not respond, in time. *)
BridgeTimesOutAt == {"connect", "wait"}

BridgeGivesUp ==
  /\ bridge.pc \in BridgeTimesOutAt
  /\ bridge' = [bridge EXCEPT !.pc = "drop"]
  /\ UNCHANGED <<up, down, runner, firmware, computed>>

BridgePoll ==
  /\ BridgeStep("poll", IF up.terminate THEN "drop" ELSE "look")
  /\ UNCHANGED <<up, down>>

BridgeIdle ==
  /\ up.odometry_sequence = bridge.completed
  /\ BridgeStep("look", "poll")
  /\ UNCHANGED <<up, down>>

BridgeLook ==
  /\ bridge.pc = "look"
  /\ up.odometry_sequence # bridge.completed
  /\ bridge' = [bridge EXCEPT !.pc = "read", !.sequence = up.odometry_sequence]
  /\ UNCHANGED <<up, down, runner, firmware, computed>>

BridgeRead ==
  /\ bridge.pc = "read"
  /\ bridge' = [bridge EXCEPT !.pc = "write", !.odometry = up.odometry]
  /\ UNCHANGED <<up, down, runner, firmware, computed>>

BridgeWrite ==
  /\ BridgeStep("write", "post")
  /\ down' = [down EXCEPT !.odometry = bridge.odometry]
  /\ UNCHANGED up

BridgePost ==
  /\ BridgeStep("post", "wait")
  /\ down' = [down EXCEPT !.odometry_sequence = bridge.sequence]
  /\ UNCHANGED up

BridgeSeesResponse ==
  /\ Answers(down.response_sequence, bridge.sequence)
  /\ BridgeStep("wait", "copy")
  /\ UNCHANGED <<up, down>>

BridgeCopy ==
  /\ bridge.pc = "copy"
  /\ bridge' = [bridge EXCEPT !.pc = "answer", !.outputs = down.outputs]
  /\ UNCHANGED <<up, down, runner, firmware, computed>>

BridgeAnswer ==
  /\ BridgeStep("answer", "respond")
  /\ up' = [up EXCEPT !.outputs = bridge.outputs]
  /\ UNCHANGED down

BridgeRespond ==
  /\ bridge.pc = "respond"
  /\ bridge' = [bridge EXCEPT !.pc = "poll", !.completed = bridge.sequence]
  /\ up' = [up EXCEPT !.response_sequence = bridge.sequence]
  /\ UNCHANGED <<down, runner, firmware, computed>>

Drop ==
  /\ BridgeStep("drop", "done")
  /\ down' = [down EXCEPT !.terminate = TRUE]
  /\ UNCHANGED up

BridgeWorks == BridgeOpen \/ BridgeConnect \/ BridgePoll \/ BridgeIdle
               \/ BridgeLook \/ BridgeRead \/ BridgeWrite \/ BridgePost
               \/ BridgeSeesResponse \/ BridgeCopy \/ BridgeAnswer
               \/ BridgeRespond \/ Drop

Bridge == BridgeWorks \/ BridgeNeverMaps \/ BridgeGivesUp

-----------------------------------------------------------------------------
(* The firmware *)

FirmwareStep(from, to) ==
  /\ firmware.pc = from
  /\ firmware' = [firmware EXCEPT !.pc = to]
  /\ UNCHANGED <<runner, bridge, computed>>

SetNear(object) ==
  IF Bridged THEN down' = object /\ UNCHANGED up
             ELSE up' = object /\ UNCHANGED down

(* cubs2_lockstep_start: native_sim maps the object and finds the magic    *)
(* word, FastDyn's image clears its own.  The compiler clears the object   *)
(* first and stores the magic word last.                                   *)
MapShared ==
  /\ ~Bridged /\ up.magic
  /\ FirmwareStep("boot", "init")
  /\ UNCHANGED <<up, down>>

ClearShared ==
  /\ Bridged
  /\ FirmwareStep("boot", "mark")
  /\ down' = Cleared
  /\ UNCHANGED up

StoreMagic ==
  /\ FirmwareStep("mark", "init")
  /\ down' = [down EXCEPT !.magic = TRUE]
  /\ UNCHANGED up

(* The sequence follower takes up at the last response. *)
FollowInput == near.odometry_sequence                \* mutant
Follow == near.response_sequence

SequenceInit ==
  /\ firmware.pc = "init"
  /\ firmware' = [firmware EXCEPT !.pc = "wait", !.completed = Follow]
  /\ UNCHANGED <<up, down, runner, bridge, computed>>

(* cerebri_lockstep_sequence_wait, external: it ends for a new sequence    *)
(* number or for `terminate`; for either where both are there.             *)
TakeSequence ==
  /\ firmware.pc = "wait"
  /\ near.odometry_sequence # firmware.completed
  /\ firmware' = [firmware EXCEPT !.pc = "copy",
                    !.sequence = near.odometry_sequence]
  /\ UNCHANGED <<up, down, runner, bridge, computed>>

CanceledNever == FALSE                                     \* mutant
Canceled == near.terminate

StopFirmware ==
  /\ Canceled
  /\ FirmwareStep("wait", "done")
  /\ UNCHANGED <<up, down>>

(* cubs2_lockstep_receive copies the sample; the loop computes. *)
ReceiveOdometry ==
  /\ firmware.pc = "copy"
  /\ firmware' = [firmware EXCEPT !.pc = "write",
                                  !.odometry = near.odometry]
  /\ computed' = Append(computed, near.odometry)
  /\ UNCHANGED <<up, down, runner, bridge>>

WriteOutputs ==
  /\ FirmwareStep("write", "respond")
  /\ SetNear([near EXCEPT !.outputs = firmware.odometry])

Respond ==
  /\ firmware.pc = "respond"
  /\ firmware' = [firmware EXCEPT !.pc = "wait",
                                  !.completed = firmware.sequence]
  /\ SetNear([near EXCEPT !.response_sequence = firmware.sequence])
  /\ UNCHANGED <<runner, bridge, computed>>

Firmware == MapShared \/ ClearShared \/ StoreMagic \/ SequenceInit
            \/ TakeSequence \/ StopFirmware \/ ReceiveOdometry
            \/ WriteOutputs \/ Respond

-----------------------------------------------------------------------------

(* QEMU or native_sim dies. *)
FirmwareFails ==
  /\ firmware.pc # "done"
  /\ firmware' = [firmware EXCEPT !.pc = "done"]
  /\ UNCHANGED <<up, down, runner, bridge, computed>>

Next == Runner \/ Bridge \/ Firmware \/ FirmwareFails

Spec == Init /\ [][Next]_vars

(* Each party runs on until it ends; none has to fail or time out.         *)
FairSpec ==
  /\ Spec
  /\ WF_vars(RunnerWorks) /\ WF_vars(BridgeWorks) /\ WF_vars(Firmware)

-----------------------------------------------------------------------------
(* Properties *)

Numbers == 0 .. Steps + 1   \* sequence numbers: one more than samples
Samples == 0 .. Steps

Shared ==
  [magic : BOOLEAN, odometry_sequence : Numbers, response_sequence : Numbers,
   terminate : BOOLEAN, odometry : Samples, outputs : Samples]

TypeOK ==
  /\ up \in Shared /\ down \in Shared
  /\ runner \in [pc : {"open", "write", "post", "wait", "copy", "step",
                       "terminate", "bump", "done"},
                 sequence : Samples, outputs : Samples,
                 result : {"running", "success", "failure"}]
  /\ bridge \in [pc : {"open", "connect", "poll", "look", "read", "write",
                       "post", "wait", "copy", "answer", "respond", "drop",
                       "done", "absent"},
                 completed : Numbers, sequence : Numbers,
                 odometry : Samples, outputs : Samples]
  /\ firmware \in [pc : {"boot", "mark", "init", "wait", "copy", "write",
                         "respond", "done"},
                   completed : Numbers, sequence : Numbers,
                   odometry : Samples]
  /\ computed \in Seq(Samples)

(* The plant is never driven by outputs computed from another sample than  *)
(* the one just handed out, through two shared objects and a bridge, with  *)
(* parties giving up anywhere (fmi3_lockstep_runner.c:535-550,             *)
(* main.rs:82-90, 169-204, 342-348).  The runner's own test of timestamps  *)
(* (551) would let pass the outputs of the cleared sample as those of the  *)
(* first.                                                                  *)
AnswersOwnSample ==
  runner.pc = "step" => runner.outputs = runner.sequence

(* The controller integrates: it computes every sample in its turn and     *)
(* once.  Only when the runner has gone may it compute the last one again, *)
(* for the number that wakes it (756): the bridge has looked at            *)
(* `terminate` (main.rs:342) before it was set and at the number after.    *)
ComputedOnce ==
  \A i \in 1 .. Len(computed) :
    \/ computed[i] = i
    \/ computed[i] = i - 1 /\ i = Len(computed) /\ runner.pc = "done"

(* A payload is a plain struct: nobody reads one while another writes it,  *)
(* nor do two write it, the clearing of the object at the firmware's start *)
(* included (lockstep.c:52-54, 82, 94-95).                                 *)
NoPayloadRace ==
  /\ runner.pc = "write" =>
       bridge.pc # "read" /\ (~Bridged => firmware.pc # "copy")
  /\ runner.pc = "copy" =>
       bridge.pc # "answer" /\ (~Bridged => firmware.pc # "write")
  /\ bridge.pc = "write" => firmware.pc \notin {"boot", "copy"}
  /\ bridge.pc = "copy" => firmware.pc \notin {"boot", "write"}

(* The firmware, with or without the bridge, is a controller in step with  *)
(* the plant.                                                              *)
Newest == IF computed = <<>> THEN 0 ELSE computed[Len(computed)]

InStep == INSTANCE Alternation WITH
  asked <- runner.sequence, computed <- Newest, answered <- runner.outputs,
  result <- runner.result

StaysInStep == InStep!Spec

(* Why these hold.  The runner asks for sample n, under the number n; once *)
(* it has ended, a last number n + 1 stands for sample n again.  Who works *)
(* on a number has not answered it, so the runner stays at sample n until  *)
(* it has or gives up; at the firmware's end a number stands for the same  *)
(* sample as at the runner's.                                              *)
current == runner.sequence
Ended == runner.pc = "done" /\ up.terminate

RunnerInv ==
  /\ up.magic
  /\ up.odometry_sequence = IF Ended THEN current + 1 ELSE current
  /\ up.odometry = IF runner.pc = "post" THEN current + 1 ELSE current
  /\ up.terminate => runner.pc \in {"bump", "done"}
  /\ runner.pc = "bump" => up.terminate
  /\ runner.pc = "open" \/ (runner.pc = "done" /\ ~Ended) => current = 0
  /\ runner.pc \in {"write", "post"} => current < Steps
  /\ runner.pc \in {"wait", "copy"} =>
       current > 0 /\ runner.outputs = current - 1
  /\ runner.pc \in {"open", "write", "post", "step"} =>
       runner.outputs = current
  /\ runner.pc \in {"open", "write", "post", "copy", "step"} =>
       up.response_sequence = current
  /\ current - 1 <= up.response_sequence
  /\ up.response_sequence <= up.odometry_sequence
  /\ current <= up.response_sequence => up.outputs = current
  /\ runner.result = "running" <=>
       runner.pc \notin {"terminate", "bump", "done"}

(* A number that is worked on. *)
Asked(number) ==
  /\ up.response_sequence < number
  /\ number = current \/ (Ended /\ number = current + 1)

BridgeInv ==
  /\ bridge.pc \in {"poll", "look", "read", "write", "post"} =>
       /\ down.odometry_sequence = up.response_sequence
       /\ down.response_sequence = up.response_sequence
  /\ bridge.pc \in {"poll", "look", "read", "write", "post", "wait", "copy",
                    "answer", "respond"} =>
       bridge.completed = up.response_sequence
  /\ bridge.pc \in {"read", "write", "post", "wait", "copy", "answer",
                    "respond"} => Asked(bridge.sequence)
  /\ bridge.pc \in {"write", "post", "wait", "copy", "answer", "respond"} =>
       bridge.odometry = current
  /\ bridge.pc \in {"post", "wait", "copy", "answer", "respond"} =>
       down.odometry = current
  /\ bridge.pc \in {"wait", "copy", "answer", "respond"} =>
       down.odometry_sequence = bridge.sequence
  /\ bridge.pc \in {"copy", "answer", "respond"} =>
       down.response_sequence = bridge.sequence
  /\ bridge.pc \in {"answer", "respond"} => bridge.outputs = current
  /\ bridge.pc = "respond" => up.outputs = current

(* The bridge's numbers are the runner's. *)
DownInv ==
  /\ up.response_sequence <= down.response_sequence
  /\ down.response_sequence <= down.odometry_sequence
  /\ down.odometry_sequence <= up.odometry_sequence
  /\ down.odometry_sequence # down.response_sequence =>
       Asked(down.odometry_sequence) /\ down.odometry = current
  /\ current <= down.response_sequence => down.outputs = current
  /\ bridge.pc \in {"open", "connect"} \/ firmware.pc \in {"boot", "mark"} =>
       /\ up.response_sequence = 0 /\ down.response_sequence = 0
       /\ down.odometry_sequence = 0
  /\ firmware.pc \in {"boot", "mark"} =>
       ~down.magic /\ bridge.pc \in {"open", "connect", "drop", "done"}

FirmwareInv ==
  /\ firmware.pc \in {"boot", "mark", "init"} =>
       near.response_sequence = 0 /\ computed = <<>>
  /\ firmware.pc \in {"wait", "copy", "write", "respond"} =>
       firmware.completed = near.response_sequence
  /\ firmware.pc \in {"copy", "write", "respond"} =>
       /\ Asked(firmware.sequence)
       /\ near.response_sequence < firmware.sequence
       /\ near.odometry = current
       /\ Bridged => down.odometry_sequence = firmware.sequence
  /\ firmware.pc \in {"write", "respond"} => firmware.odometry = current
  /\ firmware.pc = "respond" => near.outputs = current

(* How many samples were computed, given the number last answered, or      *)
(* being answered; a firmware that died may have computed one more.        *)
HasComputed(n) ==
  Len(computed) = n \/ (firmware.pc = "done" /\ Len(computed) = n + 1)

ComputedInv ==
  LET busy == firmware.pc \in {"write", "respond"}
      number ==
        IF busy THEN firmware.sequence ELSE near.response_sequence
  IN /\ number = current - 1 => HasComputed(current - 1)
     /\ number = current => HasComputed(current)
     /\ number = current + 1 => Len(computed) \in {current, current + 1}
     /\ busy /\ near.response_sequence = current - 1 =>
          Len(computed) = current
     /\ Len(computed) = current + 1 => Ended
     /\ \A i \in 1 .. Len(computed) :
          computed[i] = IF i <= current THEN i ELSE current

LockstepInv ==
  /\ TypeOK
  /\ RunnerInv
  /\ Bridged => BridgeInv /\ DownInv
  /\ ~Bridged => firmware.pc # "mark"
  /\ FirmwareInv
  /\ ComputedInv

(* Whatever becomes of the firmware, deadlines and `terminate` bring the   *)
(* runner and the bridge to an end; the bridge only if the runner had an   *)
(* object to say so in (fmi3_lockstep_runner.c:542, 754, main.rs:188, 342).*)
Deadlines == WF_vars(RunnerGivesUp) /\ WF_vars(BridgeGivesUp)

HostsEnd ==
  Deadlines =>
    /\ <>(runner.pc = "done")
    /\ [](runner.pc = "terminate" => <>(bridge.pc \in {"done", "absent"}))

(* A firmware that is connected to the runner stops after it, or after a   *)
(* bridge that gave it up (lockstep.c:71-78, main.rs:207-211).             *)
Connected ==
  /\ runner.pc \notin {"open", "done"}
  /\ bridge.pc \notin {"open", "connect", "drop", "done"}

FirmwareFollows == Connected ~> (firmware.pc = "done")

(* No sample and no answer is lost on the way, from the parties' start in  *)
(* any order on: the run ends in success unless someone gives up, though   *)
(* no deadline helps a lost number along.                                  *)
GaveUp ==
  \/ runner.result = "failure"
  \/ bridge.pc \in {"drop", "done"}
  \/ firmware.pc = "done"

RunSucceeds == <>(runner.result = "success" \/ GaveUp)
=============================================================================
