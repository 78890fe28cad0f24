--------------------------- MODULE LockstepProofs ---------------------------
(***************************************************************************)
(* The lockstep protocol, with and without the bridge, with parties giving *)
(* up anywhere, for runs of any length: every sample is computed in its    *)
(* turn, the plant is driven by the answer to its own sample, nobody reads *)
(* a payload that is being written, and the whole implements Alternation.  *)
(***************************************************************************)
EXTENDS Lockstep, SequenceTheorems, TLAPS

USE LockstepAssumption DEF Bridged, HasComputed

(* Every step of every party keeps the numbers and payloads in the two     *)
(* shared objects those of one exchange.                                   *)
-----------------------------------------------------------------------------
(* The runner *)

LEMMA RunnerOpenKeeps == LockstepInv /\ RunnerOpen => LockstepInv'
<1> SUFFICES ASSUME LockstepInv, RunnerOpen PROVE LockstepInv'
  OBVIOUS
<1> USE DEF RunnerOpen, RunnerStep, RunnerEnds, Answers, RunnerFailsAt,
  WillStep, Timestamp
<1>0. TypeOK
  BY DEF LockstepInv
<1>1. TypeOK'
  BY <1>0 DEF TypeOK, Shared
<1> USE DEF LockstepInv, TypeOK, Shared, Numbers, Samples, near
<1> USE DEF RunnerInv, BridgeInv, DownInv, FirmwareInv, ComputedInv, Asked,
  Ended, current
<1>2. RunnerInv'
  OBVIOUS
<1>3. Bridged => BridgeInv'
  OBVIOUS
<1>4. Bridged => DownInv'
  OBVIOUS
<1>5. ~Bridged => firmware'.pc # "mark"
  OBVIOUS
<1>6. FirmwareInv'
  OBVIOUS
<1>7. ComputedInv'
  OBVIOUS
<1>8. Bridged' <=> Bridged
  OBVIOUS
<1> QED
  BY <1>8, <1>1, <1>2, <1>3, <1>4, <1>5, <1>6, <1>7

LEMMA RunnerNeverOpensKeeps == LockstepInv /\ RunnerNeverOpens => LockstepInv'
<1> SUFFICES ASSUME LockstepInv, RunnerNeverOpens PROVE LockstepInv'
  OBVIOUS
<1> USE DEF RunnerNeverOpens, RunnerStep, RunnerEnds, Answers, RunnerFailsAt,
  WillStep, Timestamp
<1>0. TypeOK
  BY DEF LockstepInv
<1>1. TypeOK'
  BY <1>0 DEF TypeOK
<1> USE DEF LockstepInv, TypeOK, Shared, Numbers, Samples, near
<1> USE DEF RunnerInv, BridgeInv, DownInv, FirmwareInv, ComputedInv, Asked,
  Ended, current
<1>2. RunnerInv'
  OBVIOUS
<1>3. Bridged => BridgeInv'
  OBVIOUS
<1>4. Bridged => DownInv'
  OBVIOUS
<1>5. ~Bridged => firmware'.pc # "mark"
  OBVIOUS
<1>6. FirmwareInv'
  OBVIOUS
<1>7. ComputedInv'
  OBVIOUS
<1>8. Bridged' <=> Bridged
  OBVIOUS
<1> QED
  BY <1>8, <1>1, <1>2, <1>3, <1>4, <1>5, <1>6, <1>7

LEMMA WriteOdometryKeeps == LockstepInv /\ WriteOdometry => LockstepInv'
<1> SUFFICES ASSUME LockstepInv, WriteOdometry PROVE LockstepInv'
  OBVIOUS
<1> USE DEF WriteOdometry, RunnerStep, RunnerEnds, Answers, RunnerFailsAt,
  WillStep, Timestamp
<1>0. TypeOK
  BY DEF LockstepInv
<1>1. TypeOK'
  <2>1. runner.pc = "write" /\ current < Steps
    BY DEF LockstepInv, RunnerInv
  <2>2. current + 1 \in Samples
    BY <1>0, <2>1 DEF TypeOK, Samples, current
  <2> QED
    BY <1>0, <2>2 DEF TypeOK, Shared, current
<1> USE DEF LockstepInv, TypeOK, Shared, Numbers, Samples, near
<1> USE DEF RunnerInv, BridgeInv, DownInv, FirmwareInv, ComputedInv, Asked,
  Ended, current
<1>2. RunnerInv'
  OBVIOUS
<1>3. Bridged => BridgeInv'
  OBVIOUS
<1>4. Bridged => DownInv'
  OBVIOUS
<1>5. ~Bridged => firmware'.pc # "mark"
  OBVIOUS
<1>6. FirmwareInv'
  OBVIOUS
<1>7. ComputedInv'
  OBVIOUS
<1>8. Bridged' <=> Bridged
  OBVIOUS
<1> QED
  BY <1>8, <1>1, <1>2, <1>3, <1>4, <1>5, <1>6, <1>7

LEMMA PostKeeps == LockstepInv /\ Post => LockstepInv'
<1> SUFFICES ASSUME LockstepInv, Post PROVE LockstepInv'
  OBVIOUS
<1> USE DEF LockstepInv
<1>p. runner' = [runner EXCEPT !.pc = "wait", !.sequence = current + 1]
      /\ up' = [up EXCEPT !.odometry_sequence = current + 1]
      /\ UNCHANGED <<down, bridge, firmware, computed>>
  BY DEF Post, current
<1>q. /\ runner.pc = "post" /\ current < Steps /\ current \in 0 .. Steps
      /\ up.odometry_sequence = current /\ up.response_sequence = current
      /\ up.odometry = current + 1 /\ runner.outputs = current
  BY DEF Post, TypeOK, RunnerInv, BridgeInv, DownInv, FirmwareInv, ComputedInv,
    Asked, Ended, current, near, Shared, Numbers, Samples
<1>r. current' = current + 1 /\ runner'.pc = "wait" /\ ~Ended /\ ~Ended'
  BY <1>p, <1>q DEF TypeOK, RunnerInv, BridgeInv, DownInv, FirmwareInv,
    ComputedInv, Asked, Ended, current, near, Shared, Numbers, Samples
<1>s. current + 1 \in Samples /\ current + 1 \in Numbers
  BY <1>q DEF Samples, Numbers
<1>1. TypeOK'
  BY <1>p, <1>q, <1>s DEF TypeOK, Shared
<1>2. RunnerInv'
  <2>1. up'.odometry_sequence = current' /\ up'.odometry = current'
    BY <1>p, <1>q, <1>r DEF TypeOK, Shared
  <2>2. up'.response_sequence = current /\ ~(current' <= current)
    BY <1>p, <1>q, <1>r DEF TypeOK, Shared
  <2>3. runner'.outputs = current /\ current' > 0 /\ current' - 1 = current
    BY <1>p, <1>q, <1>r DEF TypeOK
  <2>4. up'.magic /\ ~up'.terminate /\ runner'.result = "running"
    BY <1>p, <1>q DEF TypeOK, Shared, RunnerInv
  <2> QED
    BY <1>q, <1>r, <2>1, <2>2, <2>3, <2>4 DEF RunnerInv
<1>3. Bridged => BridgeInv'
  BY SMTT(30), <1>p, <1>q, <1>r, <1>s DEF TypeOK, RunnerInv, BridgeInv,
    DownInv,
    FirmwareInv, ComputedInv, Asked, Ended, current, near, Shared, Numbers,
    Samples
<1>4. Bridged => DownInv'
  <2> SUFFICES ASSUME Bridged PROVE DownInv'
    OBVIOUS
  <2>1. /\ up'.response_sequence = current
        /\ up'.odometry_sequence = current + 1
        /\ down' = down /\ bridge' = bridge /\ firmware' = firmware
    BY <1>p, <1>q DEF TypeOK, Shared
  <2>2. /\ down.response_sequence = current /\ down.odometry_sequence = current
        /\ down.response_sequence \in Nat
    BY <1>q DEF DownInv, TypeOK, Shared, Numbers
  <2> QED
    BY <1>q, <1>r, <2>1, <2>2 DEF DownInv
<1>5. ~Bridged => firmware'.pc # "mark"
  BY <1>p, <1>q, <1>r, <1>s DEF TypeOK, RunnerInv, BridgeInv, DownInv,
    FirmwareInv, ComputedInv, Asked, Ended, current, near, Shared, Numbers,
    Samples
<1>6. FirmwareInv'
  BY SMTT(30), <1>p, <1>q, <1>r, <1>s DEF TypeOK, RunnerInv, BridgeInv,
    DownInv,
    FirmwareInv, ComputedInv, Asked, Ended, current, near, Shared, Numbers,
    Samples
<1>7. ComputedInv'
  <2>1. Len(computed) = current /\ near.response_sequence \in {current}
        /\ firmware.pc \notin {"write", "respond"}
    BY SMTT(30), <1>q, <1>r DEF TypeOK, RunnerInv, BridgeInv, DownInv,
      FirmwareInv,
      ComputedInv, Asked, Ended, current, near, Numbers, Samples, Shared
  <2>2. near'.response_sequence = current /\ computed' = computed
        /\ firmware' = firmware
    BY <1>p, <1>q, <2>1 DEF near, TypeOK, Shared
  <2>3. \A i \in 1 .. Len(computed) : computed[i] = i
    BY <1>q, <2>1 DEF ComputedInv
  <2> QED
    BY <1>q, <1>r, <2>1, <2>2, <2>3 DEF ComputedInv
<1>8. Bridged' <=> Bridged
  BY <1>p
<1> QED
  BY <1>8, <1>1, <1>2, <1>3, <1>4, <1>5, <1>6, <1>7

LEMMA SeeResponseKeeps == LockstepInv /\ SeeResponse => LockstepInv'
<1> SUFFICES ASSUME LockstepInv, SeeResponse PROVE LockstepInv'
  OBVIOUS
<1> USE DEF SeeResponse, RunnerStep, RunnerEnds, Answers, RunnerFailsAt,
  WillStep, Timestamp
<1>0. TypeOK
  BY DEF LockstepInv
<1>1. TypeOK'
  BY <1>0 DEF TypeOK, Shared
<1> USE DEF LockstepInv, TypeOK, Shared, Numbers, Samples, near
<1> USE DEF RunnerInv, BridgeInv, DownInv, FirmwareInv, ComputedInv, Asked,
  Ended, current
<1>2. RunnerInv'
  OBVIOUS
<1>3. Bridged => BridgeInv'
  OBVIOUS
<1>4. Bridged => DownInv'
  OBVIOUS
<1>5. ~Bridged => firmware'.pc # "mark"
  OBVIOUS
<1>6. FirmwareInv'
  OBVIOUS
<1>7. ComputedInv'
  OBVIOUS
<1>8. Bridged' <=> Bridged
  OBVIOUS
<1> QED
  BY <1>8, <1>1, <1>2, <1>3, <1>4, <1>5, <1>6, <1>7

LEMMA RunnerGivesUpKeeps == LockstepInv /\ RunnerGivesUp => LockstepInv'
<1> SUFFICES ASSUME LockstepInv, RunnerGivesUp PROVE LockstepInv'
  OBVIOUS
<1> USE DEF RunnerGivesUp, RunnerStep, RunnerEnds, Answers, RunnerFailsAt,
  WillStep, Timestamp
<1>0. TypeOK
  BY DEF LockstepInv
<1>1. TypeOK'
  BY <1>0 DEF TypeOK
<1> USE DEF LockstepInv, TypeOK, Shared, Numbers, Samples, near
<1> USE DEF RunnerInv, BridgeInv, DownInv, FirmwareInv, ComputedInv, Asked,
  Ended, current
<1>2. RunnerInv'
  OBVIOUS
<1>3. Bridged => BridgeInv'
  OBVIOUS
<1>4. Bridged => DownInv'
  OBVIOUS
<1>5. ~Bridged => firmware'.pc # "mark"
  OBVIOUS
<1>6. FirmwareInv'
  OBVIOUS
<1>7. ComputedInv'
  OBVIOUS
<1>8. Bridged' <=> Bridged
  OBVIOUS
<1> QED
  BY <1>8, <1>1, <1>2, <1>3, <1>4, <1>5, <1>6, <1>7

LEMMA CopyOutputsKeeps == LockstepInv /\ CopyOutputs => LockstepInv'
<1> SUFFICES ASSUME LockstepInv, CopyOutputs PROVE LockstepInv'
  OBVIOUS
<1> USE DEF LockstepInv
<1>q. /\ runner.pc = "copy" /\ current > 0 /\ current \in Samples
      /\ up.response_sequence = current /\ up.outputs = current
  BY DEF CopyOutputs, TypeOK, RunnerInv, BridgeInv, DownInv, FirmwareInv,
    ComputedInv, Asked, Ended, current, near, Shared, Numbers, Samples
<1>p. runner' = [runner EXCEPT !.pc = "step", !.outputs = current]
      /\ UNCHANGED <<up, down, bridge, firmware, computed>>
  <2>1. ~(Timestamp(up.outputs) < Timestamp(runner.sequence))
    BY <1>q DEF Timestamp, current, Samples
  <2> QED
    BY <1>q, <2>1 DEF CopyOutputs
<1>r. current' = current /\ (Ended' <=> Ended)
  BY <1>p, <1>q DEF TypeOK, RunnerInv, BridgeInv, DownInv, FirmwareInv,
    ComputedInv, Asked, Ended, current, near, Shared, Numbers, Samples
<1>1. TypeOK'
  BY <1>p, <1>q DEF TypeOK
<1>2. RunnerInv'
  BY <1>p, <1>q, <1>r DEF TypeOK, RunnerInv, BridgeInv, DownInv, FirmwareInv,
    ComputedInv, Asked, Ended, current, near, Shared, Numbers, Samples
<1>3. Bridged => BridgeInv'
  BY <1>p, <1>q, <1>r DEF TypeOK, RunnerInv, BridgeInv, DownInv, FirmwareInv,
    ComputedInv, Asked, Ended, current, near, Shared, Numbers, Samples
<1>4. Bridged => DownInv'
  BY <1>p, <1>q, <1>r DEF TypeOK, RunnerInv, BridgeInv, DownInv, FirmwareInv,
    ComputedInv, Asked, Ended, current, near, Shared, Numbers, Samples
<1>5. ~Bridged => firmware'.pc # "mark"
  BY <1>p, <1>q, <1>r DEF TypeOK, RunnerInv, BridgeInv, DownInv, FirmwareInv,
    ComputedInv, Asked, Ended, current, near, Shared, Numbers, Samples
<1>6. FirmwareInv'
  BY <1>p, <1>q, <1>r DEF TypeOK, RunnerInv, BridgeInv, DownInv, FirmwareInv,
    ComputedInv, Asked, Ended, current, near, Shared, Numbers, Samples
<1>7. ComputedInv'
  BY <1>p, <1>q, <1>r DEF TypeOK, RunnerInv, BridgeInv, DownInv, FirmwareInv,
    ComputedInv, Asked, Ended, current, near, Shared, Numbers, Samples
<1>8. Bridged' <=> Bridged
  BY <1>p
<1> QED
  BY <1>8, <1>1, <1>2, <1>3, <1>4, <1>5, <1>6, <1>7

LEMMA StepPlantKeeps == LockstepInv /\ StepPlant => LockstepInv'
<1> SUFFICES ASSUME LockstepInv, StepPlant PROVE LockstepInv'
  OBVIOUS
<1> USE DEF LockstepInv
<1>p. \/ /\ runner' = [runner EXCEPT !.pc = "write"] /\ current < Steps
      \/ runner' = [runner EXCEPT !.pc = "terminate", !.result = "success"]
  BY DEF StepPlant, RunnerEnds, WillStep, current
<1>q. runner.pc = "step" /\ UNCHANGED <<up, down, bridge, firmware, computed>>
  BY DEF StepPlant
<1>r. current' = current /\ ~Ended' /\ ~Ended
  BY <1>p, <1>q DEF TypeOK, RunnerInv, Ended, current
<1>1. TypeOK'
  <2>1. CASE runner' = [runner EXCEPT !.pc = "write"]
    BY <1>q, <2>1 DEF TypeOK
  <2>2. CASE runner' = [runner EXCEPT !.pc = "terminate", !.result = "success"]
    BY <1>q, <2>2 DEF TypeOK
  <2> QED
    BY <1>p, <2>1, <2>2
<1>2. RunnerInv'
  <2>1. CASE runner' = [runner EXCEPT !.pc = "write"] /\ current < Steps
    BY <1>q, <1>r, <2>1 DEF TypeOK, RunnerInv, BridgeInv, DownInv, FirmwareInv,
      ComputedInv, Asked, Ended, current
  <2>2. CASE runner' = [runner EXCEPT !.pc = "terminate", !.result = "success"]
    BY <1>q, <1>r, <2>2 DEF TypeOK, RunnerInv, BridgeInv, DownInv, FirmwareInv,
      ComputedInv, Asked, Ended, current
  <2> QED
    BY <1>p, <2>1, <2>2
<1>3. Bridged => BridgeInv'
  BY <1>p, <1>q, <1>r DEF TypeOK, RunnerInv, BridgeInv, DownInv, FirmwareInv,
    ComputedInv, Asked, Ended, current, near, Shared, Numbers, Samples
<1>4. Bridged => DownInv'
  BY <1>p, <1>q, <1>r DEF TypeOK, RunnerInv, BridgeInv, DownInv, FirmwareInv,
    ComputedInv, Asked, Ended, current, near, Shared, Numbers, Samples
<1>5. ~Bridged => firmware'.pc # "mark"
  BY <1>p, <1>q, <1>r DEF TypeOK, RunnerInv, BridgeInv, DownInv, FirmwareInv,
    ComputedInv, Asked, Ended, current, near, Shared, Numbers, Samples
<1>6. FirmwareInv'
  BY <1>p, <1>q, <1>r DEF TypeOK, RunnerInv, BridgeInv, DownInv, FirmwareInv,
    ComputedInv, Asked, Ended, current, near, Shared, Numbers, Samples
<1>7. ComputedInv'
  BY <1>p, <1>q, <1>r DEF TypeOK, RunnerInv, BridgeInv, DownInv, FirmwareInv,
    ComputedInv, Asked, Ended, current, near, Shared, Numbers, Samples
<1>8. Bridged' <=> Bridged
  BY <1>q
<1> QED
  BY <1>8, <1>1, <1>2, <1>3, <1>4, <1>5, <1>6, <1>7

LEMMA TerminateKeeps == LockstepInv /\ Terminate => LockstepInv'
<1> SUFFICES ASSUME LockstepInv, Terminate PROVE LockstepInv'
  OBVIOUS
<1> USE DEF Terminate, RunnerStep, RunnerEnds, Answers, RunnerFailsAt,
  WillStep, Timestamp
<1>0. TypeOK
  BY DEF LockstepInv
<1>1. TypeOK'
  BY <1>0 DEF TypeOK, Shared
<1> USE DEF LockstepInv, TypeOK, Shared, Numbers, Samples, near
<1> USE DEF RunnerInv, BridgeInv, DownInv, FirmwareInv, ComputedInv, Asked,
  Ended, current
<1>2. RunnerInv'
  OBVIOUS
<1>3. Bridged => BridgeInv'
  OBVIOUS
<1>4. Bridged => DownInv'
  OBVIOUS
<1>5. ~Bridged => firmware'.pc # "mark"
  OBVIOUS
<1>6. FirmwareInv'
  OBVIOUS
<1>7. ComputedInv'
  OBVIOUS
<1>8. Bridged' <=> Bridged
  OBVIOUS
<1> QED
  BY <1>8, <1>1, <1>2, <1>3, <1>4, <1>5, <1>6, <1>7

LEMMA BumpKeeps == LockstepInv /\ Bump => LockstepInv'
<1> SUFFICES ASSUME LockstepInv, Bump PROVE LockstepInv'
  OBVIOUS
<1> USE DEF LockstepInv
<1>p. runner' = [runner EXCEPT !.pc = "done"]
      /\ up' = [up EXCEPT !.odometry_sequence = current + 1]
      /\ UNCHANGED <<down, bridge, firmware, computed>>
  BY DEF Bump, RunnerStep, TypeOK, RunnerInv, BridgeInv, DownInv, FirmwareInv,
    ComputedInv, Asked, Ended, current, near, Shared, Numbers, Samples
<1>q. /\ runner.pc = "bump" /\ current \in 0 .. Steps
      /\ up.odometry_sequence = current /\ up.terminate /\ ~Ended
  BY DEF Bump, RunnerStep, TypeOK, RunnerInv, BridgeInv, DownInv, FirmwareInv,
    ComputedInv, Asked, Ended, current, near, Shared, Numbers, Samples
<1>r. current' = current /\ Ended'
  BY <1>p, <1>q DEF TypeOK, RunnerInv, BridgeInv, DownInv, FirmwareInv,
    ComputedInv, Asked, Ended, current, near, Shared, Numbers, Samples
<1>s. current + 1 \in Numbers
  BY <1>q DEF Numbers
<1>1. TypeOK'
  BY <1>p, <1>s DEF TypeOK, Shared
<1>2. RunnerInv'
  BY <1>p, <1>q, <1>r, <1>s DEF TypeOK, RunnerInv, BridgeInv, DownInv,
    FirmwareInv, ComputedInv, Asked, Ended, current, near, Shared, Numbers,
    Samples
<1>3. Bridged => BridgeInv'
  BY <1>p, <1>q, <1>r, <1>s DEF TypeOK, RunnerInv, BridgeInv, DownInv,
    FirmwareInv, ComputedInv, Asked, Ended, current, near, Shared, Numbers,
    Samples
<1>4. Bridged => DownInv'
  <2>1. ASSUME NEW number, Asked(number) PROVE Asked(number)'
    BY <1>p, <1>q, <1>r, <2>1 DEF Asked, TypeOK, Shared
  <2>2. up'.response_sequence = up.response_sequence
        /\ up'.odometry_sequence = up.odometry_sequence + 1
    BY <1>p, <1>q DEF TypeOK, Shared
  <2>3. down' = down /\ bridge' = bridge /\ firmware' = firmware
    BY <1>p
  <2> QED
    BY <1>r, <2>1, <2>2, <2>3 DEF DownInv, TypeOK, Shared, Numbers
<1>5. ~Bridged => firmware'.pc # "mark"
  BY <1>p, <1>q, <1>r, <1>s DEF TypeOK, RunnerInv, BridgeInv, DownInv,
    FirmwareInv, ComputedInv, Asked, Ended, current, near, Shared, Numbers,
    Samples
<1>6. FirmwareInv'
  BY <1>p, <1>q, <1>r, <1>s DEF TypeOK, RunnerInv, BridgeInv, DownInv,
    FirmwareInv, ComputedInv, Asked, Ended, current, near, Shared, Numbers,
    Samples
<1>7. ComputedInv'
  BY <1>p, <1>q, <1>r, <1>s DEF TypeOK, RunnerInv, BridgeInv, DownInv,
    FirmwareInv, ComputedInv, Asked, Ended, current, near, Shared, Numbers,
    Samples
<1>8. Bridged' <=> Bridged
  BY <1>p
<1> QED
  BY <1>8, <1>1, <1>2, <1>3, <1>4, <1>5, <1>6, <1>7

-----------------------------------------------------------------------------
(* The bridge *)

LEMMA BridgeOpenKeeps == LockstepInv /\ BridgeOpen => LockstepInv'
<1> SUFFICES ASSUME LockstepInv, BridgeOpen PROVE LockstepInv'
  OBVIOUS
<1> USE DEF BridgeOpen, BridgeStep, Answers, BridgeTimesOutAt
<1>0. TypeOK
  BY DEF LockstepInv
<1>1. TypeOK'
  BY <1>0 DEF TypeOK, Shared
<1> USE DEF LockstepInv, TypeOK, Shared, Numbers, Samples, near
<1> USE DEF RunnerInv, BridgeInv, DownInv, FirmwareInv, ComputedInv, Asked,
  Ended, current
<1>2. RunnerInv'
  OBVIOUS
<1>3. Bridged => BridgeInv'
  OBVIOUS
<1>4. Bridged => DownInv'
  OBVIOUS
<1>5. ~Bridged => firmware'.pc # "mark"
  OBVIOUS
<1>6. FirmwareInv'
  OBVIOUS
<1>7. ComputedInv'
  OBVIOUS
<1>8. Bridged' <=> Bridged
  OBVIOUS
<1> QED
  BY <1>8, <1>1, <1>2, <1>3, <1>4, <1>5, <1>6, <1>7

LEMMA BridgeNeverMapsKeeps == LockstepInv /\ BridgeNeverMaps => LockstepInv'
<1> SUFFICES ASSUME LockstepInv, BridgeNeverMaps PROVE LockstepInv'
  OBVIOUS
<1> USE DEF BridgeNeverMaps, BridgeStep, Answers, BridgeTimesOutAt
<1>0. TypeOK
  BY DEF LockstepInv
<1>1. TypeOK'
  BY <1>0 DEF TypeOK, Shared
<1> USE DEF LockstepInv, TypeOK, Shared, Numbers, Samples, near
<1> USE DEF RunnerInv, BridgeInv, DownInv, FirmwareInv, ComputedInv, Asked,
  Ended, current
<1>2. RunnerInv'
  OBVIOUS
<1>3. Bridged => BridgeInv'
  OBVIOUS
<1>4. Bridged => DownInv'
  OBVIOUS
<1>5. ~Bridged => firmware'.pc # "mark"
  OBVIOUS
<1>6. FirmwareInv'
  OBVIOUS
<1>7. ComputedInv'
  OBVIOUS
<1>8. Bridged' <=> Bridged
  OBVIOUS
<1> QED
  BY <1>8, <1>1, <1>2, <1>3, <1>4, <1>5, <1>6, <1>7

LEMMA BridgeConnectKeeps == LockstepInv /\ BridgeConnect => LockstepInv'
<1> SUFFICES ASSUME LockstepInv, BridgeConnect PROVE LockstepInv'
  OBVIOUS
<1> USE DEF BridgeConnect, BridgeStep, Answers, BridgeTimesOutAt
<1>0. TypeOK
  BY DEF LockstepInv
<1>1. TypeOK'
  <2>1. up.response_sequence \in Numbers
    BY <1>0 DEF TypeOK, Shared
  <2> QED
    BY <1>0, <2>1 DEF TypeOK
<1> USE DEF LockstepInv, TypeOK, Shared, Numbers, Samples, near
<1> USE DEF RunnerInv, BridgeInv, DownInv, FirmwareInv, ComputedInv, Asked,
  Ended, current
<1>2. RunnerInv'
  OBVIOUS
<1>3. Bridged => BridgeInv'
  OBVIOUS
<1>4. Bridged => DownInv'
  OBVIOUS
<1>5. ~Bridged => firmware'.pc # "mark"
  OBVIOUS
<1>6. FirmwareInv'
  OBVIOUS
<1>7. ComputedInv'
  OBVIOUS
<1>8. Bridged' <=> Bridged
  OBVIOUS
<1> QED
  BY <1>8, <1>1, <1>2, <1>3, <1>4, <1>5, <1>6, <1>7

LEMMA BridgeGivesUpKeeps == LockstepInv /\ BridgeGivesUp => LockstepInv'
<1> SUFFICES ASSUME LockstepInv, BridgeGivesUp PROVE LockstepInv'
  OBVIOUS
<1> USE DEF BridgeGivesUp, BridgeStep, Answers, BridgeTimesOutAt
<1>0. TypeOK
  BY DEF LockstepInv
<1>1. TypeOK'
  BY <1>0 DEF TypeOK, Shared
<1> USE DEF LockstepInv, TypeOK, Shared, Numbers, Samples, near
<1> USE DEF RunnerInv, BridgeInv, DownInv, FirmwareInv, ComputedInv, Asked,
  Ended, current
<1>2. RunnerInv'
  OBVIOUS
<1>3. Bridged => BridgeInv'
  OBVIOUS
<1>4. Bridged => DownInv'
  OBVIOUS
<1>5. ~Bridged => firmware'.pc # "mark"
  OBVIOUS
<1>6. FirmwareInv'
  OBVIOUS
<1>7. ComputedInv'
  OBVIOUS
<1>8. Bridged' <=> Bridged
  OBVIOUS
<1> QED
  BY <1>8, <1>1, <1>2, <1>3, <1>4, <1>5, <1>6, <1>7

LEMMA BridgePollKeeps == LockstepInv /\ BridgePoll => LockstepInv'
<1> SUFFICES ASSUME LockstepInv, BridgePoll PROVE LockstepInv'
  OBVIOUS
<1> USE DEF BridgePoll, BridgeStep, Answers, BridgeTimesOutAt
<1>0. TypeOK
  BY DEF LockstepInv
<1>1. TypeOK'
  BY <1>0 DEF TypeOK, Shared
<1> USE DEF LockstepInv, TypeOK, Shared, Numbers, Samples, near
<1> USE DEF RunnerInv, BridgeInv, DownInv, FirmwareInv, ComputedInv, Asked,
  Ended, current
<1>2. RunnerInv'
  OBVIOUS
<1>3. Bridged => BridgeInv'
  OBVIOUS
<1>4. Bridged => DownInv'
  OBVIOUS
<1>5. ~Bridged => firmware'.pc # "mark"
  OBVIOUS
<1>6. FirmwareInv'
  OBVIOUS
<1>7. ComputedInv'
  OBVIOUS
<1>8. Bridged' <=> Bridged
  OBVIOUS
<1> QED
  BY <1>8, <1>1, <1>2, <1>3, <1>4, <1>5, <1>6, <1>7

LEMMA BridgeIdleKeeps == LockstepInv /\ BridgeIdle => LockstepInv'
<1> SUFFICES ASSUME LockstepInv, BridgeIdle PROVE LockstepInv'
  OBVIOUS
<1> USE DEF BridgeIdle, BridgeStep, Answers, BridgeTimesOutAt
<1>0. TypeOK
  BY DEF LockstepInv
<1>1. TypeOK'
  BY <1>0 DEF TypeOK, Shared
<1> USE DEF LockstepInv, TypeOK, Shared, Numbers, Samples, near
<1> USE DEF RunnerInv, BridgeInv, DownInv, FirmwareInv, ComputedInv, Asked,
  Ended, current
<1>2. RunnerInv'
  OBVIOUS
<1>3. Bridged => BridgeInv'
  OBVIOUS
<1>4. Bridged => DownInv'
  OBVIOUS
<1>5. ~Bridged => firmware'.pc # "mark"
  OBVIOUS
<1>6. FirmwareInv'
  OBVIOUS
<1>7. ComputedInv'
  OBVIOUS
<1>8. Bridged' <=> Bridged
  OBVIOUS
<1> QED
  BY <1>8, <1>1, <1>2, <1>3, <1>4, <1>5, <1>6, <1>7

LEMMA BridgeLookKeeps == LockstepInv /\ BridgeLook => LockstepInv'
<1> SUFFICES ASSUME LockstepInv, BridgeLook PROVE LockstepInv'
  OBVIOUS
<1> USE DEF BridgeLook, BridgeStep, Answers, BridgeTimesOutAt
<1>0. TypeOK
  BY DEF LockstepInv
<1>1. TypeOK'
  <2>1. up.odometry_sequence \in Numbers
    BY <1>0 DEF TypeOK, Shared
  <2> QED
    BY <1>0, <2>1 DEF TypeOK
<1> USE DEF LockstepInv, TypeOK, Shared, Numbers, Samples, near
<1> USE DEF RunnerInv, BridgeInv, DownInv, FirmwareInv, ComputedInv, Asked,
  Ended, current
<1>2. RunnerInv'
  OBVIOUS
<1>3. Bridged => BridgeInv'
  BY SMTT(30)
<1>4. Bridged => DownInv'
  OBVIOUS
<1>5. ~Bridged => firmware'.pc # "mark"
  OBVIOUS
<1>6. FirmwareInv'
  OBVIOUS
<1>7. ComputedInv'
  OBVIOUS
<1>8. Bridged' <=> Bridged
  OBVIOUS
<1> QED
  BY <1>8, <1>1, <1>2, <1>3, <1>4, <1>5, <1>6, <1>7

LEMMA BridgeReadKeeps == LockstepInv /\ BridgeRead => LockstepInv'
<1> SUFFICES ASSUME LockstepInv, BridgeRead PROVE LockstepInv'
  OBVIOUS
<1> USE DEF BridgeRead, BridgeStep, Answers, BridgeTimesOutAt
<1>0. TypeOK
  BY DEF LockstepInv
<1>1. TypeOK'
  <2>1. up.odometry \in Samples
    BY <1>0 DEF TypeOK, Shared
  <2> QED
    BY <1>0, <2>1 DEF TypeOK
<1> USE DEF LockstepInv, TypeOK, Shared, Numbers, Samples, near
<1> USE DEF RunnerInv, BridgeInv, DownInv, FirmwareInv, ComputedInv, Asked,
  Ended, current
<1>2. RunnerInv'
  OBVIOUS
<1>3. Bridged => BridgeInv'
  OBVIOUS
<1>4. Bridged => DownInv'
  OBVIOUS
<1>5. ~Bridged => firmware'.pc # "mark"
  OBVIOUS
<1>6. FirmwareInv'
  OBVIOUS
<1>7. ComputedInv'
  OBVIOUS
<1>8. Bridged' <=> Bridged
  OBVIOUS
<1> QED
  BY <1>8, <1>1, <1>2, <1>3, <1>4, <1>5, <1>6, <1>7

LEMMA BridgeWriteKeeps == LockstepInv /\ BridgeWrite => LockstepInv'
<1> SUFFICES ASSUME LockstepInv, BridgeWrite PROVE LockstepInv'
  OBVIOUS
<1> USE DEF BridgeWrite, BridgeStep, Answers, BridgeTimesOutAt
<1>0. TypeOK
  BY DEF LockstepInv
<1>1. TypeOK'
  BY <1>0 DEF TypeOK, Shared
<1> USE DEF LockstepInv, TypeOK, Shared, Numbers, Samples, near
<1> USE DEF RunnerInv, BridgeInv, DownInv, FirmwareInv, ComputedInv, Asked,
  Ended, current
<1>2. RunnerInv'
  OBVIOUS
<1>3. Bridged => BridgeInv'
  OBVIOUS
<1>4. Bridged => DownInv'
  OBVIOUS
<1>5. ~Bridged => firmware'.pc # "mark"
  OBVIOUS
<1>6. FirmwareInv'
  OBVIOUS
<1>7. ComputedInv'
  OBVIOUS
<1>8. Bridged' <=> Bridged
  OBVIOUS
<1> QED
  BY <1>8, <1>1, <1>2, <1>3, <1>4, <1>5, <1>6, <1>7

LEMMA BridgePostKeeps == LockstepInv /\ BridgePost => LockstepInv'
<1> SUFFICES ASSUME LockstepInv, BridgePost PROVE LockstepInv'
  OBVIOUS
<1> USE DEF BridgePost, BridgeStep, Answers, BridgeTimesOutAt
<1>0. TypeOK
  BY DEF LockstepInv
<1>1. TypeOK'
  BY <1>0 DEF TypeOK, Shared
<1> USE DEF LockstepInv, TypeOK, Shared, Numbers, Samples, near
<1> USE DEF RunnerInv, BridgeInv, DownInv, FirmwareInv, ComputedInv, Asked,
  Ended, current
<1>2. RunnerInv'
  OBVIOUS
<1>3. Bridged => BridgeInv'
  OBVIOUS
<1>4. Bridged => DownInv'
  BY SMTT(30)
<1>5. ~Bridged => firmware'.pc # "mark"
  OBVIOUS
<1>6. FirmwareInv'
  OBVIOUS
<1>7. ComputedInv'
  OBVIOUS
<1>8. Bridged' <=> Bridged
  OBVIOUS
<1> QED
  BY <1>8, <1>1, <1>2, <1>3, <1>4, <1>5, <1>6, <1>7

LEMMA BridgeSeesResponseKeeps ==
  LockstepInv /\ BridgeSeesResponse => LockstepInv'
<1> SUFFICES ASSUME LockstepInv, BridgeSeesResponse PROVE LockstepInv'
  OBVIOUS
<1> USE DEF BridgeSeesResponse, BridgeStep, Answers, BridgeTimesOutAt
<1>0. TypeOK
  BY DEF LockstepInv
<1>1. TypeOK'
  BY <1>0 DEF TypeOK, Shared
<1> USE DEF LockstepInv, TypeOK, Shared, Numbers, Samples, near
<1> USE DEF RunnerInv, BridgeInv, DownInv, FirmwareInv, ComputedInv, Asked,
  Ended, current
<1>2. RunnerInv'
  OBVIOUS
<1>3. Bridged => BridgeInv'
  OBVIOUS
<1>4. Bridged => DownInv'
  OBVIOUS
<1>5. ~Bridged => firmware'.pc # "mark"
  OBVIOUS
<1>6. FirmwareInv'
  OBVIOUS
<1>7. ComputedInv'
  OBVIOUS
<1>8. Bridged' <=> Bridged
  OBVIOUS
<1> QED
  BY <1>8, <1>1, <1>2, <1>3, <1>4, <1>5, <1>6, <1>7

LEMMA BridgeCopyKeeps == LockstepInv /\ BridgeCopy => LockstepInv'
<1> SUFFICES ASSUME LockstepInv, BridgeCopy PROVE LockstepInv'
  OBVIOUS
<1> USE DEF BridgeCopy, BridgeStep, Answers, BridgeTimesOutAt
<1>0. TypeOK
  BY DEF LockstepInv
<1>1. TypeOK'
  <2>1. down.outputs \in Samples
    BY <1>0 DEF TypeOK, Shared
  <2> QED
    BY <1>0, <2>1 DEF TypeOK
<1> USE DEF LockstepInv, TypeOK, Shared, Numbers, Samples, near
<1> USE DEF RunnerInv, BridgeInv, DownInv, FirmwareInv, ComputedInv, Asked,
  Ended, current
<1>2. RunnerInv'
  OBVIOUS
<1>3. Bridged => BridgeInv'
  OBVIOUS
<1>4. Bridged => DownInv'
  OBVIOUS
<1>5. ~Bridged => firmware'.pc # "mark"
  OBVIOUS
<1>6. FirmwareInv'
  OBVIOUS
<1>7. ComputedInv'
  OBVIOUS
<1>8. Bridged' <=> Bridged
  OBVIOUS
<1> QED
  BY <1>8, <1>1, <1>2, <1>3, <1>4, <1>5, <1>6, <1>7

LEMMA BridgeAnswerKeeps == LockstepInv /\ BridgeAnswer => LockstepInv'
<1> SUFFICES ASSUME LockstepInv, BridgeAnswer PROVE LockstepInv'
  OBVIOUS
<1> USE DEF BridgeAnswer, BridgeStep, Answers, BridgeTimesOutAt
<1>0. TypeOK
  BY DEF LockstepInv
<1>1. TypeOK'
  BY <1>0 DEF TypeOK, Shared
<1> USE DEF LockstepInv, TypeOK, Shared, Numbers, Samples, near
<1> USE DEF RunnerInv, BridgeInv, DownInv, FirmwareInv, ComputedInv, Asked,
  Ended, current
<1>2. RunnerInv'
  OBVIOUS
<1>3. Bridged => BridgeInv'
  OBVIOUS
<1>4. Bridged => DownInv'
  OBVIOUS
<1>5. ~Bridged => firmware'.pc # "mark"
  OBVIOUS
<1>6. FirmwareInv'
  OBVIOUS
<1>7. ComputedInv'
  OBVIOUS
<1>8. Bridged' <=> Bridged
  OBVIOUS
<1> QED
  BY <1>8, <1>1, <1>2, <1>3, <1>4, <1>5, <1>6, <1>7

LEMMA BridgeRespondKeeps == LockstepInv /\ BridgeRespond => LockstepInv'
<1> SUFFICES ASSUME LockstepInv, BridgeRespond PROVE LockstepInv'
  OBVIOUS
<1> USE DEF BridgeRespond, BridgeStep, Answers, BridgeTimesOutAt
<1>0. TypeOK
  BY DEF LockstepInv
<1>1. TypeOK'
  BY <1>0 DEF TypeOK, Shared
<1> USE DEF LockstepInv, TypeOK, Shared, Numbers, Samples, near
<1> USE DEF RunnerInv, BridgeInv, DownInv, FirmwareInv, ComputedInv, Asked,
  Ended, current
<1>2. RunnerInv'
  OBVIOUS
<1>3. Bridged => BridgeInv'
  OBVIOUS
<1>4. Bridged => DownInv'
  OBVIOUS
<1>5. ~Bridged => firmware'.pc # "mark"
  OBVIOUS
<1>6. FirmwareInv'
  OBVIOUS
<1>7. ComputedInv'
  OBVIOUS
<1>8. Bridged' <=> Bridged
  OBVIOUS
<1> QED
  BY <1>8, <1>1, <1>2, <1>3, <1>4, <1>5, <1>6, <1>7

LEMMA DropKeeps == LockstepInv /\ Drop => LockstepInv'
<1> SUFFICES ASSUME LockstepInv, Drop PROVE LockstepInv'
  OBVIOUS
<1> USE DEF Drop, BridgeStep, Answers, BridgeTimesOutAt
<1>0. TypeOK
  BY DEF LockstepInv
<1>1. TypeOK'
  BY <1>0 DEF TypeOK, Shared
<1> USE DEF LockstepInv, TypeOK, Shared, Numbers, Samples, near
<1> USE DEF RunnerInv, BridgeInv, DownInv, FirmwareInv, ComputedInv, Asked,
  Ended, current
<1>2. RunnerInv'
  OBVIOUS
<1>3. Bridged => BridgeInv'
  OBVIOUS
<1>4. Bridged => DownInv'
  OBVIOUS
<1>5. ~Bridged => firmware'.pc # "mark"
  OBVIOUS
<1>6. FirmwareInv'
  OBVIOUS
<1>7. ComputedInv'
  OBVIOUS
<1>8. Bridged' <=> Bridged
  OBVIOUS
<1> QED
  BY <1>8, <1>1, <1>2, <1>3, <1>4, <1>5, <1>6, <1>7

-----------------------------------------------------------------------------
(* The firmware *)

LEMMA MapSharedKeeps == LockstepInv /\ MapShared => LockstepInv'
<1> SUFFICES ASSUME LockstepInv, MapShared PROVE LockstepInv'
  OBVIOUS
<1> USE DEF MapShared, FirmwareStep, SetNear, Cleared, Follow, Canceled
<1>0. TypeOK
  BY DEF LockstepInv
<1>1. TypeOK'
  BY <1>0 DEF TypeOK, Shared
<1> USE DEF LockstepInv, TypeOK, Shared, Numbers, Samples, near
<1> USE DEF RunnerInv, BridgeInv, DownInv, FirmwareInv, ComputedInv, Asked,
  Ended, current
<1>2. RunnerInv'
  OBVIOUS
<1>3. Bridged => BridgeInv'
  OBVIOUS
<1>4. Bridged => DownInv'
  OBVIOUS
<1>5. ~Bridged => firmware'.pc # "mark"
  OBVIOUS
<1>6. FirmwareInv'
  OBVIOUS
<1>7. ComputedInv'
  OBVIOUS
<1>8. Bridged' <=> Bridged
  OBVIOUS
<1> QED
  BY <1>8, <1>1, <1>2, <1>3, <1>4, <1>5, <1>6, <1>7

LEMMA ClearSharedKeeps == LockstepInv /\ ClearShared => LockstepInv'
<1> SUFFICES ASSUME LockstepInv, ClearShared PROVE LockstepInv'
  OBVIOUS
<1> USE DEF ClearShared, FirmwareStep, SetNear, Cleared, Follow, Canceled
<1>0. TypeOK
  BY DEF LockstepInv
<1>1. TypeOK'
  <2>1. 0 \in Numbers /\ 0 \in Samples
    BY DEF Numbers, Samples
  <2> QED
    BY <1>0, <2>1 DEF TypeOK, Shared
<1> USE DEF LockstepInv, TypeOK, Shared, Numbers, Samples, near
<1> USE DEF RunnerInv, BridgeInv, DownInv, FirmwareInv, ComputedInv, Asked,
  Ended, current
<1>2. RunnerInv'
  OBVIOUS
<1>3. Bridged => BridgeInv'
  OBVIOUS
<1>4. Bridged => DownInv'
  OBVIOUS
<1>5. ~Bridged => firmware'.pc # "mark"
  OBVIOUS
<1>6. FirmwareInv'
  OBVIOUS
<1>7. ComputedInv'
  OBVIOUS
<1>8. Bridged' <=> Bridged
  OBVIOUS
<1> QED
  BY <1>8, <1>1, <1>2, <1>3, <1>4, <1>5, <1>6, <1>7

LEMMA StoreMagicKeeps == LockstepInv /\ StoreMagic => LockstepInv'
<1> SUFFICES ASSUME LockstepInv, StoreMagic PROVE LockstepInv'
  OBVIOUS
<1> USE DEF StoreMagic, FirmwareStep, SetNear, Cleared, Follow, Canceled
<1>0. TypeOK
  BY DEF LockstepInv
<1>1. TypeOK'
  <2>1. down' \in Shared
    BY <1>0 DEF TypeOK, Shared
  <2> QED
    BY <1>0, <2>1 DEF TypeOK
<1> USE DEF LockstepInv, TypeOK, Shared, Numbers, Samples, near
<1> USE DEF RunnerInv, BridgeInv, DownInv, FirmwareInv, ComputedInv, Asked,
  Ended, current
<1>2. RunnerInv'
  OBVIOUS
<1>3. Bridged => BridgeInv'
  OBVIOUS
<1>4. Bridged => DownInv'
  OBVIOUS
<1>5. ~Bridged => firmware'.pc # "mark"
  OBVIOUS
<1>6. FirmwareInv'
  OBVIOUS
<1>7. ComputedInv'
  OBVIOUS
<1>8. Bridged' <=> Bridged
  OBVIOUS
<1> QED
  BY <1>8, <1>1, <1>2, <1>3, <1>4, <1>5, <1>6, <1>7

LEMMA SequenceInitKeeps == LockstepInv /\ SequenceInit => LockstepInv'
<1> SUFFICES ASSUME LockstepInv, SequenceInit PROVE LockstepInv'
  OBVIOUS
<1> USE DEF SequenceInit, FirmwareStep, SetNear, Cleared, Follow, Canceled
<1>0. TypeOK
  BY DEF LockstepInv
<1>1. TypeOK'
  <2>1. near \in Shared /\ firmware' =
          [firmware EXCEPT !.pc = "wait", !.completed = near.response_sequence]
    BY <1>0 DEF TypeOK, near
  <2>2. near.response_sequence \in Numbers
    BY <2>1 DEF Shared
  <2> QED
    BY <1>0, <2>1, <2>2 DEF TypeOK
<1> USE DEF LockstepInv, TypeOK, Shared, Numbers, Samples, near
<1> USE DEF RunnerInv, BridgeInv, DownInv, FirmwareInv, ComputedInv, Asked,
  Ended, current
<1>2. RunnerInv'
  OBVIOUS
<1>3. Bridged => BridgeInv'
  OBVIOUS
<1>4. Bridged => DownInv'
  OBVIOUS
<1>5. ~Bridged => firmware'.pc # "mark"
  OBVIOUS
<1>6. FirmwareInv'
  OBVIOUS
<1>7. ComputedInv'
  OBVIOUS
<1>8. Bridged' <=> Bridged
  OBVIOUS
<1> QED
  BY <1>8, <1>1, <1>2, <1>3, <1>4, <1>5, <1>6, <1>7

LEMMA TakeSequenceKeeps == LockstepInv /\ TakeSequence => LockstepInv'
<1> SUFFICES ASSUME LockstepInv, TakeSequence PROVE LockstepInv'
  OBVIOUS
<1> USE DEF LockstepInv
<1>p. /\ firmware.pc = "wait"
      /\ near.odometry_sequence # near.response_sequence
      /\ firmware' = [firmware EXCEPT !.pc = "copy",
                        !.sequence = near.odometry_sequence]
      /\ UNCHANGED <<up, down, runner, bridge, computed>>
  BY DEF TakeSequence, FirmwareInv
<1>r. near' = near /\ current' = current /\ (Ended' <=> Ended)
  BY <1>p DEF near, current, Ended
<1>1. TypeOK'
  <2>1. near.odometry_sequence \in Numbers
    BY DEF near, TypeOK, Shared
  <2> QED
    BY <1>p, <2>1 DEF TypeOK
<1>2. RunnerInv'
  BY <1>p, <1>r DEF TypeOK, RunnerInv, BridgeInv, DownInv, FirmwareInv,
    ComputedInv, Asked, Ended, current, near, Shared, Numbers, Samples
<1>3. Bridged => BridgeInv'
  BY <1>p, <1>r DEF TypeOK, RunnerInv, BridgeInv, DownInv, FirmwareInv,
    ComputedInv, Asked, Ended, current, near, Shared, Numbers, Samples
<1>4. Bridged => DownInv'
  BY <1>p, <1>r DEF TypeOK, RunnerInv, BridgeInv, DownInv, FirmwareInv,
    ComputedInv, Asked, Ended, current, near, Shared, Numbers, Samples
<1>5. ~Bridged => firmware'.pc # "mark"
  BY <1>p, <1>r DEF TypeOK, RunnerInv, BridgeInv, DownInv, FirmwareInv,
    ComputedInv, Asked, Ended, current, near, Shared, Numbers, Samples
<1>6. FirmwareInv'
  <2>1. Asked(near.odometry_sequence) /\ near.odometry = current
        /\ near.response_sequence < near.odometry_sequence
    <3>1. CASE Bridged
      BY <1>p, <3>1 DEF DownInv, near, TypeOK, Shared, Numbers
    <3>2. CASE ~Bridged
      <4>1. up.odometry_sequence = current
            \/ (Ended /\ up.odometry_sequence = current + 1)
        BY DEF RunnerInv
      <4>2. up.response_sequence < up.odometry_sequence
        BY <1>p, <3>2 DEF RunnerInv, near, TypeOK, Shared, Numbers
      <4>3. up.odometry = current
        <5>1. runner.pc # "post"
          BY SMTT(30), <4>1, <4>2 DEF RunnerInv, TypeOK, Shared, Numbers,
            Samples,
            current, Ended
        <5> QED
          BY <5>1 DEF RunnerInv
      <4> QED
        BY <3>2, <4>1, <4>2, <4>3 DEF Asked, near
    <3> QED
      BY <3>1, <3>2
  <2>2. firmware'.pc = "copy" /\ firmware'.completed = near.response_sequence
        /\ firmware'.sequence = near.odometry_sequence
    BY <1>p DEF FirmwareInv, TypeOK
  <2>3. Asked(near.odometry_sequence)'
    BY <1>p, <1>r, <2>1 DEF Asked
  <2> QED
    BY <1>p, <1>r, <2>1, <2>2, <2>3 DEF FirmwareInv, Asked, near
<1>7. ComputedInv'
  BY <1>p, <1>r DEF TypeOK, RunnerInv, BridgeInv, DownInv, FirmwareInv,
    ComputedInv, Asked, Ended, current, near, Shared, Numbers, Samples
<1>8. Bridged' <=> Bridged
  BY <1>p
<1> QED
  BY <1>8, <1>1, <1>2, <1>3, <1>4, <1>5, <1>6, <1>7

LEMMA StopFirmwareKeeps == LockstepInv /\ StopFirmware => LockstepInv'
<1> SUFFICES ASSUME LockstepInv, StopFirmware PROVE LockstepInv'
  OBVIOUS
<1> USE DEF StopFirmware, FirmwareStep, SetNear, Cleared, Follow, Canceled
<1>0. TypeOK
  BY DEF LockstepInv
<1>1. TypeOK'
  BY <1>0 DEF TypeOK, Shared, near
<1> USE DEF LockstepInv, TypeOK, Shared, Numbers, Samples, near
<1> USE DEF RunnerInv, BridgeInv, DownInv, FirmwareInv, ComputedInv, Asked,
  Ended, current
<1>2. RunnerInv'
  OBVIOUS
<1>3. Bridged => BridgeInv'
  OBVIOUS
<1>4. Bridged => DownInv'
  OBVIOUS
<1>5. ~Bridged => firmware'.pc # "mark"
  OBVIOUS
<1>6. FirmwareInv'
  OBVIOUS
<1>7. ComputedInv'
  OBVIOUS
<1>8. Bridged' <=> Bridged
  OBVIOUS
<1> QED
  BY <1>8, <1>1, <1>2, <1>3, <1>4, <1>5, <1>6, <1>7

LEMMA FirmwareFailsKeeps == LockstepInv /\ FirmwareFails => LockstepInv'
<1> SUFFICES ASSUME LockstepInv, FirmwareFails PROVE LockstepInv'
  OBVIOUS
<1> USE DEF FirmwareFails
<1>0. TypeOK
  BY DEF LockstepInv
<1>1. TypeOK'
  BY <1>0 DEF TypeOK, Shared, near
<1>7. ComputedInv'
  <2>1. /\ near' = near /\ current' = current /\ (Ended' <=> Ended)
        /\ computed' = computed /\ firmware'.pc = "done"
        /\ firmware.pc # "done"
    BY <1>0 DEF FirmwareFails, near, current, Ended, TypeOK
  <2>2. /\ current \in Nat /\ near.response_sequence \in Nat
        /\ firmware.sequence \in Nat
    BY <1>0 DEF TypeOK, Shared, Numbers, Samples, near, current
  <2>3. CASE firmware.pc \in {"write", "respond"}
    <3>1. near.response_sequence < firmware.sequence
      BY <2>3 DEF LockstepInv, FirmwareInv
    <3>2. firmware.sequence = current \/ firmware.sequence = current + 1
      BY <2>3 DEF LockstepInv, FirmwareInv, Asked
    <3>3. /\ firmware.sequence = current => Len(computed) = current
          /\ firmware.sequence = current + 1 =>
               Len(computed) \in {current, current + 1}
          /\ near.response_sequence = current - 1 => Len(computed) = current
          /\ Len(computed) = current + 1 => Ended
          /\ \A i \in 1 .. Len(computed) :
               computed[i] = IF i <= current THEN i ELSE current
      BY <2>1, <2>2, <2>3 DEF LockstepInv, ComputedInv
    <3> QED
      BY <2>1, <2>2, <3>1, <3>2, <3>3 DEF ComputedInv
  <2>4. CASE firmware.pc \notin {"write", "respond"}
    BY <2>1, <2>4 DEF LockstepInv, ComputedInv
  <2> QED
    BY <2>3, <2>4
<1> USE DEF LockstepInv, TypeOK, Shared, Numbers, Samples, near
<1> USE DEF RunnerInv, BridgeInv, DownInv, FirmwareInv, ComputedInv, Asked,
  Ended, current
<1>2. RunnerInv'
  OBVIOUS
<1>3. Bridged => BridgeInv'
  OBVIOUS
<1>4. Bridged => DownInv'
  OBVIOUS
<1>5. ~Bridged => firmware'.pc # "mark"
  OBVIOUS
<1>6. FirmwareInv'
  OBVIOUS
<1>8. Bridged' <=> Bridged
  OBVIOUS
<1> QED
  BY <1>8, <1>1, <1>2, <1>3, <1>4, <1>5, <1>6, <1>7

LEMMA ReceiveOdometryKeeps == LockstepInv /\ ReceiveOdometry => LockstepInv'
<1> SUFFICES ASSUME LockstepInv, ReceiveOdometry PROVE LockstepInv'
  OBVIOUS
<1> USE DEF LockstepInv
<1>p. /\ firmware.pc = "copy" /\ near.odometry = current
      /\ firmware' = [firmware EXCEPT !.pc = "write", !.odometry = current]
      /\ computed' = Append(computed, current)
      /\ UNCHANGED <<up, down, runner, bridge>>
  BY DEF ReceiveOdometry, FirmwareInv
<1>q. current \in Samples /\ computed \in Seq(Samples)
  BY DEF TypeOK, current
<1>s. computed' \in Seq(Samples) /\ Len(computed') = Len(computed) + 1
      /\ \A i \in 1 .. Len(computed') :
           computed'[i] = IF i <= Len(computed) THEN computed[i] ELSE current
  BY <1>p, <1>q
<1>r. near' = near /\ current' = current /\ (Ended' <=> Ended)
  BY <1>p DEF near, current, Ended
<1>1. TypeOK'
  BY <1>p, <1>q, <1>s DEF TypeOK
<1>2. RunnerInv'
  BY <1>p, <1>q, <1>r DEF TypeOK, RunnerInv, BridgeInv, DownInv, FirmwareInv,
    ComputedInv, Asked, Ended, current, near, Shared, Numbers, Samples
<1>3. Bridged => BridgeInv'
  BY <1>p, <1>q, <1>r DEF TypeOK, RunnerInv, BridgeInv, DownInv, FirmwareInv,
    ComputedInv, Asked, Ended, current, near, Shared, Numbers, Samples
<1>4. Bridged => DownInv'
  BY <1>p, <1>q, <1>r DEF TypeOK, RunnerInv, BridgeInv, DownInv, FirmwareInv,
    ComputedInv, Asked, Ended, current, near, Shared, Numbers, Samples
<1>5. ~Bridged => firmware'.pc # "mark"
  BY <1>p, <1>q, <1>r DEF TypeOK, RunnerInv, BridgeInv, DownInv, FirmwareInv,
    ComputedInv, Asked, Ended, current, near, Shared, Numbers, Samples
<1>6. FirmwareInv'
  BY <1>p, <1>q, <1>r DEF TypeOK, RunnerInv, BridgeInv, DownInv, FirmwareInv,
    ComputedInv, Asked, Ended, current, near, Shared, Numbers, Samples
<1>7. ComputedInv'
  <2>1. /\ \/ firmware.sequence = current /\ Len(computed) = current - 1
           \/ /\ firmware.sequence = current + 1 /\ Ended
              /\ Len(computed) \in {current - 1, current}
        /\ near.response_sequence = current - 1 => Len(computed) = current - 1
    <3>1. /\ current - 1 <= near.response_sequence
          /\ near.response_sequence < firmware.sequence
          /\ near.response_sequence \in 0 .. Steps + 1
          /\ current \in 0 .. Steps
      <4>1. current - 1 <= near.response_sequence
        <5>1. current - 1 <= up.response_sequence
          BY DEF RunnerInv
        <5>2. CASE Bridged
          <6>1. up.response_sequence <= down.response_sequence
            BY <5>2 DEF DownInv
          <6> QED
            BY SMTT(30), <5>1, <5>2, <6>1 DEF near, TypeOK, Shared, Numbers,
              Samples,
              current
        <5> QED
          BY <5>1, <5>2 DEF near
      <4>2. near.response_sequence < firmware.sequence
        BY <1>p DEF FirmwareInv
      <4> QED
        BY <4>1, <4>2 DEF near, TypeOK, Shared, Numbers, Samples, current
    <3>2. firmware.sequence = current
          \/ (Ended /\ firmware.sequence = current + 1)
      BY <1>p DEF FirmwareInv, Asked
    <3>3. near.response_sequence \in {current - 1, current}
      BY <3>1, <3>2
    <3>4. /\ near.response_sequence = current - 1 =>
               Len(computed) = current - 1
          /\ near.response_sequence = current => Len(computed) = current
      BY <1>p DEF ComputedInv
    <3>5. firmware.sequence = current => near.response_sequence = current - 1
      BY <3>1, <3>3
    <3> QED
      BY <3>2, <3>3, <3>4, <3>5
  <2>2. firmware'.pc = "write" /\ firmware'.sequence = firmware.sequence
    BY <1>p DEF TypeOK
  <2>3. Len(computed) \in Nat /\ current \in Nat
    BY <1>q DEF Samples
  <2>4. \A i \in 1 .. Len(computed) :
          computed[i] = IF i <= current THEN i ELSE current
    BY DEF ComputedInv
  <2>5. \A i \in 1 .. Len(computed') :
          computed'[i] = IF i <= current THEN i ELSE current
    BY <1>s, <2>1, <2>3, <2>4
  <2> QED
    BY <1>r, <1>s, <2>1, <2>2, <2>3, <2>5 DEF ComputedInv
<1>8. Bridged' <=> Bridged
  BY <1>p
<1> QED
  BY <1>8, <1>1, <1>2, <1>3, <1>4, <1>5, <1>6, <1>7

LEMMA WriteOutputsKeeps == LockstepInv /\ WriteOutputs => LockstepInv'
<1> SUFFICES ASSUME LockstepInv, WriteOutputs PROVE LockstepInv'
  OBVIOUS
<1> USE DEF LockstepInv
<1>p. /\ firmware.pc = "write"
      /\ firmware' = [firmware EXCEPT !.pc = "respond"]
      /\ UNCHANGED <<runner, bridge, computed>>
  BY DEF WriteOutputs, FirmwareStep
<1>a. /\ Asked(firmware.sequence) /\ firmware.odometry = current
      /\ near.response_sequence < firmware.sequence
      /\ current \in Nat /\ current \in Samples
  BY <1>p DEF FirmwareInv, TypeOK, Samples, current
<1>b. Bridged => down' = [down EXCEPT !.outputs = current] /\ UNCHANGED up
  BY <1>a DEF WriteOutputs, SetNear, near
<1>u. ~Bridged => up' = [up EXCEPT !.outputs = current] /\ UNCHANGED down
  BY <1>a DEF WriteOutputs, SetNear, near
<1>8. Bridged' <=> Bridged
  BY <1>p
<1>n. near'.outputs = current
      /\ near'.response_sequence = near.response_sequence
      /\ near'.odometry = near.odometry
      /\ (Bridged => down'.odometry_sequence = down.odometry_sequence)
  BY <1>8, <1>b, <1>u DEF near, TypeOK, Shared
<1>r. /\ current' = current /\ (Ended' <=> Ended)
      /\ up'.response_sequence = up.response_sequence
      /\ up'.odometry_sequence = up.odometry_sequence
  BY <1>p, <1>b, <1>u DEF Ended, current, TypeOK, Shared
<1>s. \A number : Asked(number)' <=> Asked(number)
  BY <1>r DEF Asked
<1>1. TypeOK'
  <2>1. up' \in Shared /\ down' \in Shared
    BY <1>a, <1>b, <1>u DEF TypeOK, Shared
  <2> QED
    BY <1>p, <2>1 DEF TypeOK
<1>2. RunnerInv'
  <2>1. CASE Bridged
    BY <1>p, <1>b, <1>r, <2>1 DEF RunnerInv
  <2>2. CASE ~Bridged
    BY <1>p, <1>u, <1>r, <2>2 DEF RunnerInv, TypeOK, Shared
  <2> QED
    BY <2>1, <2>2
<1>3. Bridged => BridgeInv'
  BY <1>p, <1>b, <1>r, <1>s DEF BridgeInv, TypeOK, Shared
<1>4. Bridged => DownInv'
  BY <1>p, <1>b, <1>r, <1>s DEF DownInv, TypeOK, Shared
<1>5. ~Bridged => firmware'.pc # "mark"
  BY <1>p DEF TypeOK
<1>6. FirmwareInv'
  BY <1>p, <1>n, <1>r, <1>s DEF FirmwareInv, TypeOK
<1>7. ComputedInv'
  BY <1>p, <1>n, <1>r DEF ComputedInv, TypeOK
<1> QED
  BY <1>8, <1>1, <1>2, <1>3, <1>4, <1>5, <1>6, <1>7

LEMMA RespondKeeps == LockstepInv /\ Respond => LockstepInv'
<1> SUFFICES ASSUME LockstepInv, Respond PROVE LockstepInv'
  OBVIOUS
<1> USE DEF LockstepInv
<1>p. /\ firmware.pc = "respond" /\ UNCHANGED <<runner, bridge, computed>>
      /\ firmware' = [firmware EXCEPT !.pc = "wait",
                                      !.completed = firmware.sequence]
  BY DEF Respond
<1>b. Bridged =>
        /\ down' = [down EXCEPT !.response_sequence = firmware.sequence]
        /\ UNCHANGED up
  BY DEF Respond, SetNear, near
<1>u. ~Bridged =>
        /\ up' = [up EXCEPT !.response_sequence = firmware.sequence]
        /\ UNCHANGED down
  BY DEF Respond, SetNear, near
<1>a. /\ Asked(firmware.sequence) /\ near.outputs = current
      /\ near.response_sequence < firmware.sequence
  BY <1>p DEF FirmwareInv
<1>r. current' = current /\ (Ended' <=> Ended)
  BY <1>p, <1>b, <1>u DEF Ended, current, TypeOK, Shared
<1>1. TypeOK'
  <2>1. up' \in Shared /\ down' \in Shared
    BY <1>p, <1>b, <1>u DEF TypeOK, Shared
  <2> QED
    BY <1>p, <2>1 DEF TypeOK
<1>2. RunnerInv'
  <2>1. CASE Bridged
    BY <1>p, <1>b, <1>r, <2>1 DEF RunnerInv, Ended, current
  <2>2. CASE ~Bridged
    <3>1. up'.response_sequence = firmware.sequence /\ up'.outputs = current
      BY <1>u, <1>a, <2>2 DEF near, TypeOK, Shared
    <3>2. /\ up'.odometry_sequence = up.odometry_sequence
          /\ up'.odometry = up.odometry /\ up'.magic = up.magic
          /\ up'.terminate = up.terminate
      BY <1>u, <2>2 DEF TypeOK, Shared
    <3>3. runner' = runner
      BY <1>p
    <3>4. /\ up.response_sequence < firmware.sequence /\ current \in Nat
          /\ up.response_sequence \in Nat
          /\ current - 1 <= up.response_sequence
          /\ \/ firmware.sequence = current
             \/ (Ended /\ firmware.sequence = current + 1)
      BY <1>a DEF Asked, RunnerInv, TypeOK, Shared, Numbers, Samples, current
    <3>5. runner.pc \notin {"open", "write", "post", "copy", "step"}
      BY <3>4 DEF RunnerInv, Ended
    <3>6. /\ current - 1 <= up'.response_sequence
          /\ up'.response_sequence <= up.odometry_sequence
      BY <3>1, <3>4 DEF RunnerInv
    <3> QED
      BY <1>r, <3>1, <3>2, <3>3, <3>5, <3>6 DEF RunnerInv
  <2> QED
    BY <2>1, <2>2
<1>3. Bridged => BridgeInv'
  BY SMTT(30), <1>p, <1>b, <1>u, <1>a, <1>r DEF TypeOK, RunnerInv, BridgeInv,
    DownInv,
    FirmwareInv, ComputedInv, Asked, Ended, current, near, Shared, Numbers,
    Samples
<1>4. Bridged => DownInv'
  <2> SUFFICES ASSUME Bridged PROVE DownInv'
    OBVIOUS
  <2>1. /\ down'.response_sequence = firmware.sequence
        /\ down'.odometry_sequence = down.odometry_sequence
        /\ down'.outputs = down.outputs /\ down'.magic = down.magic
    BY <1>b DEF TypeOK, Shared
  <2>2. down.odometry_sequence = firmware.sequence /\ down.outputs = current
    BY <1>p, <1>a DEF FirmwareInv, near
  <2>3. up' = up /\ bridge' = bridge /\ firmware'.pc = "wait"
    BY <1>p, <1>b DEF TypeOK
  <2>4. /\ up.response_sequence < firmware.sequence
        /\ firmware.sequence \in Nat /\ up.response_sequence \in Nat
    BY <1>a DEF Asked, TypeOK, Shared, Numbers
  <2>5. bridge.pc \notin {"open", "connect"}
    <3>1. SUFFICES ASSUME bridge.pc \in {"open", "connect"} PROVE FALSE
      OBVIOUS
    <3>2. firmware.sequence = 0
      BY <2>2, <3>1 DEF DownInv
    <3> QED
      BY <2>4, <3>2
  <2> QED
    BY <1>r, <2>1, <2>2, <2>3, <2>4, <2>5 DEF DownInv
<1>5. ~Bridged => firmware'.pc # "mark"
  BY <1>p, <1>b, <1>u, <1>a, <1>r DEF TypeOK, RunnerInv, BridgeInv, DownInv,
    FirmwareInv, ComputedInv, Asked, Ended, current, near, Shared, Numbers,
    Samples
<1>6. FirmwareInv'
  BY <1>p, <1>b, <1>u, <1>a, <1>r DEF TypeOK, RunnerInv, BridgeInv, DownInv,
    FirmwareInv, ComputedInv, Asked, Ended, current, near, Shared, Numbers,
    Samples
<1>7. ComputedInv'
  BY SMTT(30), <1>p, <1>b, <1>u, <1>a, <1>r DEF TypeOK, RunnerInv, BridgeInv,
    DownInv,
    FirmwareInv, ComputedInv, Asked, Ended, current, near, Shared, Numbers,
    Samples
<1>8. Bridged' <=> Bridged
  BY <1>p
<1> QED
  BY <1>8, <1>1, <1>2, <1>3, <1>4, <1>5, <1>6, <1>7

-----------------------------------------------------------------------------
(* The whole *)

LEMMA LockstepInit == Init => LockstepInv
<1> SUFFICES ASSUME Init PROVE LockstepInv
  OBVIOUS
<1> USE DEF Init, Fresh, Cleared
<1>1. TypeOK
  <2>1. up \in Shared /\ down \in Shared
    <3>1. 0 \in Numbers /\ 0 \in Samples
      BY DEF Numbers, Samples
    <3> QED
      BY <3>1 DEF Shared
  <2>2. computed \in Seq(Samples)
    OBVIOUS
  <2> QED
    BY <2>1, <2>2 DEF TypeOK, Numbers, Samples
<1>2. RunnerInv
  BY DEF RunnerInv, Ended, current
<1>3. Bridged => BridgeInv /\ DownInv
  BY DEF BridgeInv, DownInv, current
<1>4. FirmwareInv
  BY DEF FirmwareInv, near
<1>5. ComputedInv
  BY DEF ComputedInv, near, current
<1> QED
  BY <1>1, <1>2, <1>3, <1>4, <1>5 DEF LockstepInv

LEMMA LockstepStep == LockstepInv /\ [Next]_vars => LockstepInv'
<1> SUFFICES ASSUME LockstepInv, [Next]_vars PROVE LockstepInv'
  OBVIOUS
<1>1. CASE Runner
  BY <1>1, RunnerOpenKeeps, RunnerNeverOpensKeeps, WriteOdometryKeeps,
     PostKeeps, SeeResponseKeeps, RunnerGivesUpKeeps, CopyOutputsKeeps,
     StepPlantKeeps, TerminateKeeps, BumpKeeps DEF Runner, RunnerWorks
<1>2. CASE Bridge
  BY <1>2, BridgeOpenKeeps, BridgeNeverMapsKeeps, BridgeConnectKeeps,
     BridgeGivesUpKeeps, BridgePollKeeps, BridgeIdleKeeps, BridgeLookKeeps,
     BridgeReadKeeps, BridgeWriteKeeps, BridgePostKeeps,
     BridgeSeesResponseKeeps, BridgeCopyKeeps, BridgeAnswerKeeps,
     BridgeRespondKeeps, DropKeeps DEF Bridge, BridgeWorks
<1>3. CASE Firmware
  BY <1>3, MapSharedKeeps, ClearSharedKeeps, StoreMagicKeeps,
     SequenceInitKeeps, TakeSequenceKeeps, StopFirmwareKeeps,
     ReceiveOdometryKeeps, WriteOutputsKeeps, RespondKeeps DEF Firmware
<1>4. CASE FirmwareFails
  BY <1>4, FirmwareFailsKeeps
<1>5. CASE UNCHANGED vars
  <2> USE <1>5 DEF vars
  <2>1. UNCHANGED <<near, current, Ended>>
    BY DEF near, current, Ended
  <2>2. TypeOK' /\ RunnerInv'
    BY <2>1 DEF LockstepInv, TypeOK, RunnerInv
  <2>3. Bridged => BridgeInv' /\ DownInv'
    BY <2>1 DEF LockstepInv, BridgeInv, DownInv, Asked
  <2>4. FirmwareInv' /\ ComputedInv'
    BY <2>1 DEF LockstepInv, FirmwareInv, ComputedInv, Asked
  <2> QED
    BY <2>2, <2>3, <2>4 DEF LockstepInv
<1> QED
  BY <1>1, <1>2, <1>3, <1>4, <1>5 DEF Next

(* What is computed is at most one sample behind what was asked for, and   *)
(* at most one number ahead.                                               *)
LEMMA ComputedLength ==
  ASSUME LockstepInv
  PROVE  /\ Len(computed) \in Nat /\ current \in Nat
         /\ current - 1 <= Len(computed) /\ Len(computed) <= current + 1
<1>1. /\ Len(computed) \in Nat /\ current \in Nat
      /\ up.response_sequence \in Nat /\ up.odometry_sequence \in Nat
      /\ down.response_sequence \in Nat /\ down.odometry_sequence \in Nat
      /\ firmware.sequence \in Nat
  BY DEF LockstepInv, TypeOK, Shared, Numbers, Samples, current
<1>2. current - 1 <= up.response_sequence
      /\ up.response_sequence <= up.odometry_sequence
      /\ up.odometry_sequence <= current + 1
  BY <1>1 DEF LockstepInv, RunnerInv
<1>3. CASE firmware.pc \in {"write", "respond"}
  <2>1. firmware.sequence = current \/ firmware.sequence = current + 1
    BY <1>3 DEF LockstepInv, FirmwareInv, Asked
  <2>2. /\ firmware.sequence = current => Len(computed) = current
        /\ firmware.sequence = current + 1 =>
             Len(computed) \in {current, current + 1}
    BY <1>3 DEF LockstepInv, ComputedInv
  <2> QED
    BY <1>1, <2>1, <2>2
<1>4. CASE firmware.pc \notin {"write", "respond"}
  <2>1. near.response_sequence \in {current - 1, current, current + 1}
    <3>1. CASE Bridged
      <4>1. /\ up.response_sequence <= down.response_sequence
            /\ down.response_sequence <= down.odometry_sequence
            /\ down.odometry_sequence <= up.odometry_sequence
        BY <3>1 DEF LockstepInv, DownInv
      <4>2. down.response_sequence \in {current - 1, current, current + 1}
        BY <1>1, <1>2, <4>1
      <4> QED
        BY <3>1, <4>2 DEF near
    <3>2. CASE ~Bridged
      <4>1. up.response_sequence \in {current - 1, current, current + 1}
        BY <1>1, <1>2
      <4> QED
        BY <3>2, <4>1 DEF near
    <3> QED
      BY <3>1, <3>2
  <2>2. /\ near.response_sequence = current - 1 =>
             Len(computed) \in {current - 1, current}
        /\ near.response_sequence = current =>
             Len(computed) \in {current, current + 1}
        /\ near.response_sequence = current + 1 =>
             Len(computed) \in {current, current + 1}
    BY <1>1, <1>4 DEF LockstepInv, ComputedInv
  <2> QED
    BY <1>1, <2>1, <2>2
<1> QED
  BY <1>3, <1>4

(* The inductive invariant of the exchange (fmi3_lockstep_runner.c:535-550,*)
(* main.rs:82-90, 169-204, 342-348, lockstep.c:39-96).                     *)
THEOREM LockstepCorrect == Spec => []LockstepInv
<1>1. Init => LockstepInv
  BY LockstepInit
<1>2. LockstepInv /\ [Next]_vars => LockstepInv'
  BY LockstepStep
<1> QED
  BY <1>1, <1>2, PTL DEF Spec

(* Sequence numbers, samples and what each party keeps of them stay in     *)
(* range (cubs2_lockstep_shared, lockstep.h:17-25).                        *)
THEOREM TypeCorrect == Spec => []TypeOK
<1>1. LockstepInv => TypeOK
  BY DEF LockstepInv
<1> QED
  BY <1>1, LockstepCorrect, PTL

(* The plant is stepped only with the answer to its own sample             *)
(* (fmi3_lockstep_runner.c:539-556, 648).                                  *)
THEOREM PlantGetsOwnAnswer == Spec => []AnswersOwnSample
<1>1. LockstepInv => AnswersOwnSample
  BY DEF LockstepInv, RunnerInv, AnswersOwnSample, current
<1> QED
  BY <1>1, LockstepCorrect, PTL

(* Every sample is computed in its turn and once, until the runner has     *)
(* gone (main.rs:342, fmi3_lockstep_runner.c:755-756).                     *)
THEOREM SamplesComputedOnce == Spec => []ComputedOnce
<1>1. LockstepInv => ComputedOnce
  <2> SUFFICES ASSUME LockstepInv, NEW i \in 1 .. Len(computed)
               PROVE  \/ computed[i] = i
                      \/ computed[i] = i - 1 /\ i = Len(computed)
                         /\ runner.pc = "done"
    BY DEF ComputedOnce
  <2>1. Len(computed) \in Nat /\ current \in Nat
    BY DEF LockstepInv, TypeOK, current, Samples
  <2>2. Len(computed) <= current + 1
    BY ComputedLength
  <2>3. computed[i] = IF i <= current THEN i ELSE current
    BY DEF LockstepInv, ComputedInv
  <2>4. Len(computed) = current + 1 => runner.pc = "done"
    BY DEF LockstepInv, ComputedInv, Ended
  <2> QED
    BY <2>1, <2>2, <2>3, <2>4
<1> QED
  BY <1>1, LockstepCorrect, PTL

(* No payload is read while another party writes it, nor written by two    *)
(* (lockstep.c:52-54, 82, 94-95, main.rs:175-203).                         *)
THEOREM PayloadsNeverRace == Spec => []NoPayloadRace
<1>1. LockstepInv => NoPayloadRace
  <2> SUFFICES ASSUME LockstepInv PROVE NoPayloadRace
    OBVIOUS
  <2>1. /\ current \in Nat /\ up.response_sequence \in Nat
        /\ down.response_sequence \in Nat
    BY DEF LockstepInv, TypeOK, Shared, Numbers, Samples, current
  <2>2. runner.pc \in {"write", "copy"} =>
          ~\E n \in Nat : Asked(n)
    BY <2>1 DEF LockstepInv, RunnerInv, Asked, Ended
  <2>3. /\ bridge.pc \in {"read", "answer"} /\ Bridged =>
             \E n \in Nat : Asked(n)
        /\ firmware.pc \in {"copy", "write"} => \E n \in Nat : Asked(n)
    BY DEF LockstepInv, TypeOK, BridgeInv, FirmwareInv, Numbers
  <2>4. bridge.pc \in {"write", "copy"} /\ Bridged =>
          firmware.pc \notin {"boot", "copy", "write"}
    BY <2>1 DEF LockstepInv, BridgeInv, DownInv, FirmwareInv, near
  <2>5. ~Bridged => bridge.pc = "absent"
    OBVIOUS
  <2> QED
    BY <2>2, <2>3, <2>4, <2>5 DEF NoPayloadRace
<1> QED
  BY <1>1, LockstepCorrect, PTL

-----------------------------------------------------------------------------
(* The refinement *)

LEMMA NewestOf ==
  ASSUME NEW n \in Nat, NEW c \in Seq(Samples),
         \A i \in 1 .. Len(c) : c[i] = IF i <= n THEN i ELSE n
  PROVE  (IF c = <<>> THEN 0 ELSE c[Len(c)]) =
           IF Len(c) <= n THEN Len(c) ELSE n
<1>1. CASE c = <<>>
  BY <1>1
<1>2. CASE c # <<>>
  <2>1. Len(c) \in 1 .. Len(c)
    BY <1>2
  <2> QED
    BY <1>2, <2>1
<1> QED
  BY <1>1, <1>2

LEMMA NewestComputed ==
  ASSUME LockstepInv
  PROVE  Newest = IF Len(computed) <= current THEN Len(computed) ELSE current
<1>1. computed \in Seq(Samples) /\ current \in Nat
  BY DEF LockstepInv, TypeOK, current, Samples
<1>2. \A i \in 1 .. Len(computed) :
        computed[i] = IF i <= current THEN i ELSE current
  BY DEF LockstepInv, ComputedInv
<1> QED
  BY <1>1, <1>2, NewestOf DEF Newest

(* The firmware computes the sample asked for, or computes it again.       *)
LEMMA ReceiveRefines ==
  ASSUME LockstepInv, LockstepInv', ReceiveOdometry
  PROVE  InStep!Compute \/ UNCHANGED InStep!vars
<1>1. computed' = Append(computed, near.odometry) /\ UNCHANGED runner
  BY DEF ReceiveOdometry
<1>2. computed \in Seq(Samples) /\ near.odometry \in Samples
  BY DEF LockstepInv, TypeOK, Shared, near
<1>3. Len(computed') = Len(computed) + 1
  BY <1>1, <1>2
<1>4. current' = current
  BY <1>1 DEF current
<1>5. Newest' = IF Len(computed') <= current THEN Len(computed') ELSE current
  <2>1. computed' \in Seq(Samples) /\ current \in Nat
    BY <1>1, <1>2, ComputedLength
  <2>2. \A i \in 1 .. Len(computed') :
          computed'[i] = IF i <= current THEN i ELSE current
    BY <1>4 DEF LockstepInv, ComputedInv
  <2> QED
    BY <2>1, <2>2, NewestOf DEF Newest
<1>6. Newest = IF Len(computed) <= current THEN Len(computed) ELSE current
  BY NewestComputed
<1>7. CASE Len(computed) = current - 1
  BY <1>1, <1>3, <1>5, <1>6, <1>7, ComputedLength DEF InStep!Compute, current
<1>8. CASE Len(computed) # current - 1
  BY <1>1, <1>3, <1>5, <1>6, <1>8, ComputedLength DEF InStep!vars, current
<1> QED
  BY <1>7, <1>8

(* The runner hands out the next sample only when it has applied the last. *)
LEMMA PostRefines == LockstepInv /\ Post => InStep!Ask
<1> SUFFICES ASSUME LockstepInv, Post PROVE InStep!Ask
  OBVIOUS
<1>1. /\ runner.pc = "post"
      /\ runner' = [runner EXCEPT !.pc = "wait", !.sequence = @ + 1]
      /\ UNCHANGED computed
  BY DEF Post
<1>2. /\ runner.outputs = runner.sequence /\ runner.sequence < Steps
      /\ runner.result = "running"
  BY <1>1 DEF LockstepInv, RunnerInv, current
<1> QED
  BY <1>1, <1>2 DEF InStep!Ask, Newest, LockstepInv, TypeOK

(* It applies the outputs of its own sample.                               *)
LEMMA CopyRefines == LockstepInv /\ CopyOutputs => InStep!Answer \/ InStep!Fail
<1> SUFFICES ASSUME LockstepInv, CopyOutputs PROVE InStep!Answer \/ InStep!Fail
  OBVIOUS
<1>1. runner.pc = "copy" /\ UNCHANGED <<up, down, bridge, firmware, computed>>
  BY DEF CopyOutputs
<1>2. /\ runner.outputs = current - 1 /\ current > 0
      /\ runner.result = "running" /\ up.response_sequence = current
      /\ up.outputs = current /\ current \in Nat /\ ~Ended
  BY <1>1 DEF LockstepInv, RunnerInv, TypeOK, Samples, current, Ended
<1>3. Newest = current
  <2>1. near.response_sequence \in Nat /\ current <= near.response_sequence
    <3>1. CASE Bridged
      BY <1>2, <3>1 DEF LockstepInv, DownInv, TypeOK, Shared, Numbers, near
    <3>2. CASE ~Bridged
      BY <1>2, <3>2 DEF near
    <3> QED
      BY <3>1, <3>2
  <2>2. firmware.pc \notin {"copy", "write", "respond"}
    BY <1>2, <2>1 DEF LockstepInv, FirmwareInv, Asked, TypeOK, Numbers
  <2>3. Len(computed) >= current
    <3>1. near.response_sequence <= current
      <4>1. CASE Bridged
        BY <1>1, <1>2, <4>1 DEF LockstepInv, RunnerInv, DownInv, TypeOK,
          Shared,
          Numbers, near
      <4>2. CASE ~Bridged
        BY <1>2, <4>2 DEF near
      <4> QED
        BY <4>1, <4>2
    <3> QED
      BY <1>2, <2>1, <2>2, <3>1 DEF LockstepInv, ComputedInv
  <2> QED
    BY <2>3, NewestComputed, ComputedLength
<1>4. CASE runner' = [runner EXCEPT !.pc = "step", !.outputs = up.outputs]
  <2>1. /\ runner'.outputs = current /\ runner'.sequence = runner.sequence
        /\ runner'.result = runner.result
    BY <1>2, <1>4 DEF LockstepInv, TypeOK
  <2>2. Newest' = Newest
    BY <1>1 DEF Newest
  <2> QED
    BY <1>2, <1>3, <2>1, <2>2 DEF InStep!Answer, current
<1>5. CASE RunnerEnds("failure")
  BY <1>1, <1>2, <1>5 DEF RunnerEnds, InStep!Fail, Newest, LockstepInv, TypeOK
<1> QED
  BY <1>4, <1>5 DEF CopyOutputs

(* It succeeds after the last sample.                                      *)
LEMMA StepRefines ==
  LockstepInv /\ StepPlant => InStep!Succeed \/ UNCHANGED InStep!vars
<1> SUFFICES ASSUME LockstepInv, StepPlant
             PROVE  InStep!Succeed \/ UNCHANGED InStep!vars
  OBVIOUS
<1>1. runner.pc = "step" /\ UNCHANGED computed /\ Newest' = Newest
  BY DEF StepPlant, Newest
<1>2. /\ runner.outputs = runner.sequence /\ runner.result = "running"
      /\ runner.sequence \in 0 .. Steps
  BY <1>1 DEF LockstepInv, RunnerInv, TypeOK, Samples, current
<1>3. CASE WillStep
  BY <1>1, <1>3 DEF StepPlant, InStep!vars, LockstepInv, TypeOK
<1>4. CASE ~WillStep
  <2>1. runner.outputs = Steps
    BY <1>2, <1>4 DEF WillStep
  <2> QED
    BY <1>1, <1>2, <1>4, <2>1
       DEF StepPlant, RunnerEnds, InStep!Succeed, LockstepInv, TypeOK
<1> QED
  BY <1>3, <1>4

(* Every other step of the runner leaves what it promises alone, or gives  *)
(* up.                                                                     *)
LEMMA RunnerRefines ==
  LockstepInv /\ Runner => [InStep!Next]_InStep!vars
<1> SUFFICES ASSUME LockstepInv, Runner PROVE [InStep!Next]_InStep!vars
  OBVIOUS
<1>1. CASE RunnerOpen \/ WriteOdometry \/ SeeResponse \/ Terminate \/ Bump
  <2>1. UNCHANGED computed /\ Newest' = Newest
    BY <1>1 DEF RunnerOpen, WriteOdometry, SeeResponse, Terminate, Bump,
      RunnerStep, Newest
  <2>2. PICK pc : runner' = [runner EXCEPT !.pc = pc]
    BY <1>1 DEF RunnerOpen, WriteOdometry, SeeResponse, Terminate, Bump,
      RunnerStep
  <2> QED
    BY <2>1, <2>2 DEF InStep!vars, LockstepInv, TypeOK
<1>2. CASE RunnerNeverOpens \/ RunnerGivesUp
  <2>1. UNCHANGED computed /\ Newest' = Newest
    BY <1>2 DEF RunnerNeverOpens, RunnerGivesUp, Newest
  <2>2. runner.pc \in {"open", "write", "wait", "step"}
    BY <1>2 DEF RunnerNeverOpens, RunnerGivesUp, RunnerFailsAt
  <2>3. runner.result = "running"
    BY <2>2 DEF LockstepInv, RunnerInv
  <2>4. PICK pc : runner' = [runner EXCEPT !.pc = pc, !.result = "failure"]
    BY <1>2 DEF RunnerNeverOpens, RunnerGivesUp, RunnerEnds
  <2> QED
    BY <2>1, <2>3, <2>4 DEF InStep!Next, InStep!Fail, LockstepInv, TypeOK
<1>3. CASE Post
  BY <1>3, PostRefines DEF InStep!Next
<1>4. CASE CopyOutputs
  BY <1>4, CopyRefines DEF InStep!Next
<1>5. CASE StepPlant
  BY <1>5, StepRefines DEF InStep!Next
<1> QED
  BY <1>1, <1>2, <1>3, <1>4, <1>5 DEF Runner, RunnerWorks

(* Firmware and bridge together are a controller in step with the plant    *)
(* (lockstep.c:68-103, main.rs:169-204, 340-358).                          *)
THEOREM FirmwareInStep == Spec => StaysInStep
<1>1. Init => InStep!Init
  BY DEF Init, InStep!Init, Newest
<1>2. LockstepInv /\ LockstepInv' /\ [Next]_vars => [InStep!Next]_InStep!vars
  <2> SUFFICES ASSUME LockstepInv, LockstepInv', [Next]_vars
               PROVE  [InStep!Next]_InStep!vars
    OBVIOUS
  <2>1. CASE Runner
    BY <2>1, RunnerRefines
  <2>2. CASE Bridge
    <3>1. UNCHANGED <<runner, computed>>
      BY <2>2 DEF Bridge, BridgeWorks, BridgeStep, BridgeOpen, BridgeNeverMaps,
        BridgeConnect, BridgeGivesUp, BridgePoll, BridgeIdle, BridgeLook,
        BridgeRead, BridgeWrite, BridgePost, BridgeSeesResponse, BridgeCopy,
        BridgeAnswer, BridgeRespond, Drop
    <3> QED
      BY <3>1 DEF InStep!vars, Newest
  <2>3. CASE Firmware
    <3>1. CASE ReceiveOdometry
      BY <3>1, ReceiveRefines DEF InStep!Next
    <3>2. CASE ~ReceiveOdometry
      <4>1. UNCHANGED <<runner, computed>>
        BY <2>3, <3>2 DEF Firmware, FirmwareStep, MapShared, ClearShared,
          StoreMagic, SequenceInit, TakeSequence, StopFirmware, WriteOutputs,
          Respond
      <4> QED
        BY <4>1 DEF InStep!vars, Newest
    <3> QED
      BY <3>1, <3>2
  <2>4. CASE FirmwareFails \/ UNCHANGED vars
    BY <2>4 DEF FirmwareFails, vars, InStep!vars, Newest
  <2> QED
    BY <2>1, <2>2, <2>3, <2>4 DEF Next
<1> QED
  BY <1>1, <1>2, LockstepCorrect, PTL DEF Spec, StaysInStep, InStep!Spec
=============================================================================
