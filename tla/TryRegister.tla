---------------------------- MODULE TryRegister ----------------------------
(***************************************************************************)
(* What `struct atomic_double` of src/runtime_control.c promises its       *)
(* users: a register that one writer stores into and that readers try to   *)
(* load.  A load takes effect at one instant of the call, at which it      *)
(* returns the stored value; it may give up, but only when a store was in  *)
(* progress at some time during the call.  No call waits for another.      *)
(***************************************************************************)

CONSTANTS
  Readers,  \* The threads that call atomic_double_try_load.
  Value,    \* The set of values the register can hold.
  Failed    \* What a load that gives up returns.

VARIABLES
  val,        \* The value of the latest store.
  storing,    \* TRUE while a store is in progress.
  loading,    \* loading[r]: reader r is inside a load.
  disturbed,  \* disturbed[r]: a store was in progress during r's load.
  ret         \* ret[r]: what r's latest load returned.

vars == <<val, storing, loading, disturbed, ret>>

Init ==
  /\ val \in Value
  /\ storing = FALSE
  /\ loading = [r \in Readers |-> FALSE]
  /\ disturbed = [r \in Readers |-> FALSE]
  /\ ret = [r \in Readers |-> Failed]

BeginStore(v) ==
  /\ ~storing
  /\ storing' = TRUE
  /\ val' = v
  /\ disturbed' = [r \in Readers |-> disturbed[r] \/ loading[r]]
  /\ UNCHANGED <<loading, ret>>

EndStore ==
  /\ storing
  /\ storing' = FALSE
  /\ UNCHANGED <<val, loading, disturbed, ret>>

BeginLoad(r) ==
  /\ ~loading[r]
  /\ loading' = [loading EXCEPT ![r] = TRUE]
  /\ disturbed' = [disturbed EXCEPT ![r] = storing]
  /\ UNCHANGED <<val, storing, ret>>

(* The load returns the register's value, and no store is half done.       *)
Succeed(r) ==
  /\ loading[r]
  /\ ~storing
  /\ loading' = [loading EXCEPT ![r] = FALSE]
  /\ disturbed' = [disturbed EXCEPT ![r] = FALSE]
  /\ ret' = [ret EXCEPT ![r] = val]
  /\ UNCHANGED <<val, storing>>

GiveUp(r) ==
  /\ loading[r]
  /\ disturbed[r]
  /\ loading' = [loading EXCEPT ![r] = FALSE]
  /\ disturbed' = [disturbed EXCEPT ![r] = FALSE]
  /\ ret' = [ret EXCEPT ![r] = Failed]
  /\ UNCHANGED <<val, storing>>

Next ==
  \/ \E v \in Value : BeginStore(v)
  \/ EndStore
  \/ \E r \in Readers : BeginLoad(r) \/ Succeed(r) \/ GiveUp(r)

Spec == Init /\ [][Next]_vars
=============================================================================
