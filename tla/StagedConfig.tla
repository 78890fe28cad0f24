--------------------------- MODULE StagedConfig ---------------------------
(***************************************************************************)
(* What the runtime services of src/runtime_control.c promise a client:    *)
(* each slot (a parameter, the flight plan) is a mailbox.  A command is    *)
(* staged whole; the controller takes staged commands over whole, never    *)
(* goes back to an older one, and does not leave the newest one waiting    *)
(* for ever.                                                               *)
(***************************************************************************)
EXTENDS Integers

CONSTANTS
  Slots,    \* The parameters and the flight plan.
  Tickets   \* Commands, numbered in the order they are staged.

VARIABLES
  staged,    \* staged[s]: the commands staged for slot s so far.
  delivered  \* delivered[s]: the one the controller flies with; 0: none.

vars == <<staged, delivered>>

Init ==
  /\ staged = [s \in Slots |-> {}]
  /\ delivered = [s \in Slots |-> 0]

Stage(s) ==
  \E t \in Tickets :
    /\ \A r \in Slots : \A u \in staged[r] : u < t
    /\ staged' = [staged EXCEPT ![s] = @ \union {t}]
    /\ UNCHANGED delivered

Deliver(s) ==
  \E t \in staged[s] :
    /\ delivered[s] < t
    /\ delivered' = [delivered EXCEPT ![s] = t]
    /\ UNCHANGED staged

Next == \E s \in Slots : Stage(s) \/ Deliver(s)

Spec == Init /\ [][Next]_vars

Fairness == \A s \in Slots : WF_vars(Deliver(s))
=============================================================================
