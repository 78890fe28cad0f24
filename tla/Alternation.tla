---------------------------- MODULE Alternation ----------------------------
(***************************************************************************)
(* What deterministic lockstep promises the plant: it hands out its        *)
(* samples one by one, the controller computes each of them once, and the  *)
(* plant goes on to the next sample only with the outputs of the last.     *)
(***************************************************************************)
EXTENDS Naturals

CONSTANT Steps  \* the samples of a run

VARIABLES
  asked, computed, answered,  \* The last sample handed out, computed, applied.
  result                      \* "running", "success" or "failure"

vars == <<asked, computed, answered, result>>

Init == asked = 0 /\ computed = 0 /\ answered = 0 /\ result = "running"

Ask ==
  /\ result = "running" /\ answered = asked /\ asked < Steps
  /\ asked' = asked + 1
  /\ UNCHANGED <<computed, answered, result>>

(* The controller does not learn at once that the plant has given up. *)
Compute ==
  /\ computed < asked
  /\ computed' = asked
  /\ UNCHANGED <<asked, answered, result>>

Answer ==
  /\ result = "running" /\ answered < asked /\ computed = asked
  /\ answered' = computed
  /\ UNCHANGED <<asked, computed, result>>

Succeed ==
  /\ result = "running" /\ answered = Steps
  /\ result' = "success"
  /\ UNCHANGED <<asked, computed, answered>>

Fail ==
  /\ result = "running"
  /\ result' = "failure"
  /\ UNCHANGED <<asked, computed, answered>>

Next == Ask \/ Compute \/ Answer \/ Succeed \/ Fail

Spec == Init /\ [][Next]_vars
=============================================================================
