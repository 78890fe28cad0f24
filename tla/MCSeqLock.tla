----------------------------- MODULE MCSeqLock -----------------------------
(***************************************************************************)
(* SeqLock with a counter small enough to wrap around during the run.      *)
(***************************************************************************)
EXTENDS SeqLock

CONSTANTS r1, a, b

OneReader == {r1}
TwoParts == {a, b}
=============================================================================
