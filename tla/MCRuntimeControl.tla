-------------------------- MODULE MCRuntimeControl --------------------------
(***************************************************************************)
(* RuntimeControl on two handlers, a parameter or two and plans of one or  *)
(* two segments.                                                           *)
(***************************************************************************)
EXTENDS RuntimeControlProperties, TLC

CONSTANTS h1, h2

OneHandler == {h1}
TwoHandlers == {h1, h2}
HandlerSymmetry == Permutations(TwoHandlers)
=============================================================================
