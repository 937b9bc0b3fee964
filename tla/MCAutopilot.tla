---------------------------- MODULE MCAutopilot ----------------------------
(***************************************************************************)
(* Instances of Autopilot for TLC.                                         *)
(***************************************************************************)
EXTENDS Autopilot, TLC

CONSTANTS w1, i1, i2, i3, r1, r2, g1, g2

Sym == Permutations(Insight) \cup Permutations(Research) \cup Permutations(Generation)
=============================================================================
