------------------------- MODULE MCImageGeneration -------------------------
(***************************************************************************)
(* Instances of ImageGeneration for TLC.                                   *)
(***************************************************************************)
EXTENDS ImageGeneration

CONSTANTS s1, c1, c2, n1
=============================================================================
