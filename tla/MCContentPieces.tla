--------------------------- MODULE MCContentPieces ---------------------------
(***************************************************************************)
(* Instances of ContentPieces for TLC.                                     *)
(***************************************************************************)
EXTENDS ContentPieces, TLC

CONSTANTS k1, t1, t2, h1, h2

(* A template of the system for one slide, and one of the workspace that   *)
(* is edited between two slides and three, although it has but two zones.  *)
SomeLayouts == [t \in Template |-> IF t = t1 THEN {{0}} ELSE {{0, 1}, {0, 2}}]
(* The edit that makes a difference to the approval: a generated picture.  *)
OneEdit == {[source |-> "ai_generated", bg |-> "generated"]}

SymHandlers == Permutations(Handler)
=============================================================================
