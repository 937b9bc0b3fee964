---------------------------- MODULE MCScheduling ----------------------------
(***************************************************************************)
(* Instances of Scheduling for TLC: days of two hours.                     *)
(***************************************************************************)
EXTENDS Scheduling, TLC

CONSTANTS x1, x2

Lists == {<<20, 40>>, <<80, 20>>}
Sym == Permutations(Execution)
=============================================================================
