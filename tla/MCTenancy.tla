------------------------------ MODULE MCTenancy ------------------------------
(***************************************************************************)
(* Instances of Tenancy for TLC.                                           *)
(***************************************************************************)
EXTENDS Tenancy, TLC

CONSTANTS w1, w2, ann, bob, t1, q1, q2

Sym == Permutations(Workspace) \cup Permutations(Request)
         \cup Permutations(User \ SuperAdmin)
=============================================================================
