------------------------------ MODULE MCBilling ------------------------------
(***************************************************************************)
(* Instances of Billing for TLC.                                           *)
(***************************************************************************)
EXTENDS Billing, TLC

CONSTANTS basic, instagram, q1, q2, w1, w2

SymCalls == Permutations(Request) \cup Permutations(Handler)
=============================================================================
