--------------------------- MODULE MCSocialAccounts ---------------------------
(***************************************************************************)
(* Instances of SocialAccounts for TLC.                                    *)
(***************************************************************************)
EXTENDS SocialAccounts, TLC

CONSTANTS p1, i1, q1, q2

SymRequests == Permutations(Request)
=============================================================================
