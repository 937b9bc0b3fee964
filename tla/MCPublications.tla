--------------------------- MODULE MCPublications ---------------------------
(***************************************************************************)
(* Instances of Publications for TLC.                                      *)
(***************************************************************************)
EXTENDS Publications, TLC

CONSTANTS k1, k2, p1, p2, p3, a1, a2, c1, c2

(* One piece for two accounts, the case of spec 030, CA-02.                *)
OnePiece == [p \in Publication |-> k1]
TwoAccounts == [p \in Publication |-> IF p = p1 THEN a1 ELSE a2]

(* Two pieces: two publications of the first, one of the second.           *)
TwoPieces == [p \in Publication |-> IF p = p3 THEN k2 ELSE k1]
OneAccount == [p \in Publication |-> a1]

SymCalls == Permutations(Call)
SymCallsAndRows == Permutations(Call) \cup Permutations(Publication)
=============================================================================
