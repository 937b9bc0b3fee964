------------------------- MODULE PublicationLedger -------------------------
(***************************************************************************)
(* What scheduling and publishing promise, without requests, jobs or       *)
(* worker: an account of every publication that says what its row tells    *)
(* the user, how many posts the network holds, how many of those its row   *)
(* was never told of, and whether the system came to doubt a post its row  *)
(* had been told of.  Publications implements this module.                 *)
(***************************************************************************)
EXTENDS Integers

CONSTANTS Piece, Publication, PieceOf

VARIABLES approved, outcome, sent, mislaid, doubted
vars == <<approved, outcome, sent, mislaid, doubted>>

Init ==
  /\ approved = {}
  /\ outcome = [p \in Publication |-> "absent"]
  /\ sent = [p \in Publication |-> 0]
  /\ mislaid = [p \in Publication |-> 0]
  /\ doubted = {}

(* Approval is never taken back: a piece approved once may be posted.      *)
Approve(k) ==
  /\ approved' = approved \cup {k}
  /\ UNCHANGED <<outcome, sent, mislaid, doubted>>

(* A row is opened once, for a piece that was approved.                    *)
Open(p) ==
  /\ outcome[p] = "absent"
  /\ PieceOf[p] \in approved
  /\ outcome' = [outcome EXCEPT ![p] = "scheduled"]
  /\ UNCHANGED <<approved, sent, mislaid, doubted>>

(* A post goes out while no earlier one is accounted for.  A cancel does   *)
(* not call back a post already decided.                                   *)
MaySend(p) == outcome[p] \in {"scheduled", "cancelled"} /\ sent[p] = mislaid[p]

Send(p) ==
  /\ MaySend(p)
  /\ sent' = [sent EXCEPT ![p] = @ + 1]
  /\ UNCHANGED <<approved, outcome, mislaid, doubted>>

SendAndMislay(p) ==
  /\ MaySend(p)
  /\ sent' = [sent EXCEPT ![p] = @ + 1]
  /\ mislaid' = [mislaid EXCEPT ![p] = @ + 1]
  /\ UNCHANGED <<approved, outcome, doubted>>

Mislay(p) ==
  /\ mislaid[p] < sent[p]
  /\ mislaid' = [mislaid EXCEPT ![p] = @ + 1]
  /\ UNCHANGED <<approved, outcome, sent, doubted>>

(* A failure after the row was told of its post.                           *)
Doubt(p) ==
  /\ outcome[p] \in {"published", "cancelled"}
  /\ sent[p] > mislaid[p]
  /\ doubted' = doubted \cup {p}
  /\ UNCHANGED <<approved, outcome, sent, mislaid>>

(* The outcomes a row may be given.  None of them opens it again, and only *)
(* a doubted publication fails with its post on the network.               *)
Published(p) ==
  /\ outcome[p] \in {"scheduled", "cancelled"}
  /\ sent[p] > mislaid[p]
  /\ outcome' = [outcome EXCEPT ![p] = "published"]
  /\ UNCHANGED <<approved, sent, mislaid, doubted>>

Failed(p) ==
  /\ outcome[p] # "absent"
  /\ sent[p] = mislaid[p] \/ (p \in doubted /\ outcome[p] # "scheduled")
  /\ outcome' = [outcome EXCEPT ![p] = "failed"]
  /\ UNCHANGED <<approved, sent, mislaid, doubted>>

Cancelled(p) ==
  /\ outcome[p] # "absent"
  /\ outcome' = [outcome EXCEPT ![p] = "cancelled"]
  /\ UNCHANGED <<approved, sent, mislaid, doubted>>

Next ==
  \/ \E k \in Piece : Approve(k)
  \/ \E p \in Publication :
       \/ Open(p) \/ Send(p) \/ SendAndMislay(p) \/ Mislay(p) \/ Doubt(p)
       \/ Published(p) \/ Failed(p) \/ Cancelled(p)

Spec == Init /\ [][Next]_vars
=============================================================================
