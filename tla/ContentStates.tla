--------------------------- MODULE ContentStates ---------------------------
(***************************************************************************)
(* The status of a content piece and the pure decisions taken on it        *)
(* (apps/api/src/content-pieces/state-machine.ts).  Every service that     *)
(* moves a piece reads its row, asks one of these, and writes later: the   *)
(* table is a check of the status READ, never of the one overwritten.      *)
(***************************************************************************)

ContentPieceStatus ==
  {"draft", "pending_approval", "approved", "rejected", "scheduled",
   "published", "failed"}

(* VALID_TRANSITIONS as a relation: the pairs <<from, to>> it allows.      *)
VALID_TRANSITIONS ==
  {<<"draft", "pending_approval">>, <<"draft", "approved">>,
   <<"pending_approval", "approved">>, <<"pending_approval", "rejected">>,
   <<"approved", "scheduled">>,
   <<"rejected", "pending_approval">>, <<"rejected", "draft">>,
   <<"scheduled", "published">>, <<"scheduled", "failed">>,
   <<"failed", "draft">>}

(* assertValidTransition throws exactly when this is FALSE.                *)
ValidTransition(from, to) == <<from, to>> \in VALID_TRANSITIONS

EDITABLE_STATUSES == {"draft", "rejected"}

IsEditable(status) == status \in EDITABLE_STATUSES

(* Where a submission goes: a piece with an AI slide always waits for a    *)
(* human, any other follows autoApprove.                                   *)
ResolveSubmissionTarget(hasAiGeneratedSlide, autoApprove) ==
  IF autoApprove /\ ~hasAiGeneratedSlide THEN "approved" ELSE "pending_approval"
=============================================================================
