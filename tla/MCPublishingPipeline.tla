------------------------ MODULE MCPublishingPipeline ------------------------
(***************************************************************************)
(* Instances of PublishingPipeline for TLC.                                *)
(***************************************************************************)
EXTENDS PublishingPipeline, TLC

CONSTANTS k1, t1, p1, p2, a1, h1, h2, c1, c2

OneSlide == [t \in Template |-> {{0}}]
AiEdit == {[source |-> "ai_generated", bg |-> "generated"]}
OnePiece == [p \in Publication |-> k1]
OneAccount == [p \in Publication |-> a1]
=============================================================================
