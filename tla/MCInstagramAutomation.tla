------------------------ MODULE MCInstagramAutomation ------------------------
(***************************************************************************)
(* Instances of InstagramAutomation for TLC: a flow that greets and asks,  *)
(* or one that only takes a note.                                          *)
(***************************************************************************)
EXTENDS InstagramAutomation

CONSTANTS f1, e1, h1

Scripts == {<<"send", "send">>, <<"tag">>}
=============================================================================
