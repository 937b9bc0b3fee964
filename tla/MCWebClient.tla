---------------------------- MODULE MCWebClient ----------------------------
(***************************************************************************)
(* Instances of WebClient for TLC.                                         *)
(***************************************************************************)
EXTENDS WebClient

(* Every page on its own, and the tours on which a page is left with its   *)
(* requests in flight, shows what another page writes, or is opened again. *)
TheTours ==
  {<<r>> : r \in Routes} \cup
  {<<"/autopilot", "/dashboard">>, <<"/autopilot", "/templates", "/autopilot">>,
   <<"/connections", "/dashboard">>, <<"/approval-queue", "/research">>,
   <<"/templates", "/templates/id/edit">>,
   <<"/templates/id/edit", "/templates", "/templates/id/edit">>}
=============================================================================
