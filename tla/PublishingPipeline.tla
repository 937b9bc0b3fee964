------------------------- MODULE PublishingPipeline -------------------------
(***************************************************************************)
(* The way of a piece from draft to the networks: ContentPieces and        *)
(* Publications as one node process over one database, and the scheduling  *)
(* workflow of n8n between them, which is told of an approval by a webhook *)
(* and answers with one request to schedule.                               *)
(*                                                                         *)
(* Each component modelled the other by the writes it might see            *)
(* (PublicationWrite there, PieceWrite here); ContentPiecesKept and        *)
(* PublicationsKept say that the composition stays within them.            *)
(***************************************************************************)
EXTENDS ContentStates, Integers, Sequences, FiniteSets

CONSTANTS
  Piece, None,
  Template, Layouts, Edits, Handler, WebhookConfigured, MaxMishaps,
  Publication, Account, Call, PieceOf, AccountOf, Supported,
  MaxRetry, MaxReschedules, MaxFaults

VARIABLES
  pieceStatus, everApproved,                          \* shared
  zones, template, slides, handlers, notified, humanApproved, overlapped, outgrown,
  mishaps,
  accountStatus, pubStatus, jobs, calls, worker, posts, lost, late,
  everPublished, reschedules, faults,
  workflow          \* [Piece -> WorkflowState]: the execution for its webhook

CP == INSTANCE ContentPieces
PB == INSTANCE Publications

ASSUME PublishingPipelineAssumption ==
  CP!ContentPiecesAssumption /\ PB!PublicationsAssumption

sharedVars == <<pieceStatus, everApproved>>
contentOnly == <<zones, template, slides, handlers, notified, humanApproved, overlapped,
                 outgrown, mishaps>>
publicationOnly == <<accountStatus, pubStatus, jobs, calls, worker, posts, lost,
                     late, everPublished, reschedules, faults>>
vars == <<sharedVars, contentOnly, publicationOnly, workflow>>

WorkflowState == {"none", "asked", "failed"}

Init == CP!Init /\ PB!Init /\ workflow = [k \in Piece |-> "none"]

(* A step of one component leaves the rows and the memory of the other.    *)
ContentStep(A) == A /\ UNCHANGED <<publicationOnly, workflow>>
PublicationStep(A) == A /\ UNCHANGED <<contentOnly, workflow>>

GeneratedImage ==
  \E k \in Piece : \E i \in DOMAIN slides[k] : CP!GeneratedImageWrite(k, i)
TemplateEdit ==
  \E t \in Template : \E layout \in Layouts[t] : CP!UpdateTemplate(t, layout)

SomeCallFails ==
  \/ \E c \in Call : PB!CallFails(c)
  \/ PB!PublishReplyLost \/ PB!UpdateFails \/ PB!TryFails \/ PB!MarkReplyLost
  \/ PB!ProcessThrows

(* scheduling-pipeline.json: one execution per webhook, one request in it, *)
(* for a publication of the piece; refused or not, the execution is over.  *)
(* It fails when one of its own reads does, or when it finds no free time  *)
(* slot or no connected account.                                           *)
Triggered(k) == k \in notified /\ workflow[k] = "none"
WorkflowSchedules(k) ==
  /\ Triggered(k)
  /\ workflow' = [workflow EXCEPT ![k] = "asked"]
  /\ \/ \E c \in Call, p \in Publication : PieceOf[p] = k /\ PB!ScheduleRead(c, p)
     \/ ~PB!Schedulable(pieceStatus[k]) /\ UNCHANGED <<sharedVars, publicationOnly>>
  /\ UNCHANGED contentOnly
WorkflowFails(k) ==
  /\ Triggered(k)
  /\ workflow' = [workflow EXCEPT ![k] = "failed"]
  /\ UNCHANGED <<sharedVars, contentOnly, publicationOnly>>

(* One process: a crash takes the requests of both and the worker.         *)
Crash == CP!Crash /\ PB!Crash /\ UNCHANGED workflow

Reconnect ==
  \E a \in Account, s \in {"connected", "disconnected"} : PB!AccountWrite(a, s)

Next ==
  \/ ContentStep(CP!ContentNext \/ GeneratedImage \/ TemplateEdit)
  \/ PublicationStep(PB!PublicationsNext \/ SomeCallFails \/ Reconnect)
  \/ \E k \in Piece : WorkflowSchedules(k) \/ WorkflowFails(k)
  \/ Crash

Spec == Init /\ [][Next]_vars

(* Requests run to their end, the worker serves its queue, the stalled     *)
(* checker is a timer, and n8n runs the workflow it was called for.        *)
FairSpec ==
  /\ Spec
  /\ \A h \in Handler : WF_vars(ContentStep(CP!HandlerStep(h)))
  /\ \A c \in Call : WF_vars(PublicationStep(PB!CallStep(c)))
  /\ WF_vars(PublicationStep(PB!WorkerStep))
  /\ \A id \in PB!JobId : WF_vars(PublicationStep(PB!StalledCheck(id)))
  /\ \A k \in Piece : WF_vars(WorkflowSchedules(k))

-----------------------------------------------------------------------------
(* ContentPieces sees nothing of the publications but writes to pieces     *)
(* that were approved.                                                     *)
ContentPiecesKept == CP!Spec

(* Publications sees nothing of the content handlers but submissions and   *)
(* decisions.                                                              *)
PublicationsKept == PB!Spec

(* A piece no two requests ever worked on at once is still past its        *)
(* approval when a network holds a post of it.                             *)
PostedIsPastApproval ==
  \A p \in Publication :
    posts[p] > 0 /\ PieceOf[p] \notin overlapped
      => pieceStatus[PieceOf[p]] \in {"approved", "scheduled", "published"}

(* From approval to an outcome: where the webhook is configured, with no   *)
(* fault, no overlapping requests, no reschedule and accounts that stay    *)
(* connected, a piece that was approved gets a publication and that is     *)
(* settled, and nobody has to ask for it.                                  *)
StayConnected == []\A a \in Account : accountStatus[a] = "connected"
Smooth(k) ==
  /\ WebhookConfigured /\ mishaps = 0 /\ faults = 0 /\ workflow[k] # "failed" /\ k \notin overlapped
  /\ \A p \in Publication : reschedules[p] = 0
Rows(k) == {p \in Publication : PieceOf[p] = k /\ pubStatus[p] # "absent"}
ApprovedIsSettled ==
  StayConnected =>
    \A k \in Piece :
      k \in everApproved /\ Smooth(k)
        ~> ~Smooth(k) \/ \E p \in Rows(k) : pubStatus[p] \in PB!Settled
=============================================================================
