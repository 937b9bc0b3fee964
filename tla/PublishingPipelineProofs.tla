----------------------- MODULE PublishingPipelineProofs -----------------------
(***************************************************************************)
(* Theorems about PublishingPipeline: the composition stays within what    *)
(* each component assumed of the other, so what ContentPiecesProofs and    *)
(* PublicationsProofs prove of the components holds of both together, and  *)
(* the two together give what neither can say alone.                       *)
(***************************************************************************)
EXTENDS PublishingPipeline, TLAPS

CPP == INSTANCE ContentPiecesProofs
PBP == INSTANCE PublicationsProofs

(* What the theorems of the components assume of the constants.            *)
LEMMA ContentAssumed == CPP!ContentPiecesAssumption
  BY PublishingPipelineAssumption
  DEF PublishingPipelineAssumption, CP!ImageSource, CPP!ImageSource,
      CP!Picture, CPP!Picture, CP!Keep, CPP!Keep, CP!AllLayouts, CPP!AllLayouts
LEMMA PublicationsAssumed == PBP!PublicationsAssumption
  BY PublishingPipelineAssumption DEF PublishingPipelineAssumption

-----------------------------------------------------------------------------
(* The component that is composed is the one the theorems are about.       *)
LEMMA SameContent ==
  /\ CP!Init <=> CPP!Init
  /\ CP!Next <=> CPP!Next
  /\ CP!vars = CPP!vars
<1>1. CP!Init <=> CPP!Init
  BY DEF CP!Init, CPP!Init, CP!Idle, CPP!Idle, CP!Blank, CPP!Blank,
         CP!BlankSlide, CPP!BlankSlide, CP!SlideCount, CPP!SlideCount, CP!Max,
         CPP!Max, CP!AllLayouts, CPP!AllLayouts
<1>2. CP!Next <=> CPP!Next
  BY DEF CP!Keep, CPP!Keep, CP!vars, CPP!vars, CP!rowVars, CPP!rowVars,
         CP!approvals, CPP!approvals, CP!BlankSlide, CPP!BlankSlide, CP!Blank,
         CPP!Blank, CP!SlideCount, CPP!SlideCount, CP!HasAiGeneratedSlide,
         CPP!HasAiGeneratedSlide, CP!Backgrounds, CPP!Backgrounds, CP!Idle,
         CPP!Idle, CP!At, CPP!At, CP!On, CPP!On, CP!Goto, CPP!Goto, CP!Reply,
         CPP!Reply, CP!Begin, CPP!Begin, CP!ToStatus, CPP!ToStatus,
         CP!SubmitRead, CPP!SubmitRead, CP!DecideRead, CPP!DecideRead,
         CP!AfterStatus, CPP!AfterStatus, CP!StatusWrite, CPP!StatusWrite,
         CP!Audit, CPP!Audit, CP!Notify, CPP!Notify, CP!WriteReason,
         CPP!WriteReason, CP!TemplateFind, CPP!TemplateFind, CP!TemplateRead,
         CPP!TemplateRead, CP!UpdateTemplate, CPP!UpdateTemplate, CP!layoutVars,
         CPP!layoutVars, CP!AddSlides, CPP!AddSlides, CP!TemplateWrite,
         CPP!TemplateWrite, CP!EditRead, CPP!EditRead, CP!Updated, CPP!Updated,
         CP!EditWrite, CPP!EditWrite, CP!RenderRead, CPP!RenderRead,
         CP!RenderWrite, CPP!RenderWrite, CP!GeneratedImageWrite,
         CPP!GeneratedImageWrite, CP!PublicationWrite, CPP!PublicationWrite,
         CP!Mishap, CPP!Mishap, CP!HandlerFails, CPP!HandlerFails, CP!Crash,
         CPP!Crash, CP!HandlerStep, CPP!HandlerStep, CP!Request, CPP!Request,
         CP!ContentNext, CPP!ContentNext, CP!Next, CPP!Next,
         CP!VALID_TRANSITIONS, CPP!VALID_TRANSITIONS, CP!ValidTransition,
         CPP!ValidTransition, CP!EDITABLE_STATUSES, CPP!EDITABLE_STATUSES,
         CP!IsEditable, CPP!IsEditable, CP!ResolveSubmissionTarget,
         CPP!ResolveSubmissionTarget, CP!Max, CPP!Max
<1>3. CP!vars = CPP!vars
  BY DEF CP!vars, CPP!vars
<1> QED
  BY <1>1, <1>2, <1>3

LEMMA SamePublications ==
  /\ PB!Init <=> PBP!Init
  /\ PB!Next <=> PBP!Next
  /\ PB!vars = PBP!vars
<1>1. PB!Init <=> PBP!Init
  BY DEF PB!Init, PBP!Init, PB!IdleCall, PBP!IdleCall, PB!IdleWorker,
         PBP!IdleWorker, PB!JobId, PBP!JobId, PB!Attempt, PBP!Attempt
<1>2. PB!Next <=> PBP!Next
  BY DEF PB!vars, PBP!vars, PB!rowVars, PBP!rowVars, PB!postVars, PBP!postVars,
         PB!everVars, PBP!everVars, PB!Attempt, PBP!Attempt, PB!JobId, PBP!JobId,
         PB!BuildJobId, PBP!BuildJobId, PB!IdleCall, PBP!IdleCall, PB!IdleWorker,
         PBP!IdleWorker, PB!PieceWrite, PBP!PieceWrite, PB!AccountWrite,
         PBP!AccountWrite, PB!At, PBP!At, PB!Goto, PBP!Goto, PB!Reply, PBP!Reply,
         PB!Begin, PBP!Begin, PB!Schedulable, PBP!Schedulable, PB!Fresh,
         PBP!Fresh, PB!ScheduleRead, PBP!ScheduleRead, PB!ScheduleMark,
         PBP!ScheduleMark, PB!ScheduleAccount, PBP!ScheduleAccount,
         PB!ScheduleCreate, PBP!ScheduleCreate, PB!Enqueue, PBP!Enqueue,
         PB!CancelRead, PBP!CancelRead, PB!RescheduleRead, PBP!RescheduleRead,
         PB!RemovePendingJob, PBP!RemovePendingJob, PB!CancelWrite,
         PBP!CancelWrite, PB!RescheduleWrite, PBP!RescheduleWrite, PB!WorkerAt,
         PBP!WorkerAt, PB!WorkerGoto, PBP!WorkerGoto, PB!TakeJob, PBP!TakeJob,
         PB!Verdict, PBP!Verdict, PB!WorkerRead, PBP!WorkerRead,
         PB!PublishAccepted, PBP!PublishAccepted, PB!PublishRejected,
         PBP!PublishRejected, PB!WritePublished, PBP!WritePublished, PB!Siblings,
         PBP!Siblings, PB!AllPublished, PBP!AllPublished, PB!ReadSiblings,
         PBP!ReadSiblings, PB!MarkPiecePublished, PBP!MarkPiecePublished,
         PB!NextAttempt, PBP!NextAttempt, PB!AddRetry, PBP!AddRetry, PB!GiveUp,
         PBP!GiveUp, PB!MarkFailed, PBP!MarkFailed, PB!FinishJob, PBP!FinishJob,
         PB!Fault, PBP!Fault, PB!CallFails, PBP!CallFails, PB!PublishReplyLost,
         PBP!PublishReplyLost, PB!UpdateFails, PBP!UpdateFails, PB!FailsLate,
         PBP!FailsLate, PB!TryFails, PBP!TryFails, PB!MarkReplyLost,
         PBP!MarkReplyLost, PB!ProcessThrows,
         PBP!ProcessThrows, PB!Crash, PBP!Crash, PB!StalledCheck,
         PBP!StalledCheck, PB!CallStep, PBP!CallStep, PB!WorkerStep,
         PBP!WorkerStep, PB!FaultStep, PBP!FaultStep, PB!PublicationsNext,
         PBP!PublicationsNext, PB!Next, PBP!Next, PB!VALID_TRANSITIONS,
         PBP!VALID_TRANSITIONS, PB!ValidTransition, PBP!ValidTransition,
         PB!EDITABLE_STATUSES, PBP!EDITABLE_STATUSES, PB!IsEditable,
         PBP!IsEditable, PB!ResolveSubmissionTarget, PBP!ResolveSubmissionTarget,
         PB!QueueAdd, PBP!QueueAdd, PB!QueueRemove, PBP!QueueRemove,
         PB!QueueTake, PBP!QueueTake, PB!QueueFinish, PBP!QueueFinish,
         PB!QueueOrphan, PBP!QueueOrphan, PB!QueueStalledCheck,
         PBP!QueueStalledCheck
<1>3. PB!vars = PBP!vars
  BY DEF PB!vars, PBP!vars
<1> QED
  BY <1>1, <1>2, <1>3

-----------------------------------------------------------------------------
(* The invariants of the two, together: each is kept because the steps of  *)
(* the other are among those its own specification allows.                 *)
BothInv == CPP!Sound /\ PBP!IInv

(* A content handler writes a status that Publications knows of; what else *)
(* it does Publications cannot see.                                        *)
LEMMA ContentStepMaps ==
  ASSUME BothInv, ContentStep(CP!ContentNext \/ GeneratedImage \/ TemplateEdit)
  PROVE  [CP!Next]_CP!vars /\ [PB!Next]_PB!vars
<1>1. UNCHANGED <<publicationOnly, workflow>>
  BY DEF ContentStep
<1>2. CP!Next
  BY DEF ContentStep, GeneratedImage, TemplateEdit, CP!Next
<1>3. CASE UNCHANGED <<pieceStatus, everApproved>>
  <2>1. UNCHANGED PB!vars
    BY <1>1, <1>3 DEF publicationOnly, PB!vars
  <2> QED
    BY <1>2, <2>1
<1>4. ASSUME NEW h \in Handler, CP!StatusWrite(h)
      PROVE  PB!Next
  <2>1. CPP!Carries(h)
    BY DEF BothInv, CPP!Sound
  <2>2. /\ handlers[h].piece \in Piece
        /\ handlers[h].to \in {"pending_approval", "approved", "rejected"}
    BY <1>4, <2>1 DEF CP!StatusWrite, CPP!Carries
  <2>3. PB!PieceWrite(handlers[h].piece, handlers[h].to)
    BY <1>1, <1>4 DEF CP!StatusWrite, PB!PieceWrite, publicationOnly, PB!postVars
  <2> QED
    BY <2>2, <2>3 DEF PB!Next
<1>5. \/ \E h \in Handler : CP!StatusWrite(h)
      \/ UNCHANGED <<pieceStatus, everApproved>>
  BY DEF ContentStep, GeneratedImage, TemplateEdit, CP!ContentNext, CP!HandlerStep,
         CP!Request, CP!GeneratedImageWrite, CP!UpdateTemplate, CP!HandlerFails,
         CP!Audit, CP!Notify, CP!WriteReason, CP!TemplateFind, CP!AddSlides, CP!TemplateWrite, CP!EditWrite, CP!RenderWrite,
         CP!SubmitRead, CP!DecideRead, CP!TemplateRead, CP!EditRead, CP!RenderRead,
         CP!Begin, CP!rowVars, CP!layoutVars, CP!approvals
<1> QED
  BY <1>2, <1>3, <1>4, <1>5

(* schedule and the worker write only to pieces that were approved; what   *)
(* else they do ContentPieces cannot see.                                  *)
LEMMA PublicationStepMaps ==
  ASSUME BothInv, PublicationStep(PB!PublicationsNext \/ SomeCallFails \/ Reconnect)
  PROVE  [CP!Next]_CP!vars /\ [PB!Next]_PB!vars
<1>1. UNCHANGED <<contentOnly, workflow>>
  BY DEF PublicationStep
<1>2. PB!Next
  BY DEF PublicationStep, SomeCallFails, Reconnect, PB!Next, PB!FaultStep
<1>3. CASE UNCHANGED <<pieceStatus, everApproved>>
  <2>1. UNCHANGED CP!vars
    BY <1>1, <1>3 DEF contentOnly, CP!vars
  <2> QED
    BY <1>2, <2>1
<1>4. ASSUME NEW c \in Call, PB!ScheduleMark(c)
      PROVE  CP!Next
  <2> DEFINE k == PieceOf[calls[c].pub]
  <2>1. k \in everApproved /\ k \in Piece
    BY <1>4 DEF BothInv, PBP!IInv, PBP!CallInv, PBP!TypeOK, PB!ScheduleMark, PB!At
  <2>2. CP!PublicationWrite(k, "scheduled")
    BY <1>1, <1>4, <2>1 DEF PB!ScheduleMark, CP!PublicationWrite, contentOnly,
       CP!layoutVars, CP!approvals, PB!everVars
  <2> QED
    BY <2>1, <2>2 DEF CP!Next
<1>5. ASSUME PB!MarkPiecePublished \/ PB!MarkReplyLost
      PROVE  CP!Next
  <2> DEFINE k == PieceOf[worker.pub]
  <2>1. worker.pc = "piece" /\ worker.pub \in Publication
    BY <1>5 DEF BothInv, PBP!IInv, PBP!WorkerInv, PBP!TypeOK, PBP!WorkerState,
       PB!MarkPiecePublished, PB!MarkReplyLost, PB!WorkerAt
  <2>2. k \in everApproved /\ k \in Piece
    BY <2>1 DEF BothInv, PBP!IInv, PBP!WorkerInv, PBP!RowInv, PBP!TypeOK
  <2>3. CP!PublicationWrite(k, "published")
    BY <1>1, <1>5, <2>2 DEF PB!MarkPiecePublished, PB!MarkReplyLost, PB!FailsLate,
       CP!PublicationWrite, contentOnly, CP!layoutVars, CP!approvals
  <2> QED
    BY <2>2, <2>3 DEF CP!Next
<1>6. \/ \E c \in Call : PB!ScheduleMark(c)
      \/ PB!MarkPiecePublished \/ PB!MarkReplyLost
      \/ UNCHANGED <<pieceStatus, everApproved>>
  BY DEF PublicationStep, SomeCallFails, Reconnect, PB!PublicationsNext, PB!CallStep,
         PB!WorkerStep, PB!ScheduleRead, PB!ScheduleAccount, PB!ScheduleCreate, PB!Enqueue,
         PB!CancelRead, PB!RescheduleRead, PB!RemovePendingJob, PB!CancelWrite,
         PB!RescheduleWrite, PB!TakeJob, PB!WorkerRead, PB!PublishAccepted,
         PB!PublishRejected, PB!WritePublished, PB!ReadSiblings, PB!AddRetry, PB!GiveUp,
         PB!MarkFailed, PB!FinishJob, PB!StalledCheck, PB!CallFails, PB!PublishReplyLost,
         PB!UpdateFails, PB!FailsLate, PB!TryFails, PB!ProcessThrows, PB!AccountWrite, PB!rowVars, PB!everVars
<1> QED
  BY <1>2, <1>3, <1>4, <1>5, <1>6

(* The workflow only asks; a crash is one of both.                         *)
LEMMA StepMaps ==
  ASSUME BothInv, [Next]_vars
  PROVE  [CP!Next]_CP!vars /\ [PB!Next]_PB!vars
<1>1. ASSUME NEW k \in Piece, WorkflowSchedules(k)
      PROVE  [CP!Next]_CP!vars /\ [PB!Next]_PB!vars
  <2>1. UNCHANGED contentOnly
    BY <1>1 DEF WorkflowSchedules
  <2>2. CASE UNCHANGED <<sharedVars, publicationOnly>>
    BY <2>1, <2>2 DEF sharedVars, publicationOnly, contentOnly, CP!vars, PB!vars
  <2>3. ASSUME NEW c \in Call, NEW p \in Publication, PB!ScheduleRead(c, p)
        PROVE  [CP!Next]_CP!vars /\ [PB!Next]_PB!vars
    <3>1. UNCHANGED CP!vars
      BY <2>1, <2>3 DEF PB!ScheduleRead, PB!rowVars, PB!everVars, contentOnly, CP!vars
    <3>2. PB!Next
      BY <2>3 DEF PB!Next, PB!PublicationsNext
    <3> QED
      BY <3>1, <3>2
  <2> QED
    BY <1>1, <2>2, <2>3 DEF WorkflowSchedules
<1>2. ASSUME NEW k \in Piece, WorkflowFails(k)
      PROVE  [CP!Next]_CP!vars /\ [PB!Next]_PB!vars
  BY <1>2 DEF WorkflowFails, sharedVars, publicationOnly, contentOnly, CP!vars, PB!vars
<1>3. CASE Crash
  BY <1>3 DEF Crash, CP!Next, PB!Next, PB!FaultStep
<1>4. CASE UNCHANGED vars
  BY <1>4 DEF vars, sharedVars, publicationOnly, contentOnly, CP!vars, PB!vars
<1> QED
  BY <1>1, <1>2, <1>3, <1>4, ContentStepMaps, PublicationStepMaps DEF Next

LEMMA Inductive == Spec => []BothInv
<1>1. Init => BothInv
  <2>1. Init => CPP!Init /\ PBP!Init
    BY SameContent, SamePublications DEF Init
  <2>2. CPP!Init => CPP!Sound
    BY ContentAssumed, CPP!InitIsSound
  <2>3. PBP!Init => PBP!IInv
    BY PublicationsAssumed, PBP!InitIInv
  <2> QED
    BY <2>1, <2>2, <2>3 DEF BothInv
<1>2. BothInv /\ [Next]_vars => BothInv'
  <2> SUFFICES ASSUME BothInv, [Next]_vars PROVE BothInv'
    OBVIOUS
  <2>1. [CPP!Next]_CPP!vars /\ [PBP!Next]_PBP!vars
    <3>1. CP!Next => CPP!Next
      BY SameContent
    <3>2. PB!Next => PBP!Next
      BY SamePublications
    <3>3. UNCHANGED CP!vars => UNCHANGED CPP!vars
      BY DEF CP!vars, CPP!vars
    <3>4. UNCHANGED PB!vars => UNCHANGED PBP!vars
      BY DEF PB!vars, PBP!vars
    <3> QED
      BY <3>1, <3>2, <3>3, <3>4, StepMaps
  <2>2. CPP!Sound'
    BY <2>1, ContentAssumed, CPP!StepIsSound DEF BothInv
  <2>3. PBP!IInv'
    BY <2>1, PublicationsAssumed, PBP!StepKeepsIInv DEF BothInv
  <2> QED
    BY <2>2, <2>3 DEF BothInv
<1> QED
  BY <1>1, <1>2, PTL DEF Spec

-----------------------------------------------------------------------------
(* ContentPiecesKept in every behaviour: whatever schedule and the worker  *)
(* do to a piece, ContentPieces allowed for it.                            *)
THEOREM ContentPiecesRefined == Spec => ContentPiecesKept
<1>1. Init => CP!Init
  BY DEF Init
<1>2. BothInv /\ [Next]_vars => [CP!Next]_CP!vars
  BY StepMaps
<1> QED
  BY <1>1, <1>2, Inductive, PTL DEF Spec, ContentPiecesKept, CP!Spec

(* PublicationsKept in every behaviour: whatever the content handlers      *)
(* write over a status, Publications allowed for it.                       *)
THEOREM PublicationsRefined == Spec => PublicationsKept
<1>1. Init => PB!Init
  BY DEF Init
<1>2. BothInv /\ [Next]_vars => [PB!Next]_PB!vars
  BY StepMaps
<1> QED
  BY <1>1, <1>2, Inductive, PTL DEF Spec, PublicationsKept, PB!Spec

-----------------------------------------------------------------------------
(* A behaviour of both is one of each.                                     *)
LEMMA ComponentsRun == Spec => CPP!Spec /\ PBP!Spec
<1>1. /\ CP!Init => CPP!Init
      /\ PB!Init => PBP!Init
  BY SameContent, SamePublications
<1>2. [CP!Next]_CP!vars => [CPP!Next]_CPP!vars
  <2>1. UNCHANGED CP!vars => UNCHANGED CPP!vars
    BY DEF CP!vars, CPP!vars
  <2> QED
    BY <2>1, SameContent
<1>3. [PB!Next]_PB!vars => [PBP!Next]_PBP!vars
  <2>1. UNCHANGED PB!vars => UNCHANGED PBP!vars
    BY DEF PB!vars, PBP!vars
  <2> QED
    BY <2>1, SamePublications
<1>4. Spec => CP!Init /\ [][CP!Next]_CP!vars
  BY ContentPiecesRefined, PTL DEF ContentPiecesKept, CP!Spec
<1>5. Spec => PB!Init /\ [][PB!Next]_PB!vars
  BY PublicationsRefined, PTL DEF PublicationsKept, PB!Spec
<1> QED
  BY <1>1, <1>2, <1>3, <1>4, <1>5, PTL DEF CPP!Spec, PBP!Spec

(* What ContentPieces promises of every piece holds while publications     *)
(* write to its status: slides, announcements, and for a piece no two      *)
(* requests worked on at once the table, the freeze and the human.         *)
THEOREM PromisesOfContentPieces ==
  Spec => /\ []CPP!SlidesCoverTemplate
          /\ []CPP!ApprovedIsAnnounced
          /\ []CPP!AloneAiNeedsHuman
          /\ CPP!AloneMovesAlongTable
          /\ CPP!AloneFrozenOnceSubmitted
<1>1. CPP!Spec => []CPP!SlidesCoverTemplate
  BY ContentAssumed, CPP!EveryZoneHasASlide
<1>2. CPP!Spec => []CPP!ApprovedIsAnnounced
  BY ContentAssumed, CPP!NoApprovalUnannounced
<1>3. CPP!Spec => []CPP!AloneAiNeedsHuman
  BY ContentAssumed, CPP!AiSlideNeedsHuman
<1>4. CPP!Spec => CPP!AloneMovesAlongTable
  BY ContentAssumed, CPP!StatusMovesAlongTable
<1>5. CPP!Spec => CPP!AloneFrozenOnceSubmitted
  BY ContentAssumed, CPP!FrozenOnceSubmitted
<1> QED
  BY <1>1, <1>2, <1>3, <1>4, <1>5, ComponentsRun, PTL

(* What Publications promises of every row holds while content handlers    *)
(* write to the status of its piece.                                       *)
THEOREM PromisesOfPublications ==
  Spec => /\ []PBP!PostedWasApproved
          /\ []PBP!NoDoublePost
          /\ []PBP!SettledTruthfully
          /\ []PBP!LastPublicationMarks
          /\ []PBP!ScheduledIsDriven
          /\ PBP!SettledForGood
          /\ PBP!MarkedWithoutFailure
<1>1. PBP!Spec => []PBP!PostedWasApproved
  BY PublicationsAssumed, PBP!OnlyApprovedIsPosted
<1>2. PBP!Spec => []PBP!NoDoublePost
  BY PublicationsAssumed, PBP!PostedAtMostOnce
<1>3. PBP!Spec => []PBP!SettledTruthfully
  BY PublicationsAssumed, PBP!RowsTellTheTruth
<1>4. PBP!Spec => []PBP!LastPublicationMarks
  BY PublicationsAssumed, PBP!NoPieceForgotten
<1>5. PBP!Spec => []PBP!ScheduledIsDriven
  BY PublicationsAssumed, PBP!NoScheduledIsStranded
<1>6. PBP!Spec => PBP!SettledForGood
  BY PublicationsAssumed, PBP!SettledStaysSettled
<1>7. PBP!Spec => PBP!MarkedWithoutFailure
  BY PublicationsAssumed, PBP!PieceMarkedWithoutFailure
<1> QED
  BY <1>1, <1>2, <1>3, <1>4, <1>5, <1>6, <1>7, ComponentsRun, PTL

(* PostedIsPastApproval in every behaviour.  Publications says that what   *)
(* was posted had been approved, ContentPieces that an approved piece no   *)
(* two requests worked on at once does not go back.                        *)
THEOREM PostedStaysPastApproval == Spec => []PostedIsPastApproval
<1>1. Spec => []CPP!Alone
  <2>1. CPP!Spec => []CPP!Alone
    BY ContentAssumed, CPP!AloneIsKept
  <2> QED
    BY <2>1, ComponentsRun, PTL
<1>2. Spec => []PBP!PostedWasApproved
  BY PromisesOfPublications, PTL
<1>3. CPP!Alone /\ PBP!PostedWasApproved => PostedIsPastApproval
  <2> SUFFICES ASSUME CPP!Alone, PBP!PostedWasApproved, NEW p \in Publication,
                      posts[p] > 0, PieceOf[p] \notin overlapped
               PROVE  pieceStatus[PieceOf[p]] \in {"approved", "scheduled", "published"}
    BY DEF PostedIsPastApproval
  <2>1. PieceOf[p] \in Piece /\ PieceOf[p] \in everApproved
    BY PublicationsAssumed DEF PBP!PublicationsAssumption, PBP!PostedWasApproved
  <2> QED
    BY <2>1 DEF CPP!Alone, CPP!AloneAt, CPP!PastApproval
<1> QED
  BY <1>1, <1>2, <1>3, PTL

=============================================================================
