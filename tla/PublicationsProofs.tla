------------------------- MODULE PublicationsProofs -------------------------
(***************************************************************************)
(* Theorems about Publications, for every number of pieces, publications,  *)
(* requests, retries and faults.  The inductive invariant says what a      *)
(* request or the worker still knows about the row it read, at each place  *)
(* where it may be waiting.                                                *)
(***************************************************************************)
EXTENDS Publications, TLAPS

USE PublicationsAssumption DEF PublicationsAssumption

(* A schedule request that has not created its row yet owns the row's id.  *)
PreCreate(c) == calls[c].pc \in {"mark", "account", "create"}

CallInv ==
  \A c \in Call :
    /\ calls[c].pc = "idle" <=> calls[c].pub = None
    /\ calls[c].op = "cancel" => calls[c].pc \in {"remove", "write"}
    /\ calls[c].pc # "idle" =>
         /\ PieceOf[calls[c].pub] \in everApproved
         /\ pubStatus[calls[c].pub] = "absent" <=> PreCreate(c)
    /\ PreCreate(c) => \A d \in Call : calls[d].pub = calls[c].pub => d = c

(* Pieces, rows and jobs exist in the order the code creates them.         *)
RowInv ==
  /\ \A k \in Piece : pieceStatus[k] \in {"approved", "scheduled", "published"}
                        => k \in everApproved
  /\ \A p \in Publication :
       /\ pubStatus[p] # "absent" => PieceOf[p] \in everApproved
       /\ pubStatus[p] = "absent" =>
            posts[p] = 0 /\ \A n \in Attempt : jobs[BuildJobId(p, n)] = "none"

(* What the worker may rely on at each of its awaits.                      *)
Owing == {"caught", "fail"}
WorkerInv ==
  /\ worker.pc = "idle" <=> worker.pub = None
  /\ worker.pc # "idle" => pubStatus[worker.pub] # "absent"
  /\ worker.pc = "publish" => posts[worker.pub] = lost[worker.pub]
  /\ worker.pc \in Owing
       => \/ posts[worker.pub] = lost[worker.pub]
          \/ worker.pub \in late /\ pubStatus[worker.pub] \in {"published", "cancelled"}
  /\ worker.pc \in {"write", "siblings", "piece"}
       => posts[worker.pub] = lost[worker.pub] + 1
  /\ worker.pc \in {"publish", "write"}
       => pubStatus[worker.pub] \in {"scheduled", "cancelled"}
  /\ worker.pc \in {"siblings", "piece"}
       => pubStatus[worker.pub] \in {"published", "cancelled"}

(* An open row holds only lost posts, unless the worker is about to write  *)
(* that it was published.                                                  *)
PostInv ==
  \A p \in Publication :
    /\ pubStatus[p] \in {"absent", "scheduled"} /\ ~(worker.pub = p /\ worker.pc = "write")
         => posts[p] = lost[p]

IInv ==
  TypeOK /\ CallInv /\ RowInv /\ WorkerInv /\ PostInv
    /\ NoDoublePost /\ SettledTruthfully

-----------------------------------------------------------------------------
LEMMA InitIInv == Init => IInv
BY DEF Init, IInv, TypeOK, CallInv, RowInv, WorkerInv, PostInv, NoDoublePost,
  SettledTruthfully, IdleCall, IdleWorker, CallState, WorkerState, JobId, Attempt,
  BuildJobId, PreCreate, Owing, PublicationStatus, ContentPieceStatus, JobState

LEMMA StepKeepsIInv == IInv /\ [Next]_vars => IInv'
<1> SUFFICES ASSUME IInv, [Next]_vars PROVE IInv'
  OBVIOUS
<1> USE DEF IInv, CallInv, RowInv, WorkerInv, PostInv, NoDoublePost, SettledTruthfully,
      TypeOK, CallState, WorkerState, JobId, Attempt, BuildJobId, JobState,
      PublicationStatus, ContentPieceStatus, PreCreate, Owing, WorkerAt, WorkerGoto,
      rowVars, postVars, everVars
<1>1. ASSUME NEW k \in Piece, NEW s \in {"pending_approval", "approved", "rejected"}, PieceWrite(k, s)
      PROVE  IInv'
  BY <1>1 DEF PieceWrite
<1>2. ASSUME NEW a \in Account, NEW s \in {"connected", "disconnected"}, AccountWrite(a, s)
      PROVE  IInv'
  BY <1>2 DEF AccountWrite
<1>3. ASSUME NEW c \in Call, NEW p \in Publication, ScheduleRead(c, p)
      PROVE  IInv'
  BY <1>3 DEF ScheduleRead, Fresh, Schedulable, ValidTransition, VALID_TRANSITIONS, Begin
<1>4. ASSUME NEW c \in Call, ScheduleMark(c)
      PROVE  IInv'
  BY <1>4 DEF ScheduleMark, At, Goto
<1>5. ASSUME NEW c \in Call, ScheduleAccount(c)
      PROVE  IInv'
  <2> USE <1>5 DEF ScheduleAccount, At, Goto, Reply, IdleCall
  <2>1. CASE calls' = [calls EXCEPT ![c].pc = "create"]
    BY <2>1
  <2>2. CASE calls' = [calls EXCEPT ![c] = IdleCall]
    BY <2>2
  <2> QED BY <2>1, <2>2
<1>6. ASSUME NEW c \in Call, ScheduleCreate(c)
      PROVE  IInv'
  BY <1>6 DEF ScheduleCreate, At, Goto
<1>7. ASSUME NEW c \in Call, Enqueue(c)
      PROVE  IInv'
  BY <1>7 DEF Enqueue, QueueAdd, Reply, IdleCall
<1>8. ASSUME NEW c \in Call, NEW p \in Publication, CancelRead(c, p)
      PROVE  IInv'
  BY <1>8 DEF CancelRead, Begin
<1>9. ASSUME NEW c \in Call, NEW p \in Publication, RescheduleRead(c, p)
      PROVE  IInv'
  BY <1>9 DEF RescheduleRead, Begin
<1>10. ASSUME NEW c \in Call, RemovePendingJob(c)
      PROVE  IInv'
  <2> USE <1>10 DEF RemovePendingJob, QueueRemove, Goto
  <2>1. CASE calls[c].i \in Attempt
    <3>1. jobs' \in [JobId -> JobState]
      BY <2>1
    <3>2. calls' \in [Call -> CallState]
      BY <2>1
    <3>3. TypeOK'
      BY <3>1, <3>2
    <3>4. CallInv'
      BY <2>1
    <3>5. RowInv'
      BY <2>1
    <3>6. WorkerInv' /\ PostInv' /\ NoDoublePost' /\ SettledTruthfully'
      OBVIOUS
    <3> QED BY <3>3, <3>4, <3>5, <3>6
  <2>2. CASE calls[c].i \notin Attempt
    <3>1. calls' = [calls EXCEPT ![c].pc = "write"] /\ jobs' = jobs
      BY <2>2
    <3>2. TypeOK'
      <4>1. [calls[c] EXCEPT !.pc = "write"] \in CallState
        <5> HIDE DEF CallInv, RowInv, WorkerInv, PostInv, NoDoublePost, SettledTruthfully
        <5> QED OBVIOUS
      <4>2. calls' \in [Call -> CallState]
        BY <3>1, <4>1
      <4> QED BY <3>1, <4>2
    <3>4. CallInv'
      BY <3>1
    <3>3. RowInv' /\ WorkerInv' /\ PostInv' /\ NoDoublePost' /\ SettledTruthfully'
      BY <3>1
    <3> QED BY <3>2, <3>3, <3>4
  <2> QED BY <2>1, <2>2
<1>11. ASSUME NEW c \in Call, CancelWrite(c)
      PROVE  IInv'
  BY <1>11 DEF CancelWrite, At, Reply, IdleCall
<1>12. ASSUME NEW c \in Call, RescheduleWrite(c)
      PROVE  IInv'
  <2>1. TypeOK'
    BY <1>12 DEF RescheduleWrite, At, Goto
  <2>2. CallInv'
    BY <1>12 DEF RescheduleWrite, At, Goto
  <2>3. RowInv'
    BY <1>12 DEF RescheduleWrite, At, Goto
  <2>4. WorkerInv'
    BY <1>12 DEF RescheduleWrite, At, Goto
  <2>5. PostInv'
    BY <1>12 DEF RescheduleWrite, At, Goto
  <2>6. NoDoublePost'
    BY <1>12 DEF RescheduleWrite, At, Goto
  <2>7. SettledTruthfully'
    BY <1>12 DEF RescheduleWrite, At, Goto
  <2> QED BY <2>1, <2>2, <2>3, <2>4, <2>5, <2>6, <2>7
<1>13. ASSUME NEW p \in Publication, NEW n \in Attempt, TakeJob(p, n)
      PROVE  IInv'
  BY <1>13 DEF TakeJob, QueueTake
<1>14. CASE WorkerRead
  BY <1>14 DEF WorkerRead, Verdict
<1>15. CASE PublishAccepted
  <2>1. TypeOK'
    <3>1. worker.pub \in Publication
      BY <1>15 DEF PublishAccepted
    <3>2. posts' \in [Publication -> Nat]
      BY <1>15, <3>1 DEF PublishAccepted
    <3>3. worker' \in WorkerState
      BY <1>15, <3>1 DEF PublishAccepted
    <3> QED BY <1>15, <3>2, <3>3 DEF PublishAccepted
  <2>2. CallInv' /\ RowInv'
    BY <1>15 DEF PublishAccepted
  <2>3. WorkerInv' /\ PostInv'
    BY <1>15 DEF PublishAccepted
  <2>4. NoDoublePost' /\ SettledTruthfully'
    BY <1>15 DEF PublishAccepted
  <2> QED BY <2>1, <2>2, <2>3, <2>4
<1>16. CASE PublishRejected
  BY <1>16 DEF PublishRejected
<1>17. CASE WritePublished
  <2>1. TypeOK'
    BY <1>17 DEF WritePublished
  <2>2. CallInv'
    BY <1>17 DEF WritePublished
  <2>3. RowInv'
    BY <1>17 DEF WritePublished
  <2>4. WorkerInv'
    BY <1>17 DEF WritePublished
  <2>5. PostInv'
    BY <1>17 DEF WritePublished
  <2>6. NoDoublePost'
    BY <1>17 DEF WritePublished
  <2>7. SettledTruthfully'
    BY <1>17 DEF WritePublished
  <2> QED BY <2>1, <2>2, <2>3, <2>4, <2>5, <2>6, <2>7
<1>18. CASE ReadSiblings
  <2>1. TypeOK'
    BY <1>18 DEF ReadSiblings
  <2>2. CallInv'
    BY <1>18 DEF ReadSiblings
  <2>3. RowInv'
    BY <1>18 DEF ReadSiblings
  <2>4. WorkerInv'
    BY <1>18 DEF ReadSiblings
  <2>5. PostInv'
    BY <1>18 DEF ReadSiblings
  <2>6. NoDoublePost'
    BY <1>18 DEF ReadSiblings
  <2>7. SettledTruthfully'
    BY <1>18 DEF ReadSiblings
  <2> QED BY <2>1, <2>2, <2>3, <2>4, <2>5, <2>6, <2>7
<1>19. CASE MarkPiecePublished
  <2>1. worker.pub \in Publication
    BY <1>19 DEF MarkPiecePublished
  <2>2. TypeOK'
    <3>1. pieceStatus' \in [Piece -> ContentPieceStatus]
      BY <1>19, <2>1 DEF MarkPiecePublished
    <3>2. everPublished' \subseteq Piece
      BY <1>19, <2>1 DEF MarkPiecePublished
    <3>3. worker' \in WorkerState
      BY <1>19, <2>1 DEF MarkPiecePublished
    <3> QED BY <1>19, <3>1, <3>2, <3>3 DEF MarkPiecePublished
  <2>3. CallInv' /\ RowInv'
    BY <1>19, <2>1 DEF MarkPiecePublished
  <2>4. WorkerInv' /\ PostInv' /\ NoDoublePost' /\ SettledTruthfully'
    BY <1>19, <2>1 DEF MarkPiecePublished
  <2> QED BY <2>2, <2>3, <2>4
<1>20. CASE AddRetry
  BY <1>20 DEF AddRetry, QueueAdd, NextAttempt
<1>21. CASE GiveUp
  BY <1>21 DEF GiveUp
<1>22. CASE MarkFailed
  <2>1. worker.pub \in Publication
    BY <1>22 DEF MarkFailed
  <2>2. TypeOK'
    BY <1>22, <2>1 DEF MarkFailed
  <2>4. CallInv'
    BY <1>22, <2>1 DEF MarkFailed
  <2>5. RowInv'
    BY <1>22, <2>1 DEF MarkFailed
  <2>3. WorkerInv' /\ PostInv' /\ NoDoublePost' /\ SettledTruthfully'
    BY <1>22, <2>1 DEF MarkFailed
  <2> QED BY <2>2, <2>3, <2>4, <2>5
<1>23. CASE FinishJob
  <2>1. TypeOK'
    BY <1>23 DEF FinishJob, QueueFinish, IdleWorker
  <2>2. CallInv'
    BY <1>23 DEF FinishJob, QueueFinish, IdleWorker
  <2>3. RowInv'
    BY <1>23 DEF FinishJob, QueueFinish, IdleWorker
  <2>4. WorkerInv'
    BY <1>23 DEF FinishJob, QueueFinish, IdleWorker
  <2>5. PostInv'
    BY <1>23 DEF FinishJob, QueueFinish, IdleWorker
  <2>6. NoDoublePost'
    BY <1>23 DEF FinishJob, QueueFinish, IdleWorker
  <2>7. SettledTruthfully'
    BY <1>23 DEF FinishJob, QueueFinish, IdleWorker
  <2> QED BY <2>1, <2>2, <2>3, <2>4, <2>5, <2>6, <2>7
<1>24. ASSUME NEW c \in Call, CallFails(c)
      PROVE  IInv'
  BY <1>24 DEF CallFails, Fault, Reply, IdleCall
<1>25. CASE PublishReplyLost
  BY <1>25 DEF PublishReplyLost, Fault
<1>26. CASE TryFails
  BY <1>26 DEF TryFails, FailsLate, Fault
<1>31. CASE UpdateFails
  BY <1>31 DEF UpdateFails, Fault
<1>32. CASE MarkReplyLost
  <2>1. worker.pub \in Publication
    BY <1>32 DEF MarkReplyLost
  <2>2. TypeOK'
    <3>1. pieceStatus' \in [Piece -> ContentPieceStatus]
      BY <1>32, <2>1 DEF MarkReplyLost
    <3>2. everPublished' \subseteq Piece /\ late' \subseteq Publication
      BY <1>32, <2>1 DEF MarkReplyLost, FailsLate
    <3>3. worker' \in WorkerState
      BY <1>32, <2>1 DEF MarkReplyLost, FailsLate
    <3> QED BY <1>32, <3>1, <3>2, <3>3 DEF MarkReplyLost, FailsLate, Fault
  <2>3. CallInv' /\ RowInv'
    BY <1>32, <2>1 DEF MarkReplyLost, FailsLate
  <2>4. WorkerInv' /\ PostInv' /\ NoDoublePost' /\ SettledTruthfully'
    BY <1>32, <2>1 DEF MarkReplyLost, FailsLate
  <2> QED BY <2>2, <2>3, <2>4
<1>27. CASE ProcessThrows
  BY <1>27 DEF ProcessThrows, Fault
<1>28. CASE Crash
  BY <1>28 DEF Crash, Fault, QueueOrphan, IdleCall, IdleWorker
<1>29. ASSUME NEW id \in JobId, StalledCheck(id)
      PROVE  IInv'
  <2>1. TypeOK'
    BY <1>29 DEF StalledCheck, QueueStalledCheck
  <2>2. CallInv'
    BY <1>29 DEF StalledCheck, QueueStalledCheck
  <2>3. RowInv'
    <3>1. UNCHANGED <<pieceStatus, everApproved, pubStatus, posts>>
      BY <1>29 DEF StalledCheck
    <3>2. \A x \in JobId : jobs[x] = "none" => jobs'[x] = "none"
      BY <1>29 DEF StalledCheck, QueueStalledCheck
    <3> QED BY <3>1, <3>2
  <2>4. WorkerInv' /\ PostInv' /\ NoDoublePost' /\ SettledTruthfully'
    BY <1>29 DEF StalledCheck, QueueStalledCheck
  <2> QED BY <2>1, <2>2, <2>3, <2>4
<1>30. CASE UNCHANGED vars
  BY <1>30 DEF vars
<1> HIDE DEF IInv
<1> QED
  BY <1>1, <1>2, <1>3, <1>4, <1>5, <1>6, <1>7, <1>8, <1>9, <1>10, <1>11, <1>12, <1>13, <1>14, <1>15, <1>16, <1>17, <1>18, <1>19, <1>20, <1>21, <1>22, <1>23, <1>24, <1>25, <1>26, <1>27, <1>28, <1>29, <1>30, <1>31, <1>32
  DEF Next, PublicationsNext, CallStep, WorkerStep, FaultStep

LEMMA Inductive == Spec => []IInv
<1>1. Init => IInv
  BY InitIInv
<1>2. IInv /\ [Next]_vars => IInv'
  BY StepKeepsIInv
<1> QED BY <1>1, <1>2, PTL DEF Spec

(* Every variable keeps its type.                                          *)
THEOREM TypeCorrect == Spec => []TypeOK
<1>1. IInv => TypeOK
  BY DEF IInv
<1> QED BY <1>1, Inductive, PTL

(* PostedWasApproved in every behaviour: what the network got had been     *)
(* approved.                                                               *)
THEOREM OnlyApprovedIsPosted == Spec => []PostedWasApproved
<1>1. IInv => PostedWasApproved
  BY DEF IInv, RowInv, PostedWasApproved, TypeOK
<1> QED BY <1>1, Inductive, PTL

(* NoDoublePost in every behaviour: at most one post beyond the lost ones. *)
THEOREM PostedAtMostOnce == Spec => []NoDoublePost
<1>1. IInv => NoDoublePost
  BY DEF IInv
<1> QED BY <1>1, Inductive, PTL

(* SettledTruthfully in every behaviour: a settled row does not lie.       *)
THEOREM RowsTellTheTruth == Spec => []SettledTruthfully
<1>1. IInv => SettledTruthfully
  BY DEF IInv
<1> QED BY <1>1, Inductive, PTL

-----------------------------------------------------------------------------
(* SettledForGood of every step: a settled row that neither the worker nor *)
(* a cancel holds keeps its status and its posts, and is not picked up.    *)
THEOREM SettledStaysSettled == Spec => SettledForGood
<1> DEFINE Stays == \A p \in Publication :
      pubStatus[p] \in Settled /\ ~Held(p)
        => pubStatus'[p] = pubStatus[p] /\ ~WorkerHolds(p)' /\ posts'[p] = posts[p]
<1>1. IInv /\ [Next]_vars => [Stays]_vars
  <2> SUFFICES ASSUME IInv, [Next]_vars, NEW p \in Publication,
                      pubStatus[p] \in Settled, ~Held(p)
               PROVE  pubStatus'[p] = pubStatus[p] /\ ~WorkerHolds(p)'
                        /\ posts'[p] = posts[p]
    OBVIOUS
  <2> USE DEF Settled, Held, WorkerHolds, IInv, TypeOK, CallInv, WorkerInv, CallState,
        WorkerState, PreCreate, rowVars, postVars
  <2>1. ASSUME NEW c \in Call, CallStep(c) PROVE Stays
    BY <2>1 DEF CallStep, ScheduleMark, ScheduleAccount, ScheduleCreate, Enqueue,
      RemovePendingJob, CancelWrite, RescheduleWrite, At, CancelHolds
  <2>2. CASE WorkerStep
    BY <2>2 DEF WorkerStep, TakeJob, WorkerRead, Verdict, PublishAccepted,
      PublishRejected, WritePublished, ReadSiblings, MarkPiecePublished, AddRetry,
      GiveUp, MarkFailed, FinishJob, IdleWorker, WorkerAt, WorkerGoto
  <2>3. CASE FaultStep
    BY <2>3 DEF FaultStep, CallFails, PublishReplyLost, UpdateFails, TryFails, FailsLate,
      MarkReplyLost, ProcessThrows, Crash, IdleWorker, WorkerAt, WorkerGoto
  <2>4. CASE UNCHANGED <<pubStatus, worker, posts>>
    BY <2>4
  <2> QED
    BY <2>1, <2>2, <2>3, <2>4
    DEF Next, PublicationsNext, ScheduleRead, CancelRead, RescheduleRead,
      StalledCheck, PieceWrite, AccountWrite, vars
<1> QED BY <1>1, Inductive, PTL DEF Spec, SettledForGood

-----------------------------------------------------------------------------
(* ImplementsLedger: rows, posts and approvals only move as the ledger     *)
(* allows, whatever the requests, the jobs and the worker do.              *)
THEOREM LedgerImplemented == Spec => ImplementsLedger
<1>1. Init => Ledger!Init
  BY DEF Init, Ledger!Init
<1>2. IInv /\ [Next]_vars => [Ledger!Next]_(Ledger!vars)
  <2> SUFFICES ASSUME IInv, [Next]_vars
               PROVE  Ledger!Next \/ UNCHANGED Ledger!vars
    OBVIOUS
  <2> USE DEF IInv, TypeOK, WorkerState, Ledger!vars, rowVars, postVars, everVars,
        WorkerAt
  <2>1. ASSUME NEW c \in Call, ScheduleCreate(c) PROVE Ledger!Next
    <3>1. Ledger!Open(calls[c].pub) /\ calls[c].pub \in Publication
      BY <2>1 DEF ScheduleCreate, At, CallInv, CallState, PreCreate, Ledger!Open
    <3> QED BY <3>1 DEF Ledger!Next
  <2>2. ASSUME NEW c \in Call, CancelWrite(c) PROVE Ledger!Next
    <3>1. Ledger!Cancelled(calls[c].pub) /\ calls[c].pub \in Publication
      BY <2>2 DEF CancelWrite, At, CallInv, CallState, PreCreate, Ledger!Cancelled
    <3> QED BY <3>1 DEF Ledger!Next
  <2>3. worker.pc # "idle" => worker.pub \in Publication
    BY DEF WorkerInv
  <2>4. CASE PublishAccepted
    <3>1. Ledger!Send(worker.pub)
      BY <2>3, <2>4 DEF PublishAccepted, WorkerInv, Ledger!Send, Ledger!MaySend
    <3> QED BY <2>3, <2>4, <3>1 DEF PublishAccepted, Ledger!Next
  <2>5. CASE PublishReplyLost
    <3>1. Ledger!SendAndMislay(worker.pub)
      BY <2>3, <2>5
      DEF PublishReplyLost, WorkerInv, Ledger!SendAndMislay, Ledger!MaySend
    <3> QED BY <2>3, <2>5, <3>1 DEF PublishReplyLost, Ledger!Next
  <2>6. CASE WritePublished
    <3>1. Ledger!Published(worker.pub)
      BY <2>3, <2>6 DEF WritePublished, WorkerInv, Ledger!Published
    <3> QED BY <2>3, <2>6, <3>1 DEF WritePublished, Ledger!Next
  <2>7. CASE MarkFailed
    <3>1. Ledger!Failed(worker.pub)
      BY <2>3, <2>7 DEF MarkFailed, WorkerInv, Owing, Ledger!Failed
    <3> QED BY <2>3, <2>7, <3>1 DEF MarkFailed, Ledger!Next
  <2>8. CASE UpdateFails
    <3>1. Ledger!Mislay(worker.pub)
      BY <2>3, <2>8 DEF UpdateFails, WorkerInv, Ledger!Mislay
    <3> QED BY <2>3, <2>8, <3>1 DEF UpdateFails, Ledger!Next
  <2>12. CASE TryFails \/ MarkReplyLost
    <3>1. Ledger!Doubt(worker.pub)
      BY <2>3, <2>12 DEF TryFails, MarkReplyLost, FailsLate, WorkerInv, Ledger!Doubt
    <3> QED BY <2>3, <2>12, <3>1 DEF TryFails, MarkReplyLost, Ledger!Next
  <2>9. CASE Crash
    <3>1. CASE WorkerAt("write")
      <4>1. Ledger!Mislay(worker.pub)
        BY <2>3, <2>9, <3>1 DEF Crash, WorkerInv, Ledger!Mislay
      <4> QED BY <2>3, <3>1, <4>1 DEF Ledger!Next
    <3>2. CASE ~WorkerAt("write")
      BY <2>9, <3>2 DEF Crash
    <3> QED BY <3>1, <3>2
  <2>10. ASSUME NEW k \in Piece, NEW s \in {"pending_approval", "approved", "rejected"},
                PieceWrite(k, s)
         PROVE  Ledger!Next \/ UNCHANGED Ledger!vars
    BY <2>10 DEF PieceWrite, Ledger!Next, Ledger!Approve
  <2>11. CASE UNCHANGED <<everApproved, pubStatus, posts, lost, late>>
    BY <2>11
  <2> QED
    BY <2>1, <2>2, <2>4, <2>5, <2>6, <2>7, <2>8, <2>9, <2>10, <2>11, <2>12
    DEF Next, PublicationsNext, CallStep, WorkerStep, FaultStep, ScheduleRead,
      ScheduleMark, ScheduleAccount, Enqueue, CancelRead, RescheduleRead,
      RemovePendingJob, RescheduleWrite, TakeJob, WorkerRead, PublishRejected,
      ReadSiblings, MarkPiecePublished, AddRetry, GiveUp, FinishJob, CallFails,
      ProcessThrows, StalledCheck, AccountWrite, vars
<1> QED BY <1>1, <1>2, Inductive, PTL DEF Spec, ImplementsLedger, Ledger!Spec

-----------------------------------------------------------------------------
(* Between reading the siblings and marking the piece the worker fails no  *)
(* other publication, since there is one worker.                           *)
MarkInv ==
  worker.pc = "piece" =>
    \A p \in Siblings(PieceOf[worker.pub]) : pubStatus[p] # "failed"

LEMMA StepKeepsMarkInv == IInv /\ MarkInv /\ [Next]_vars => MarkInv'
<1> SUFFICES ASSUME IInv, MarkInv, [Next]_vars PROVE MarkInv'
  OBVIOUS
<1> USE DEF IInv, TypeOK, WorkerState, MarkInv, Siblings, WorkerAt, WorkerGoto,
      rowVars, postVars, everVars
<1>1. ASSUME NEW c \in Call, CallStep(c) PROVE MarkInv'
  BY <1>1 DEF CallStep, ScheduleMark, ScheduleAccount, ScheduleCreate, Enqueue,
    RemovePendingJob, CancelWrite, RescheduleWrite, At
<1>2. CASE WorkerStep
  <2>1. CASE ReadSiblings
    BY <2>1 DEF ReadSiblings, AllPublished
  <2>2. CASE \/ \E p \in Publication, n \in Attempt : TakeJob(p, n)
             \/ WorkerRead \/ PublishAccepted \/ PublishRejected \/ WritePublished
             \/ MarkPiecePublished \/ AddRetry \/ GiveUp \/ MarkFailed \/ FinishJob
    BY <2>2 DEF TakeJob, WorkerRead, Verdict, PublishAccepted, PublishRejected,
      WritePublished, MarkPiecePublished, AddRetry, GiveUp, MarkFailed, FinishJob,
      IdleWorker
  <2> QED BY <1>2, <2>1, <2>2 DEF WorkerStep
<1>3. CASE FaultStep
  BY <1>3 DEF FaultStep, CallFails, PublishReplyLost, UpdateFails, TryFails, FailsLate,
    MarkReplyLost, ProcessThrows, Crash, IdleWorker
<1>4. CASE UNCHANGED <<pubStatus, worker>>
  BY <1>4
<1> QED
  BY <1>1, <1>2, <1>3, <1>4
  DEF Next, PublicationsNext, ScheduleRead, CancelRead, RescheduleRead, StalledCheck,
    PieceWrite, AccountWrite, vars

(* MarkedWithoutFailure of every step: a piece is marked published on top  *)
(* of a post and over no failed publication.                               *)
THEOREM PieceMarkedWithoutFailure == Spec => MarkedWithoutFailure
<1> DEFINE Marks == \A k \in Piece :
      pieceStatus'[k] = "published" /\ pieceStatus[k] # "published"
        => /\ \E p \in Siblings(k) : posts[p] > 0
           /\ \A p \in Siblings(k) : pubStatus[p] # "failed"
<1>1. Init => MarkInv
  BY DEF Init, IdleWorker, MarkInv
<1>2. IInv /\ MarkInv /\ [Next]_vars => [Marks]_vars
  <2> SUFFICES ASSUME IInv, MarkInv, [Next]_vars, NEW k \in Piece,
                      pieceStatus'[k] = "published", pieceStatus[k] # "published"
               PROVE  /\ \E p \in Siblings(k) : posts[p] > 0
                      /\ \A p \in Siblings(k) : pubStatus[p] # "failed"
    OBVIOUS
  <2> USE DEF IInv, TypeOK, rowVars, WorkerAt
  <2>1. MarkPiecePublished \/ MarkReplyLost
    BY DEF Next, PublicationsNext, CallStep, WorkerStep, FaultStep, PieceWrite,
      AccountWrite, ScheduleRead, ScheduleMark, ScheduleAccount, ScheduleCreate,
      Enqueue, CancelRead, RescheduleRead, RemovePendingJob, CancelWrite,
      RescheduleWrite, TakeJob, WorkerRead, PublishAccepted, PublishRejected,
      WritePublished, ReadSiblings, AddRetry, GiveUp, MarkFailed, FinishJob,
      CallFails, PublishReplyLost, UpdateFails, TryFails, ProcessThrows, Crash,
      StalledCheck, vars
  <2>2. worker.pub \in Publication /\ PieceOf[worker.pub] = k
    BY <2>1 DEF MarkPiecePublished, MarkReplyLost, WorkerInv, WorkerState
  <2>3. worker.pub \in Siblings(k) /\ posts[worker.pub] > 0
    BY <2>1, <2>2 DEF MarkPiecePublished, MarkReplyLost, WorkerInv, Siblings
  <2> QED BY <2>1, <2>2, <2>3 DEF MarkPiecePublished, MarkReplyLost, MarkInv
<1> QED BY <1>1, <1>2, StepKeepsMarkInv, Inductive, PTL DEF Spec, MarkedWithoutFailure

(* LastPublicationMarks in every behaviour: no fault, no forgotten piece.  *)
THEOREM NoPieceForgotten == Spec => []LastPublicationMarks
<1>1. Init => LastPublicationMarks
  BY DEF Init, LastPublicationMarks, AllPublished, Siblings
<1>2. IInv /\ LastPublicationMarks /\ [Next]_vars => LastPublicationMarks'
  <2> SUFFICES ASSUME IInv, LastPublicationMarks, [Next]_vars,
                      NEW k \in Piece, faults' = 0, AllPublished(k)'
               PROVE  \/ k \in everPublished'
                      \/ worker'.pc \in {"siblings", "piece"} /\ PieceOf[worker'.pub] = k
    BY DEF LastPublicationMarks
  <2> USE DEF IInv, TypeOK, WorkerState, LastPublicationMarks, AllPublished, Siblings,
        WorkerAt, WorkerGoto, rowVars, postVars, everVars
  <2>1. ASSUME NEW c \in Call, CallStep(c)
        PROVE  \/ k \in everPublished'
               \/ worker'.pc \in {"siblings", "piece"} /\ PieceOf[worker'.pub] = k
    <3>1. CASE UNCHANGED <<pubStatus, worker, everPublished, faults>>
      BY <3>1
    <3>2. CASE ScheduleCreate(c)
      BY <3>2 DEF ScheduleCreate, At, CallInv, CallState, PreCreate
    <3>3. CASE CancelWrite(c)
      BY <3>3 DEF CancelWrite, At, CallInv, CallState, PreCreate
    <3> QED BY <2>1, <3>1, <3>2, <3>3
      DEF CallStep, ScheduleMark, ScheduleAccount, Enqueue, RemovePendingJob,
        RescheduleWrite
  <2>2. CASE WorkerStep
    BY <2>2 DEF WorkerStep, TakeJob, WorkerRead, Verdict, PublishAccepted,
      PublishRejected, WritePublished, ReadSiblings, MarkPiecePublished, AddRetry,
      GiveUp, MarkFailed, FinishJob, IdleWorker, WorkerInv
  <2>3. CASE FaultStep
    BY <2>3 DEF FaultStep, Fault, CallFails, PublishReplyLost, UpdateFails, TryFails,
      FailsLate, MarkReplyLost, ProcessThrows, Crash
  <2>4. CASE UNCHANGED <<pubStatus, worker, everPublished, faults>>
    BY <2>4
  <2> QED
    BY <2>1, <2>2, <2>3, <2>4
    DEF Next, PublicationsNext, ScheduleRead, CancelRead, RescheduleRead, StalledCheck,
      PieceWrite, AccountWrite, vars
<1> QED BY <1>1, <1>2, Inductive, PTL DEF Spec

-----------------------------------------------------------------------------
(* A fault or a reschedule stays counted.                                  *)
LEMMA DisturbedForGood ==
  ASSUME TypeOK, [Next]_vars, NEW p \in Publication, Undisturbed(p)'
  PROVE  Undisturbed(p)
<1>1. faults' = 0 => faults = 0
  <2>1. CASE FaultStep
    BY <2>1
    DEF FaultStep, Fault, CallFails, PublishReplyLost, UpdateFails, TryFails, FailsLate,
      MarkReplyLost, ProcessThrows, Crash, TypeOK
  <2>2. CASE UNCHANGED faults
    BY <2>2
  <2> QED
    BY <2>1, <2>2
    DEF Next, PublicationsNext, CallStep, WorkerStep, PieceWrite, AccountWrite,
      ScheduleRead, ScheduleMark, ScheduleAccount, ScheduleCreate, Enqueue, CancelRead,
      RescheduleRead, RemovePendingJob, CancelWrite, RescheduleWrite, TakeJob, WorkerRead,
      PublishAccepted, PublishRejected, WritePublished, ReadSiblings, MarkPiecePublished,
      AddRetry, GiveUp, MarkFailed, FinishJob, StalledCheck, vars
<1>2. reschedules'[p] = 0 => reschedules[p] = 0
  <2>1. CASE \E c \in Call, q \in Publication : RescheduleRead(c, q)
    BY <2>1 DEF RescheduleRead, TypeOK
  <2>2. CASE UNCHANGED reschedules
    BY <2>2
  <2> QED
    BY <2>1, <2>2
    DEF Next, PublicationsNext, CallStep, WorkerStep, FaultStep, PieceWrite, AccountWrite,
      ScheduleRead, ScheduleMark, ScheduleAccount, ScheduleCreate, Enqueue, CancelRead,
      RemovePendingJob, CancelWrite, RescheduleWrite, TakeJob, WorkerRead,
      PublishAccepted, PublishRejected, WritePublished, ReadSiblings, MarkPiecePublished,
      AddRetry, GiveUp, MarkFailed, FinishJob, CallFails, PublishReplyLost,
      UpdateFails, TryFails, FailsLate, MarkReplyLost, ProcessThrows, Crash,
      StalledCheck, vars
<1> QED BY <1>1, <1>2 DEF Undisturbed

(* The jobs of an undisturbed publication exist one at a time, in the      *)
(* order of the attempts, so that no add finds its id taken.               *)
JobAt(p, n) == jobs[BuildJobId(p, n)]

JobsAt(p) ==
  /\ \A n \in Attempt : JobAt(p, n) # "stalled"
  /\ \A n, m \in Attempt : JobAt(p, n) = "waiting" /\ JobAt(p, m) # "none" => m <= n
  /\ \A n \in Attempt : worker.pub = p /\ worker.n = n => JobAt(p, n) = "active"
  /\ WorkerOn(p) => \A m \in Attempt : JobAt(p, m) # "none"
       => m <= worker.n /\ JobAt(p, m) # "waiting"

CallsAt(p) ==
  /\ \A c \in Call : calls[c].pub = p => calls[c].op \in {"schedule", "cancel"}
  /\ \A c \in Call : calls[c].pub = p /\ calls[c].op = "schedule"
       => /\ \A n \in Attempt : JobAt(p, n) = "none"
          /\ worker.pub # p
          /\ \A d \in Call : calls[d].pub = p /\ calls[d].op = "schedule" => d = c

DrivenAt(p) ==
  /\ pubStatus[p] = "scheduled" => Driven(p)
  /\ JobsAt(p)
  /\ CallsAt(p)

DrivenInv == \A p \in Publication : Undisturbed(p) => DrivenAt(p)

(* What a step that touches no job of p and no worker has to show of its   *)
(* requests.                                                               *)
LEMMA DrivenFrame ==
  ASSUME NEW p \in Publication, DrivenAt(p), worker' = worker,
         \A n \in Attempt : JobAt(p, n)' = JobAt(p, n),
         \A d \in Call : calls[d].pub = p => calls'[d].pub = p,
         pubStatus'[p] = "scheduled" => pubStatus[p] = "scheduled" \/ CallOn(p)
  PROVE  JobsAt(p)' /\ (pubStatus'[p] = "scheduled" => Driven(p)')
<1>1. JobsAt(p)'
  BY DEF DrivenAt, JobsAt, WorkerOn
<1>2. ASSUME CallOn(p) PROVE Driven(p)'
  BY <1>2 DEF CallOn, Driven
<1>3. ASSUME LiveJob(p) PROVE Driven(p)'
  BY <1>3 DEF LiveJob, JobAt, Driven
<1>4. ASSUME WorkerOn(p) PROVE Driven(p)'
  BY <1>4 DEF WorkerOn, Driven
<1> QED BY <1>1, <1>2, <1>3, <1>4 DEF DrivenAt, Driven

LEMMA RequestKeepsDriven ==
  ASSUME IInv, NEW p \in Publication, DrivenAt(p), Undisturbed(p)', NEW c \in Call,
         CallStep(c) \/ \E q \in Publication :
           ScheduleRead(c, q) \/ CancelRead(c, q) \/ RescheduleRead(c, q)
  PROVE  DrivenAt(p)'
<1> USE DEF IInv, TypeOK, CallState, rowVars, At, Goto
<1>1. ASSUME NEW q \in Publication,
             ScheduleRead(c, q) \/ CancelRead(c, q) \/ RescheduleRead(c, q)
      PROVE  DrivenAt(p)'
  <2>1. \A d \in Call : calls[d].pub = p => calls'[d].pub = p
    BY <1>1 DEF ScheduleRead, CancelRead, RescheduleRead, Begin, CallInv
  <2>2. CallsAt(p)'
    <3>1. CASE ScheduleRead(c, q)
      BY <3>1
      DEF ScheduleRead, Begin, Fresh, DrivenAt, CallsAt, JobAt, RowInv, WorkerInv
    <3>2. CASE CancelRead(c, q)
      BY <3>2 DEF CancelRead, Begin, DrivenAt, CallsAt, JobAt
    <3>3. CASE RescheduleRead(c, q)
      <4>1. q # p
        BY <3>3 DEF RescheduleRead, Undisturbed
      <4> QED BY <3>3, <4>1 DEF RescheduleRead, Begin, DrivenAt, CallsAt, JobAt
    <3> QED BY <1>1, <3>1, <3>2, <3>3
  <2>3. worker' = worker /\ jobs' = jobs /\ pubStatus' = pubStatus
    BY <1>1 DEF ScheduleRead, CancelRead, RescheduleRead
  <2> QED BY <2>1, <2>2, <2>3, DrivenFrame DEF DrivenAt, JobAt
<1>2. CASE \/ ScheduleMark(c) \/ ScheduleCreate(c) \/ RescheduleWrite(c)
           \/ ScheduleAccount(c) /\ Goto(c, "create")
  <2>1. \A d \in Call : calls'[d].pub = calls[d].pub /\ calls'[d].op = calls[d].op
    BY <1>2 DEF ScheduleMark, ScheduleCreate, RescheduleWrite
  <2>2. worker' = worker /\ jobs' = jobs
    BY <1>2 DEF ScheduleMark, ScheduleCreate, RescheduleWrite, ScheduleAccount
  <2>3. pubStatus'[p] = "scheduled" => pubStatus[p] = "scheduled" \/ CallOn(p)
    BY <1>2 DEF ScheduleMark, ScheduleCreate, RescheduleWrite, ScheduleAccount, CallOn
  <2>4. CallsAt(p)'
    BY <2>1, <2>2 DEF DrivenAt, CallsAt, JobAt
  <2> QED BY <2>1, <2>2, <2>3, <2>4, DrivenFrame DEF DrivenAt, JobAt
<1>3. CASE (ScheduleAccount(c) \/ CancelWrite(c)) /\ Reply(c)
  <2>1. \A d \in Call : d # c => calls'[d] = calls[d]
    BY <1>3 DEF Reply
  <2>2. calls'[c].pub = None
    BY <1>3 DEF Reply, IdleCall
  <2>3. worker' = worker /\ jobs' = jobs
    BY <1>3 DEF ScheduleAccount, CancelWrite
  <2>4. CallsAt(p)' /\ JobsAt(p)'
    BY <2>1, <2>2, <2>3, PublicationsAssumption
    DEF DrivenAt, CallsAt, JobsAt, JobAt, WorkerOn
  <2>5. CASE calls[c].pub = p
    <3>1. pubStatus'[p] # "scheduled"
      BY <1>3, <2>5 DEF ScheduleAccount, CancelWrite, CallInv, PreCreate
    <3> QED BY <2>4, <3>1 DEF DrivenAt
  <2>6. CASE calls[c].pub # p
    <3>1. \A d \in Call : calls[d].pub = p => calls'[d].pub = p
      BY <2>1, <2>6
    <3>2. pubStatus'[p] = pubStatus[p]
      BY <1>3, <2>6 DEF ScheduleAccount, CancelWrite
    <3> QED BY <2>3, <2>4, <3>1, <3>2, DrivenFrame DEF DrivenAt, JobAt
  <2> QED BY <2>5, <2>6
<1>4. CASE Enqueue(c)
  <2>1. \A d \in Call : d # c => calls'[d] = calls[d]
    BY <1>4 DEF Enqueue, Reply
  <2>2. calls'[c].pub = None
    BY <1>4 DEF Enqueue, Reply, IdleCall
  <2>3. worker' = worker /\ pubStatus' = pubStatus
    BY <1>4 DEF Enqueue
  <2>4. calls[c].pub \in Publication
    BY <1>4 DEF Enqueue, CallInv
  <2>5. CASE calls[c].pub = p
    <3>1. calls[c].op = "schedule"
      BY <1>4, <2>5 DEF Enqueue, CallInv, DrivenAt, CallsAt
    <3>2. /\ \A n \in Attempt : JobAt(p, n) = "none"
          /\ worker.pub # p
          /\ \A d \in Call : calls[d].pub = p /\ calls[d].op = "schedule" => d = c
      BY <2>5, <3>1 DEF DrivenAt, CallsAt
    <3>3. 0 \in Attempt
      BY DEF Attempt
    <3>4. /\ JobAt(p, 0)' = "waiting"
          /\ \A n \in Attempt : n # 0 => JobAt(p, n)' = "none"
      BY <1>4, <2>5, <3>2, <3>3 DEF Enqueue, QueueAdd, JobAt, BuildJobId, JobId
    <3>5. JobsAt(p)'
      BY <2>3, <3>2, <3>3, <3>4 DEF JobsAt, WorkerOn, Attempt
    <3>6. CallsAt(p)'
      BY <2>1, <2>2, <3>2, PublicationsAssumption DEF DrivenAt, CallsAt
    <3>7. Driven(p)'
      BY <3>3, <3>4 DEF Driven, LiveJob, JobAt
    <3> QED BY <3>5, <3>6, <3>7 DEF DrivenAt
  <2>6. CASE calls[c].pub # p
    <3>1. \A d \in Call : calls[d].pub = p => calls'[d].pub = p
      BY <2>1, <2>6
    <3>2. \A n \in Attempt : JobAt(p, n)' = JobAt(p, n)
      BY <1>4, <2>4, <2>6 DEF Enqueue, QueueAdd, JobAt, BuildJobId, JobId, Attempt
    <3>3. CallsAt(p)'
      BY <2>1, <2>2, <2>3, <3>2, PublicationsAssumption DEF DrivenAt, CallsAt
    <3> QED BY <2>3, <3>1, <3>2, <3>3, DrivenFrame DEF DrivenAt
  <2> QED BY <2>5, <2>6
<1>5. CASE RemovePendingJob(c)
  <2>1. \A d \in Call : calls'[d].pub = calls[d].pub /\ calls'[d].op = calls[d].op
    BY <1>5 DEF RemovePendingJob
  <2>2. worker' = worker /\ pubStatus' = pubStatus
    BY <1>5 DEF RemovePendingJob
  <2>3. calls[c].pub \in Publication
    BY <1>5 DEF RemovePendingJob, CallInv
  <2>4. \A n \in Attempt : JobAt(p, n)' = JobAt(p, n)
          \/ (calls[c].pub = p /\ JobAt(p, n) # "active" /\ JobAt(p, n)' = "none")
    <3> DEFINE id == BuildJobId(calls[c].pub, calls[c].i)
    <3>1. jobs' = jobs \/ (jobs[id] # "active" /\ jobs' = [jobs EXCEPT ![id] = "none"])
      BY <1>5 DEF RemovePendingJob, QueueRemove
    <3> HIDE DEF id
    <3> SUFFICES ASSUME NEW n \in Attempt
                 PROVE  JobAt(p, n)' = JobAt(p, n)
                   \/ (calls[c].pub = p /\ JobAt(p, n) # "active" /\ JobAt(p, n)' = "none")
      OBVIOUS
    <3>2. <<p, n>> \in JobId
      BY DEF JobId
    <3>3. CASE <<p, n>> = id
      BY <3>1, <3>2, <3>3 DEF JobAt, BuildJobId, id
    <3>4. CASE <<p, n>> # id
      BY <3>1, <3>2, <3>4 DEF JobAt, BuildJobId
    <3> QED BY <3>3, <3>4
  <2>5. JobsAt(p)'
    BY <2>2, <2>4 DEF DrivenAt, JobsAt, WorkerOn
  <2>6. CallsAt(p)'
    BY <2>1, <2>2, <2>4 DEF DrivenAt, CallsAt
  <2>7. CASE calls[c].pub = p
    <3>1. Driven(p)'
      BY <2>1, <2>7 DEF Driven, CallOn
    <3> QED BY <2>5, <2>6, <3>1 DEF DrivenAt
  <2>8. CASE calls[c].pub # p
    BY <2>1, <2>2, <2>4, <2>6, <2>8, DrivenFrame DEF DrivenAt
  <2> QED BY <2>7, <2>8
<1> QED
  BY <1>1, <1>2, <1>3, <1>4, <1>5 DEF CallStep, ScheduleAccount, CancelWrite

LEMMA WorkerKeepsDriven ==
  ASSUME IInv, NEW p \in Publication, DrivenAt(p), WorkerStep
  PROVE  DrivenAt(p)'
<1> USE DEF IInv, TypeOK, WorkerState, rowVars, WorkerAt, WorkerGoto
<1>1. calls' = calls
  BY DEF WorkerStep, TakeJob, WorkerRead, PublishAccepted, PublishRejected,
    WritePublished, ReadSiblings, MarkPiecePublished, AddRetry, GiveUp, MarkFailed,
    FinishJob
<1>2. CallOn(p)' <=> CallOn(p)
  BY <1>1 DEF CallOn
<1>3. ASSUME NEW q \in Publication, NEW n \in Attempt, TakeJob(q, n)
      PROVE  DrivenAt(p)'
  <2>1. /\ <<q, n>> \in JobId /\ jobs[<<q, n>>] = "waiting"
        /\ jobs' = [jobs EXCEPT ![<<q, n>>] = "active"]
        /\ worker.pub = None /\ worker' = [pc |-> "read", pub |-> q, n |-> n]
        /\ pubStatus' = pubStatus
    BY <1>3 DEF TakeJob, QueueTake, BuildJobId, JobId, WorkerInv
  <2>2. CASE q = p
    <3>1. /\ JobAt(p, n) = "waiting" /\ JobAt(p, n)' = "active"
          /\ \A m \in Attempt : m # n => JobAt(p, m)' = JobAt(p, m)
      BY <2>1, <2>2 DEF JobAt, BuildJobId, JobId
    <3>2. \A m \in Attempt : JobAt(p, m) # "none" => m <= n
      BY <3>1 DEF DrivenAt, JobsAt
    <3>3. \A m \in Attempt : JobAt(p, m) = "waiting" => m = n
      BY <3>1, <3>2 DEF DrivenAt, JobsAt, Attempt
    <3>4. JobsAt(p)'
      BY <2>1, <2>2, <3>1, <3>2, <3>3 DEF JobsAt, WorkerOn, DrivenAt
    <3>5. CallsAt(p)'
      BY <1>1, <3>1 DEF DrivenAt, CallsAt
    <3>6. Driven(p)'
      BY <2>1, <2>2 DEF Driven, WorkerOn
    <3> QED BY <3>4, <3>5, <3>6 DEF DrivenAt
  <2>3. CASE q # p
    <3>1. \A m \in Attempt : JobAt(p, m)' = JobAt(p, m)
      BY <2>1, <2>3 DEF JobAt, BuildJobId, JobId
    <3>2. ~WorkerOn(p) /\ ~WorkerOn(p)' /\ worker'.pub # p
      BY <2>1, <2>3, PublicationsAssumption DEF WorkerOn
    <3>3. JobsAt(p)' /\ CallsAt(p)'
      BY <1>1, <3>1, <3>2 DEF DrivenAt, JobsAt, CallsAt
    <3>4. LiveJob(p)' <=> LiveJob(p)
      BY <3>1 DEF LiveJob, JobAt
    <3> QED BY <1>2, <2>1, <3>2, <3>3, <3>4 DEF DrivenAt, Driven
  <2> QED BY <2>2, <2>3
<1>4. ASSUME jobs' = jobs, worker'.pub = worker.pub, worker'.n = worker.n,
             worker.pc # "finish",
             worker'.pc = "finish" /\ worker.pub = p => pubStatus'[p] # "scheduled",
             pubStatus'[p] = "scheduled" => pubStatus[p] = "scheduled"
      PROVE  DrivenAt(p)'
  <2>1. JobsAt(p)' /\ CallsAt(p)'
    BY <1>1, <1>4 DEF DrivenAt, JobsAt, CallsAt, JobAt, WorkerOn
  <2>2. LiveJob(p)' <=> LiveJob(p)
    BY <1>4 DEF LiveJob
  <2>3. WorkerOn(p) => WorkerOn(p)' \/ pubStatus'[p] # "scheduled"
    BY <1>4 DEF WorkerOn
  <2> QED BY <1>2, <1>4, <2>1, <2>2, <2>3 DEF DrivenAt, Driven
<1>5. CASE WorkerRead
  <2>1. worker'.pc = "finish" /\ worker.pub = p => pubStatus'[p] # "scheduled"
    BY <1>5 DEF WorkerRead, Verdict
  <2> QED BY <1>4, <1>5, <2>1 DEF WorkerRead
<1>6. CASE PublishAccepted \/ PublishRejected \/ GiveUp
  BY <1>4, <1>6 DEF PublishAccepted, PublishRejected, GiveUp
<1>7. CASE WritePublished \/ MarkFailed
  <2>1. pubStatus'[p] = "scheduled" => pubStatus[p] = "scheduled" /\ worker.pub # p
    BY <1>7 DEF WritePublished, MarkFailed
  <2> QED BY <1>4, <1>7, <2>1 DEF WritePublished, MarkFailed
<1>8. CASE ReadSiblings \/ MarkPiecePublished
  <2>1. worker.pub = p => pubStatus[p] # "scheduled"
    BY <1>8 DEF ReadSiblings, MarkPiecePublished, WorkerInv, PostInv
  <2>2. pubStatus' = pubStatus /\ jobs' = jobs
    BY <1>8 DEF ReadSiblings, MarkPiecePublished
  <2> QED BY <1>4, <1>8, <2>1, <2>2 DEF ReadSiblings, MarkPiecePublished
<1>9. CASE AddRetry
  <2>1. worker.pub \in Publication
    BY <1>9 DEF AddRetry, WorkerInv
  <2>5. PICK n \in Attempt : n = worker.n + 1
    BY <1>9 DEF AddRetry, Attempt
  <2>2. /\ pubStatus' = pubStatus /\ worker' = [worker EXCEPT !.pc = "finish"]
        /\ jobs' = QueueAdd(jobs, <<worker.pub, n>>)
    BY <1>9, <2>5 DEF AddRetry, BuildJobId, NextAttempt
  <2>3. CASE worker.pub = p
    <3>1. \A m \in Attempt : JobAt(p, m) # "none" => m < n /\ JobAt(p, m) # "waiting"
      BY <1>9, <2>3, <2>5 DEF AddRetry, DrivenAt, JobsAt, WorkerOn, Attempt
    <3>2. JobAt(p, n) = "none"
      BY <3>1 DEF Attempt
    <3>3. /\ JobAt(p, n)' = "waiting"
          /\ \A m \in Attempt : m # n => JobAt(p, m)' = JobAt(p, m)
      BY <2>1, <2>2, <2>3, <3>2 DEF JobAt, BuildJobId, JobId, QueueAdd
    <3>4. JobsAt(p)'
      <4>1. ~WorkerOn(p)'
        BY <2>2 DEF WorkerOn
      <4> QED BY <2>2, <3>1, <3>3, <4>1 DEF DrivenAt, JobsAt, Attempt
    <3>5. CallsAt(p)'
      BY <1>1, <2>2, <2>3 DEF DrivenAt, CallsAt
    <3>6. Driven(p)'
      BY <3>3 DEF Driven, LiveJob, JobAt
    <3> QED BY <3>6, <3>4, <3>5, <3>6 DEF DrivenAt
  <2>4. CASE worker.pub # p
    <3>1. \A m \in Attempt : JobAt(p, m)' = JobAt(p, m)
      BY <2>1, <2>2, <2>4 DEF JobAt, BuildJobId, JobId, QueueAdd
    <3>2. ~WorkerOn(p) /\ ~WorkerOn(p)' /\ worker'.pub # p
      BY <2>2, <2>4 DEF WorkerOn
    <3>3. JobsAt(p)' /\ CallsAt(p)'
      BY <1>1, <3>1, <3>2 DEF DrivenAt, JobsAt, CallsAt
    <3>4. LiveJob(p)' <=> LiveJob(p)
      BY <3>1 DEF LiveJob, JobAt
    <3> QED BY <1>2, <2>2, <3>2, <3>3, <3>4 DEF DrivenAt, Driven
  <2> QED BY <2>3, <2>4
<1>10. CASE FinishJob
  <2>1. worker.pub \in Publication /\ worker.n \in Attempt
    BY <1>10 DEF FinishJob, WorkerInv
  <2>2. /\ pubStatus' = pubStatus /\ worker'.pub = None /\ ~WorkerOn(p)
        /\ jobs' = [jobs EXCEPT ![<<worker.pub, worker.n>>] = "done"]
    BY <1>10 DEF FinishJob, BuildJobId, QueueFinish, IdleWorker, WorkerOn
  <2>3. \A m \in Attempt :
          JobAt(p, m)' = JobAt(p, m) \/ (JobAt(p, m)' = "done" /\ JobAt(p, m) = "active")
    <3> TAKE m \in Attempt
    <3>1. CASE worker.pub = p /\ worker.n = m
      BY <2>1, <2>2, <3>1 DEF JobAt, BuildJobId, JobId, DrivenAt, JobsAt
    <3>2. CASE ~(worker.pub = p /\ worker.n = m)
      <4>1. jobs'[<<p, m>>] = jobs[<<p, m>>]
        BY <2>2, <3>2 DEF JobId
      <4> QED BY <4>1 DEF JobAt, BuildJobId
    <3> QED BY <3>1, <3>2
  <2>4. ~WorkerOn(p)' /\ worker'.pub # p
    BY <2>2, PublicationsAssumption DEF WorkerOn
  <2>5. JobsAt(p)' /\ CallsAt(p)'
    BY <1>1, <2>3, <2>4 DEF DrivenAt, JobsAt, CallsAt
  <2>6. LiveJob(p) => LiveJob(p)'
    BY <2>3 DEF LiveJob, JobAt
  <2> QED BY <1>2, <2>2, <2>5, <2>6 DEF DrivenAt, Driven
<1> QED BY <1>3, <1>5, <1>6, <1>7, <1>8, <1>9, <1>10 DEF WorkerStep

LEMMA StepKeepsDrivenInv == IInv /\ DrivenInv /\ [Next]_vars => DrivenInv'
<1> SUFFICES ASSUME IInv, DrivenInv, [Next]_vars, NEW p \in Publication, Undisturbed(p)'
             PROVE  DrivenAt(p)'
  BY DEF DrivenInv
<1>1. Undisturbed(p) /\ DrivenAt(p)
  BY DisturbedForGood DEF DrivenInv, IInv
<1>2. ASSUME NEW c \in Call,
             CallStep(c) \/ \E q \in Publication :
               ScheduleRead(c, q) \/ CancelRead(c, q) \/ RescheduleRead(c, q)
      PROVE  DrivenAt(p)'
  BY <1>1, <1>2, RequestKeepsDriven
<1>3. CASE WorkerStep
  BY <1>1, <1>3, WorkerKeepsDriven
<1>4. CASE FaultStep
  <2>1. faults' = faults + 1
    BY <1>4 DEF FaultStep, Fault, CallFails, PublishReplyLost, UpdateFails, TryFails,
      FailsLate, MarkReplyLost, ProcessThrows, Crash
  <2> QED BY <1>1, <2>1 DEF Undisturbed
<1>5. ASSUME NEW id \in JobId, StalledCheck(id) PROVE DrivenAt(p)'
  <2>1. /\ jobs[id] = "stalled" /\ calls' = calls /\ worker' = worker
        /\ pubStatus' = pubStatus
        /\ \E s \in {"waiting", "done"} : jobs' = [jobs EXCEPT ![id] = s]
    BY <1>5 DEF StalledCheck, QueueStalledCheck, rowVars
  <2>2. \A n \in Attempt : <<p, n>> # id
    BY <1>1, <2>1 DEF DrivenAt, JobsAt, JobAt, BuildJobId
  <2>3. \A n \in Attempt : JobAt(p, n)' = JobAt(p, n)
    BY <2>1, <2>2 DEF JobAt, BuildJobId, JobId, IInv, TypeOK
  <2>4. CallsAt(p)'
    BY <1>1, <2>1, <2>3 DEF DrivenAt, CallsAt
  <2> QED BY <1>1, <2>1, <2>3, <2>4, DrivenFrame DEF DrivenAt
<1>6. CASE UNCHANGED <<pubStatus, jobs, calls, worker>>
  <2>1. CallsAt(p)'
    BY <1>1, <1>6 DEF DrivenAt, CallsAt, JobAt
  <2> QED BY <1>1, <1>6, <2>1, DrivenFrame DEF DrivenAt, JobAt
<1> QED
  BY <1>2, <1>3, <1>4, <1>5, <1>6 DEF Next, PublicationsNext, PieceWrite, AccountWrite, vars

(* ScheduledIsDriven in every behaviour: without faults or reschedules no  *)
(* scheduled publication is left without a job, a request or the worker.   *)
THEOREM NoScheduledIsStranded == Spec => []ScheduledIsDriven
<1>1. Init => DrivenInv
  BY PublicationsAssumption
  DEF Init, DrivenInv, DrivenAt, JobsAt, CallsAt, JobAt, BuildJobId, JobId, WorkerOn,
    IdleCall, IdleWorker
<1>2. DrivenInv => ScheduledIsDriven
  BY DEF DrivenInv, DrivenAt, ScheduledIsDriven
<1> QED BY <1>1, <1>2, StepKeepsDrivenInv, Inductive, PTL DEF Spec
=============================================================================
