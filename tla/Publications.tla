---------------------------- MODULE Publications ----------------------------
(***************************************************************************)
(* Scheduling and publishing (apps/api/src/publications): the HTTP         *)
(* handlers of PublicationsService, which any number of requests run at    *)
(* once, and PublishProcessor, the one worker of the BullMQ queue          *)
(* "publish".  All of them live in one node process and interleave at      *)
(* every await, so each database, queue or network call is one step; what  *)
(* a handler decides between two awaits is part of the step before it.     *)
(*                                                                         *)
(* A row of table publications never changes piece or account, so PieceOf  *)
(* and AccountOf are constants and `absent' is a row not created yet.      *)
(* Dates are left out: a waiting job may run at any time.                  *)
(***************************************************************************)
EXTENDS ContentStates, JobQueue, Integers, FiniteSets

CONSTANTS
  Piece, Publication, Account,
  Call,             \* request slots: at most so many requests at once
  None,
  PieceOf, AccountOf,
  Supported,        \* accounts whose network some publisher supports
  MaxRetry,         \* RETRY_DELAYS_MS.length, 2 in the source
  MaxReschedules,   \* bound on the accepted reschedules of one publication
  MaxFaults         \* bound on crashes, failed calls and lost replies

ASSUME PublicationsAssumption ==
  /\ None \notin Publication
  /\ PieceOf \in [Publication -> Piece]
  /\ AccountOf \in [Publication -> Account]
  /\ MaxRetry \in Nat /\ MaxReschedules \in Nat /\ MaxFaults \in Nat

VARIABLES
  pieceStatus,      \* content_pieces.status
  accountStatus,    \* social_accounts.status, connected or not
  pubStatus,        \* publications.status
  jobs,             \* the queue: [JobId -> JobState]
  calls,            \* where each request stands
  worker,           \* where the publish worker stands
  posts,            \* history: posts a network holds for a publication
  lost,             \* history: posts whose row was never told of them
  late,             \* history: publications whose job failed after the row
                    \*          had been told
  everApproved,     \* history: pieces that were ever approved
  everPublished,    \* history: pieces that were ever marked published
  reschedules,      \* history: accepted reschedules
  faults            \* history: faults so far

vars == <<pieceStatus, accountStatus, pubStatus, jobs, calls, worker, posts,
          lost, late, everApproved, everPublished, reschedules, faults>>

rowVars == <<pieceStatus, accountStatus, pubStatus>>
postVars == <<posts, lost, late>>
everVars == <<everApproved, everPublished>>

-----------------------------------------------------------------------------
Attempt == 0..MaxRetry
JobId == Publication \X Attempt
BuildJobId(p, n) == <<p, n>>

PublicationStatus == {"absent", "scheduled", "published", "failed", "cancelled"}
Settled == {"published", "failed", "cancelled"}

IdleCall == [op |-> "none", pc |-> "idle", pub |-> None, i |-> 0]
CallState ==
  [op : {"none", "schedule", "cancel", "reschedule"},
   pc : {"idle", "mark", "account", "create", "enqueue", "remove", "write"},
   pub : Publication \cup {None}, i : 0..(MaxRetry + 1)]

IdleWorker == [pc |-> "idle", pub |-> None, n |-> 0]
WorkerState ==
  [pc : {"idle", "read", "publish", "write", "siblings", "piece", "caught",
         "fail", "finish"},
   pub : Publication \cup {None}, n : Attempt]

Init ==
  /\ pieceStatus = [k \in Piece |-> "draft"]
  /\ accountStatus \in [Account -> {"connected", "disconnected"}]
  /\ pubStatus = [p \in Publication |-> "absent"]
  /\ jobs = [id \in JobId |-> "none"]
  /\ calls = [c \in Call |-> IdleCall]
  /\ worker = IdleWorker
  /\ posts = [p \in Publication |-> 0]
  /\ lost = [p \in Publication |-> 0]
  /\ late = {}
  /\ everApproved = {} /\ everPublished = {}
  /\ reschedules = [p \in Publication |-> 0]
  /\ faults = 0

-----------------------------------------------------------------------------
(* The rest of the system, as far as these rows see it: handlers of        *)
(* content-pieces, which overwrite the status they read earlier, and the   *)
(* connections of social accounts.                                         *)

PieceWrite(k, s) ==
  /\ pieceStatus' = [pieceStatus EXCEPT ![k] = s]
  /\ everApproved' = IF s = "approved" THEN everApproved \cup {k} ELSE everApproved
  /\ UNCHANGED <<accountStatus, pubStatus, jobs, calls, worker, postVars,
                 everPublished, reschedules, faults>>

AccountWrite(a, s) ==
  /\ accountStatus' = [accountStatus EXCEPT ![a] = s]
  /\ UNCHANGED <<pieceStatus, pubStatus, jobs, calls, worker, postVars,
                 everVars, reschedules, faults>>

-----------------------------------------------------------------------------
(* PublicationsService.                                                    *)

At(c, op, pc) == calls[c].op = op /\ calls[c].pc = pc
Goto(c, pc) == calls' = [calls EXCEPT ![c].pc = pc]
Reply(c) == calls' = [calls EXCEPT ![c] = IdleCall]

Begin(c, op, pc, p) ==
  /\ calls[c].pc = "idle"
  /\ calls' = [calls EXCEPT ![c] = [op |-> op, pc |-> pc, pub |-> p, i |-> 0]]

(* The next two decide whether a piece of status s may be scheduled; the   *)
(* second accepts any status.                                              *)
AnyStatusSchedulable(s) == s \in ContentPieceStatus
Schedulable(s) == s = "scheduled" \/ ValidTransition(s, "scheduled")

(* A row id that no request is about to create.                            *)
Fresh(p) == pubStatus[p] = "absent" /\ \A c \in Call : calls[c].pub # p

ScheduleRead(c, p) ==
  LET s == pieceStatus[PieceOf[p]] IN
  /\ Fresh(p)
  /\ Schedulable(s)
  /\ Begin(c, "schedule", IF s = "scheduled" THEN "account" ELSE "mark", p)
  /\ UNCHANGED <<rowVars, jobs, worker, postVars, everVars, reschedules, faults>>

ScheduleMark(c) ==
  /\ At(c, "schedule", "mark")
  /\ pieceStatus' = [pieceStatus EXCEPT ![PieceOf[calls[c].pub]] = "scheduled"]
  /\ Goto(c, "account")
  /\ UNCHANGED <<accountStatus, pubStatus, jobs, worker, postVars, everVars,
                 reschedules, faults>>

(* Refused for an account that is not connected, after the piece has been  *)
(* moved to scheduled.                                                     *)
ScheduleAccount(c) ==
  /\ At(c, "schedule", "account")
  /\ IF accountStatus[AccountOf[calls[c].pub]] = "connected"
       THEN Goto(c, "create") ELSE Reply(c)
  /\ UNCHANGED <<rowVars, jobs, worker, postVars, everVars, reschedules, faults>>

ScheduleCreate(c) ==
  /\ At(c, "schedule", "create")
  /\ pubStatus' = [pubStatus EXCEPT ![calls[c].pub] = "scheduled"]
  /\ Goto(c, "enqueue")
  /\ UNCHANGED <<pieceStatus, accountStatus, jobs, worker, postVars, everVars,
                 reschedules, faults>>

(* The last step of schedule and of reschedule.                            *)
Enqueue(c) ==
  /\ calls[c].pc = "enqueue"
  /\ jobs' = QueueAdd(jobs, BuildJobId(calls[c].pub, 0))
  /\ Reply(c)
  /\ UNCHANGED <<rowVars, worker, postVars, everVars, reschedules, faults>>

CancelRead(c, p) ==
  /\ pubStatus[p] = "scheduled"
  /\ Begin(c, "cancel", "remove", p)
  /\ UNCHANGED <<rowVars, jobs, worker, postVars, everVars, reschedules, faults>>

RescheduleRead(c, p) ==
  /\ pubStatus[p] = "scheduled"
  /\ reschedules[p] < MaxReschedules
  /\ reschedules' = [reschedules EXCEPT ![p] = @ + 1]
  /\ Begin(c, "reschedule", "remove", p)
  /\ UNCHANGED <<rowVars, jobs, worker, postVars, everVars, faults>>

(* One turn of removeAllPendingJobs, or its end.                           *)
RemovePendingJob(c) ==
  /\ calls[c].pc = "remove"
  /\ IF calls[c].i \in Attempt
       THEN /\ QueueRemove(jobs, BuildJobId(calls[c].pub, calls[c].i), jobs')
            /\ calls' = [calls EXCEPT ![c].i = @ + 1]
       ELSE Goto(c, "write") /\ UNCHANGED jobs
  /\ UNCHANGED <<rowVars, worker, postVars, everVars, reschedules, faults>>

(* The end of cancel.                                                      *)
CancelWrite(c) ==
  /\ At(c, "cancel", "write")
  /\ pubStatus' = [pubStatus EXCEPT ![calls[c].pub] = "cancelled"]
  /\ Reply(c)
  /\ UNCHANGED <<pieceStatus, accountStatus, jobs, worker, postVars, everVars,
                 reschedules, faults>>

(* The update of scheduledAt, which no definition here sees.              *)
RescheduleWrite(c) ==
  /\ At(c, "reschedule", "write")
  /\ Goto(c, "enqueue")
  /\ UNCHANGED <<rowVars, jobs, worker, postVars, everVars, reschedules, faults>>

-----------------------------------------------------------------------------
(* PublishProcessor: one job at a time.                                    *)

WorkerAt(pc) == worker.pc = pc
WorkerGoto(pc) == worker' = [worker EXCEPT !.pc = pc]

TakeJob(p, n) ==
  /\ WorkerAt("idle")
  /\ jobs[BuildJobId(p, n)] = "waiting"
  /\ jobs' = QueueTake(jobs, BuildJobId(p, n))
  /\ worker' = [pc |-> "read", pub |-> p, n |-> n]
  /\ UNCHANGED <<rowVars, calls, postVars, everVars, reschedules, faults>>

(* What process() goes on to after reading publication p with its piece    *)
(* and its account.  The first asks for the account before the status, the *)
(* second asks for no status at all.                                       *)
VerdictAccountFirst(p) ==
  IF accountStatus[AccountOf[p]] # "connected" \/ AccountOf[p] \notin Supported THEN "fail"
  ELSE IF pubStatus[p] # "scheduled" THEN "finish"
  ELSE "publish"
VerdictWithoutStatus(p) ==
  IF accountStatus[AccountOf[p]] # "connected" \/ AccountOf[p] \notin Supported THEN "fail"
  ELSE "publish"
Verdict(p) ==
  IF pubStatus[p] # "scheduled" THEN "finish"
  ELSE IF accountStatus[AccountOf[p]] # "connected" \/ AccountOf[p] \notin Supported
    THEN "fail"
  ELSE "publish"

WorkerRead ==
  /\ WorkerAt("read")
  /\ WorkerGoto(Verdict(worker.pub))
  /\ UNCHANGED <<rowVars, jobs, calls, postVars, everVars, reschedules, faults>>

(* publisher.publish: the network takes the post, or it throws.            *)
PublishAccepted ==
  /\ WorkerAt("publish")
  /\ posts' = [posts EXCEPT ![worker.pub] = @ + 1]
  /\ WorkerGoto("write")
  /\ UNCHANGED <<rowVars, jobs, calls, lost, late, everVars, reschedules, faults>>

PublishRejected ==
  /\ WorkerAt("publish")
  /\ WorkerGoto("caught")
  /\ UNCHANGED <<rowVars, jobs, calls, postVars, everVars, reschedules, faults>>

WritePublished ==
  /\ WorkerAt("write")
  /\ pubStatus' = [pubStatus EXCEPT ![worker.pub] = "published"]
  /\ WorkerGoto("siblings")
  /\ UNCHANGED <<pieceStatus, accountStatus, jobs, calls, postVars, everVars,
                 reschedules, faults>>

Siblings(k) == {p \in Publication : PieceOf[p] = k /\ pubStatus[p] # "absent"}

(* The test of maybeMarkContentPiecePublished: with some() for every(),    *)
(* and as it is.                                                           *)
SomePublished(k) == \E p \in Siblings(k) : pubStatus[p] = "published"
AllPublished(k) ==
  Siblings(k) # {} /\ \A p \in Siblings(k) : pubStatus[p] = "published"

ReadSiblings ==
  /\ WorkerAt("siblings")
  /\ WorkerGoto(IF AllPublished(PieceOf[worker.pub]) THEN "piece" ELSE "finish")
  /\ UNCHANGED <<rowVars, jobs, calls, postVars, everVars, reschedules, faults>>

(* The update of the piece: with the status it is expected to have in its  *)
(* where clause, and as it is.                                             *)
MarkPieceIfScheduled ==
  LET k == PieceOf[worker.pub] IN
  /\ WorkerAt("piece")
  /\ IF pieceStatus[k] = "scheduled"
       THEN /\ pieceStatus' = [pieceStatus EXCEPT ![k] = "published"]
            /\ everPublished' = everPublished \cup {k}
       ELSE UNCHANGED <<pieceStatus, everPublished>>
  /\ WorkerGoto("finish")
  /\ UNCHANGED <<accountStatus, pubStatus, jobs, calls, postVars, everApproved,
                 reschedules, faults>>
MarkPiecePublished ==
  /\ WorkerAt("piece")
  /\ pieceStatus' = [pieceStatus EXCEPT ![PieceOf[worker.pub]] = "published"]
  /\ everPublished' = everPublished \cup {PieceOf[worker.pub]}
  /\ WorkerGoto("finish")
  /\ UNCHANGED <<accountStatus, pubStatus, jobs, calls, postVars, everApproved,
                 reschedules, faults>>

(* The attempt a failed attempt n adds: with the increment forgotten, and  *)
(* as it is.                                                               *)
SameAttempt(n) == n
NextAttempt(n) == n + 1

(* The catch clause: another job, while there are delays left.             *)
AddRetry ==
  /\ WorkerAt("caught")
  /\ worker.n < MaxRetry
  /\ jobs' = QueueAdd(jobs, BuildJobId(worker.pub, NextAttempt(worker.n)))
  /\ WorkerGoto("finish")
  /\ UNCHANGED <<rowVars, calls, postVars, everVars, reschedules, faults>>

GiveUp ==
  /\ WorkerAt("caught")
  /\ worker.n = MaxRetry
  /\ WorkerGoto("fail")
  /\ UNCHANGED <<rowVars, jobs, calls, postVars, everVars, reschedules, faults>>

MarkFailed ==
  /\ WorkerAt("fail")
  /\ pubStatus' = [pubStatus EXCEPT ![worker.pub] = "failed"]
  /\ WorkerGoto("finish")
  /\ UNCHANGED <<pieceStatus, accountStatus, jobs, calls, postVars, everVars,
                 reschedules, faults>>

FinishJob ==
  /\ WorkerAt("finish")
  /\ jobs' = QueueFinish(jobs, BuildJobId(worker.pub, worker.n))
  /\ worker' = IdleWorker
  /\ UNCHANGED <<rowVars, calls, postVars, everVars, reschedules, faults>>

-----------------------------------------------------------------------------
(* Faults.  A call to the database, to Redis or to a network throws, its   *)
(* reply is lost, or the process dies.                                     *)

Fault == faults < MaxFaults /\ faults' = faults + 1

CallFails(c) ==
  /\ Fault
  /\ calls[c].pc # "idle"
  /\ Reply(c)
  /\ UNCHANGED <<rowVars, jobs, worker, postVars, everVars, reschedules>>

(* The network took the post and the call threw all the same.              *)
PublishReplyLost ==
  /\ Fault
  /\ WorkerAt("publish")
  /\ posts' = [posts EXCEPT ![worker.pub] = @ + 1]
  /\ lost' = [lost EXCEPT ![worker.pub] = @ + 1]
  /\ WorkerGoto("caught")
  /\ UNCHANGED <<rowVars, jobs, calls, late, everVars, reschedules>>

(* A database call inside the try throws after the post, and the catch     *)
(* clause takes it for a failure to publish.  The first is the update of   *)
(* the row itself; that it was stored and threw is WritePublished followed *)
(* by TryFails.                                                            *)
UpdateFails ==
  /\ Fault
  /\ WorkerAt("write")
  /\ lost' = [lost EXCEPT ![worker.pub] = @ + 1]
  /\ WorkerGoto("caught")
  /\ UNCHANGED <<rowVars, jobs, calls, posts, late, everVars, reschedules>>

(* The others come when the row says published and holds the reference.    *)
FailsLate ==
  /\ Fault
  /\ late' = late \cup {worker.pub}
  /\ WorkerGoto("caught")
  /\ UNCHANGED <<accountStatus, pubStatus, jobs, calls, posts, lost, everApproved,
                 reschedules>>

TryFails ==
  /\ worker.pc \in {"siblings", "piece"}
  /\ FailsLate
  /\ UNCHANGED <<pieceStatus, everPublished>>

(* The update of the piece is stored and throws all the same.              *)
MarkReplyLost ==
  /\ WorkerAt("piece")
  /\ FailsLate
  /\ pieceStatus' = [pieceStatus EXCEPT ![PieceOf[worker.pub]] = "published"]
  /\ everPublished' = everPublished \cup {PieceOf[worker.pub]}

(* A call outside the try throws: the job fails and nobody runs it again.  *)
ProcessThrows ==
  /\ Fault
  /\ worker.pc \in {"read", "caught", "fail"}
  /\ WorkerGoto("finish")
  /\ UNCHANGED <<rowVars, jobs, calls, postVars, everVars, reschedules>>

(* Requests and worker are gone; rows and jobs stay.                       *)
Crash ==
  /\ Fault
  /\ calls' = [c \in Call |-> IdleCall]
  /\ worker' = IdleWorker
  /\ jobs' = QueueOrphan(jobs)
  /\ lost' = IF WorkerAt("write") THEN [lost EXCEPT ![worker.pub] = @ + 1] ELSE lost
  /\ UNCHANGED <<rowVars, posts, late, everVars, reschedules>>

StalledCheck(id) ==
  /\ jobs[id] = "stalled"
  /\ jobs' \in QueueStalledCheck(jobs, id)
  /\ UNCHANGED <<rowVars, calls, worker, postVars, everVars, reschedules, faults>>

-----------------------------------------------------------------------------
CallStep(c) ==
  \/ ScheduleMark(c) \/ ScheduleAccount(c) \/ ScheduleCreate(c) \/ Enqueue(c)
  \/ RemovePendingJob(c) \/ CancelWrite(c) \/ RescheduleWrite(c)

WorkerStep ==
  \/ \E p \in Publication, n \in Attempt : TakeJob(p, n)
  \/ WorkerRead \/ PublishAccepted \/ PublishRejected
  \/ WritePublished \/ ReadSiblings \/ MarkPiecePublished
  \/ AddRetry \/ GiveUp \/ MarkFailed \/ FinishJob

FaultStep ==
  \/ \E c \in Call : CallFails(c)
  \/ PublishReplyLost \/ UpdateFails \/ TryFails \/ MarkReplyLost
  \/ ProcessThrows \/ Crash

(* The steps of this component, and with those of the rest of the system.  *)
PublicationsNext ==
  \/ \E c \in Call : CallStep(c)
  \/ \E c \in Call, p \in Publication :
       ScheduleRead(c, p) \/ CancelRead(c, p) \/ RescheduleRead(c, p)
  \/ WorkerStep
  \/ \E id \in JobId : StalledCheck(id)

Next ==
  \/ PublicationsNext
  \/ FaultStep
  \/ \E k \in Piece, s \in {"pending_approval", "approved", "rejected"} : PieceWrite(k, s)
  \/ \E a \in Account, s \in {"connected", "disconnected"} : AccountWrite(a, s)

Spec == Init /\ [][Next]_vars

(* Requests run to their end on the event loop, the worker goes on while   *)
(* it has a job to take or to finish, and the stalled checker is a timer.  *)
(* Nothing makes a client send a request, or a fault happen.               *)
FairSpec ==
  /\ Spec
  /\ WF_vars(WorkerStep)
  /\ \A c \in Call : WF_vars(CallStep(c))
  /\ \A id \in JobId : WF_vars(StalledCheck(id))

-----------------------------------------------------------------------------
(* The types of the variables.                                             *)
TypeOK ==
  /\ pieceStatus \in [Piece -> ContentPieceStatus]
  /\ accountStatus \in [Account -> {"connected", "disconnected"}]
  /\ pubStatus \in [Publication -> PublicationStatus]
  /\ jobs \in [JobId -> JobState]
  /\ calls \in [Call -> CallState]
  /\ worker \in WorkerState
  /\ posts \in [Publication -> Nat] /\ lost \in [Publication -> Nat]
  /\ late \subseteq Publication
  /\ everApproved \subseteq Piece /\ everPublished \subseteq Piece
  /\ reschedules \in [Publication -> Nat] /\ faults \in Nat

(* Nothing reaches a network unless its piece was approved, whatever the   *)
(* content handlers wrote over its status while it was being scheduled.    *)
PostedWasApproved ==
  \A p \in Publication : posts[p] > 0 => PieceOf[p] \in everApproved

(* A publication is posted again only after the system lost track of the   *)
(* previous post: cancels, reschedules and retries that race with the      *)
(* worker, and the jobs they leave behind, never double a post (spec 030,  *)
(* CA-04).                                                                 *)
NoDoublePost ==
  \A p \in Publication : lost[p] <= posts[p] /\ posts[p] <= lost[p] + 1

(* What a settled row says is what happened: published holds one post that *)
(* was not lost, and failed holds none but lost ones, unless a call of the *)
(* try threw after the row had been told of the post: the catch clause of  *)
(* the last attempt then writes failed over published.                     *)
SettledTruthfully ==
  \A p \in Publication :
    /\ pubStatus[p] = "published" => posts[p] = lost[p] + 1
    /\ pubStatus[p] = "failed" /\ p \notin late => posts[p] = lost[p]

(* publisher.publish may already have been decided, or a cancel accepted.  *)
WorkerHolds(p) == worker.pub = p /\ worker.pc \notin {"idle", "read", "finish"}
CancelHolds(p) == \E c \in Call : calls[c].op = "cancel" /\ calls[c].pub = p
Held(p) == WorkerHolds(p) \/ CancelHolds(p)

(* A row that is settled and in nobody's hands stays as it is: no stale    *)
(* job, retry or reschedule brings it back or takes it up again.           *)
SettledForGood ==
  [][\A p \in Publication :
       pubStatus[p] \in Settled /\ ~Held(p)
         => pubStatus'[p] = pubStatus[p] /\ ~WorkerHolds(p)' /\ posts'[p] = posts[p]]_vars

(* While no fault hit the system and p was not rescheduled, a scheduled p  *)
(* has a job to come, a request that will give it one or settle it, or the *)
(* worker on it.                                                           *)
LiveJob(p) == \E n \in Attempt : jobs[BuildJobId(p, n)] = "waiting"
WorkerOn(p) == worker.pub = p /\ worker.pc # "finish"
CallOn(p) == \E c \in Call : calls[c].pub = p
Driven(p) == LiveJob(p) \/ WorkerOn(p) \/ CallOn(p)
Undisturbed(p) == faults = 0 /\ reschedules[p] = 0
ScheduledIsDriven ==
  \A p \in Publication : pubStatus[p] = "scheduled" /\ Undisturbed(p) => Driven(p)

(* Such a publication is settled in the end.                               *)
ScheduledSettles ==
  \A p \in Publication :
    pubStatus[p] = "scheduled" /\ Undisturbed(p)
      ~> pubStatus[p] \in Settled \/ ~Undisturbed(p)

(* A piece is marked published only on top of a post, and never while a    *)
(* publication of it stands failed.                                        *)
MarkedWithoutFailure ==
  [][\A k \in Piece :
       pieceStatus'[k] = "published" /\ pieceStatus[k] # "published"
         => /\ \E p \in Siblings(k) : posts[p] > 0
            /\ \A p \in Siblings(k) : pubStatus[p] # "failed"]_vars

(* Without faults, a piece whose publications are all published has been   *)
(* marked so by the time the worker is through with the last of them.      *)
LastPublicationMarks ==
  \A k \in Piece :
    faults = 0 /\ AllPublished(k)
      => k \in everPublished \/ (worker.pc \in {"siblings", "piece"} /\ PieceOf[worker.pub] = k)

(* The rows, the network and the approvals seen as the ledger of what was  *)
(* promised: every step is a step of the ledger or leaves it alone.        *)
Ledger == INSTANCE PublicationLedger WITH
  approved <- everApproved, outcome <- pubStatus, sent <- posts, mislaid <- lost,
  doubted <- late

ImplementsLedger == Ledger!Spec
=============================================================================
