--------------------------- MODULE ImageGeneration ---------------------------
(***************************************************************************)
(* Pictures made by a model and judged by another (apps/api/src/image-     *)
(* generation), the page that asks for them (apps/web useImageGeneration)  *)
(* and the workflow that waits for them (infra/n8n-workflows/content-      *)
(* generation-pipeline.json).                                              *)
(*                                                                         *)
(* Both requests run to their end inside one HTTP call: a judgement that   *)
(* rejects makes the next picture and judges it as well.  What a picture   *)
(* shows is left out; a slide holds the number of the job that made its    *)
(* picture, or Own for one that was uploaded.  Init, Next and Spec carry   *)
(* the picture's name, since WorkflowProofs extends this module together   *)
(* with Autopilot.                                                         *)
(***************************************************************************)
EXTENDS Integers, FiniteSets, FiniteSetsExt

CONSTANTS
  Slide, Call, Workflow,
  MaxJobs,             \* bound on the rows of image_generation_jobs
  MaxAttempts,         \* MAX_GENERATION_ATTEMPTS
  MaxTries,            \* MAX_ANTHROPIC_RETRIES
  Blank, Own,
  Asks,                \* attempt numbers clients ask for, past the last as well;
                       \* the page names none
  MaxReviews,          \* judgements after which nobody asks for one more
  MaxMishaps           \* bound on failures and crashes

ASSUME ImageAssumption ==
  /\ {MaxJobs, MaxAttempts, MaxTries} \subseteq Nat \ {0}
  /\ {MaxReviews, MaxMishaps} \subseteq Nat
  /\ Asks \subseteq Nat \ {0}
  /\ Blank \notin Slide \cup Call \cup Workflow
  /\ {Blank, Own} \cap 1..MaxJobs = {}

VARIABLES
  image,      \* background_image_url of the slides
  jobs,       \* image_generation_jobs
  calls,      \* requests in progress
  flows,      \* executions of the workflow
  reviews,    \* history: how often a job was read to be judged
  torn,       \* history: jobs whose judgement was interrupted
  mishaps

pictureVars == <<image, jobs, calls, flows, reviews, torn, mishaps>>

-----------------------------------------------------------------------------
JobId == 1..MaxJobs
Status == {"pending", "failed", "qa_passed", "qa_rejected", "qa_failed", "escalated_to_human"}
Unmade == [status |-> "none", slide |-> Blank, attempt |-> 1, result |-> FALSE, previous |-> 0]
JobRow == [status : Status \cup {"none"}, slide : Slide \cup {Blank}, attempt : Nat,
           result : BOOLEAN, previous : 0..MaxJobs]

(* `then' is what follows the picture: the judgement goes on with it, or   *)
(* the workflow polls it.                                                  *)
NoRequest == [pc |-> "idle", slide |-> Blank, attempt |-> 1, previous |-> 0, job |-> 0,
         tries |-> 1, then |-> "nothing", flow |-> Blank]
CallState ==
  [pc : {"idle", "row", "generate", "read", "vision", "image", "passed", "rejected",
         "escalated", "qaFailed"},
   slide : Slide \cup {Blank}, attempt : Nat, previous : 0..MaxJobs, job : 0..MaxJobs,
   tries : 1..MaxTries, then : {"nothing", "judge", "poll"}, flow : Workflow \cup {Blank}]
FlowState == [pc : {"idle", "creating", "waiting", "rendering"}, job : 0..MaxJobs]

PictureInit ==
  /\ image = [s \in Slide |-> Blank]
  /\ jobs = [j \in JobId |-> Unmade]
  /\ calls = [c \in Call |-> NoRequest]
  /\ flows = [w \in Workflow |-> [pc |-> "idle", job |-> 0]]
  /\ reviews = [j \in JobId |-> 0]
  /\ torn = {} /\ mishaps = 0

-----------------------------------------------------------------------------
CallAt(c, pc) == calls[c].pc = pc
Goto(c, pc) == calls' = [calls EXCEPT ![c].pc = pc]
Reply(c) == calls' = [calls EXCEPT ![c] = NoRequest]
JobOf(c) == jobs[calls[c].job]
SetStatus(j, status) == jobs' = [jobs EXCEPT ![j].status = status]
Mishap == mishaps < MaxMishaps /\ mishaps' = mishaps + 1

(* The jobs a call may still make, and whether there is room for more: the *)
(* bound on the rows is met before a request begins, never in one.         *)
After(attempt) == IF attempt < MaxAttempts THEN MaxAttempts - attempt ELSE 0
MayMake(call) ==
  CASE call.pc = "row" -> IF call.then = "judge" THEN After(call.attempt) + 1 ELSE 1
    [] call.pc = "generate" -> IF call.then = "judge" THEN After(call.attempt) ELSE 0
    [] call.pc = "read" -> After(jobs[call.job].attempt)
    [] call.pc \in {"vision", "rejected"} -> After(call.attempt)
    [] OTHER -> 0
Room(call) ==
  MayMake(call) + MapThenSumSet(LAMBDA c : MayMake(calls[c]), Call)
    <= Cardinality({j \in JobId : jobs[j] = Unmade})

-----------------------------------------------------------------------------
(* POST /image-generation/jobs, with the attempt the client names; the     *)
(* page asks for the judgement when it has the answer, as any client may.  *)
(* POST of the same by the workflow, for the first slide of its piece.     *)
Begin(c, call) ==
  /\ CallAt(c, "idle") /\ Room(call)
  /\ calls' = [calls EXCEPT ![c] = call]
Asked(s, attempt) == [NoRequest EXCEPT !.pc = "row", !.slide = s, !.attempt = attempt]

AskPicture(c, s, attempt) ==
  /\ Begin(c, Asked(s, attempt))
  /\ UNCHANGED <<image, jobs, flows, reviews, torn, mishaps>>

WorkflowAsks(w, c, s) ==
  /\ flows[w].pc = "idle"
  /\ Begin(c, [Asked(s, 1) EXCEPT !.then = "poll", !.flow = w])
  /\ flows' = [flows EXCEPT ![w].pc = "creating"]
  /\ UNCHANGED <<image, jobs, reviews, torn, mishaps>>

(* The prompt is built, whose own calls fall back when they fail, and the  *)
(* row is stored before the picture is asked for.                          *)
CreateJob(c, j) ==
  /\ CallAt(c, "row")
  /\ jobs[j] = Unmade /\ (j > 1 => jobs[j - 1] # Unmade)
  /\ jobs' = [jobs EXCEPT ![j] =
       [status |-> "pending", slide |-> calls[c].slide, attempt |-> calls[c].attempt,
        result |-> FALSE, previous |-> calls[c].previous]]
  /\ calls' = [calls EXCEPT ![c].pc = "generate", ![c].job = j]
  /\ UNCHANGED <<image, flows, reviews, torn, mishaps>>

(* A picture leaves the status `pending'.  The first form shows it at once.*)
Goes(c, ok) ==
  LET call == calls[c] IN
  /\ calls' = [calls EXCEPT ![c] =
       IF ok /\ call.then = "judge"
         THEN [NoRequest EXCEPT !.pc = "read", !.job = call.job] ELSE NoRequest]
  /\ flows' = IF call.then = "poll"
                THEN [flows EXCEPT ![call.flow] = [pc |-> "waiting", job |-> call.job]] ELSE flows
GeneratedShown(c) ==
  /\ CallAt(c, "generate") /\ Goes(c, TRUE)
  /\ jobs' = [jobs EXCEPT ![calls[c].job].result = TRUE]
  /\ image' = [image EXCEPT ![calls[c].slide] = calls[c].job]
  /\ UNCHANGED <<reviews, torn, mishaps>>
Generated(c) ==
  /\ CallAt(c, "generate") /\ Goes(c, TRUE)
  /\ jobs' = [jobs EXCEPT ![calls[c].job].result = TRUE]
  /\ UNCHANGED <<image, reviews, torn, mishaps>>
GenerationFails(c) ==
  /\ CallAt(c, "generate") /\ Goes(c, FALSE)
  /\ SetStatus(calls[c].job, "failed")
  /\ UNCHANGED <<image, reviews, torn, mishaps>>

-----------------------------------------------------------------------------
(* POST /image-generation/jobs/:id/qa: any job with a picture, whatever    *)
(* its status.                                                             *)
AskJudgement(c, j) ==
  /\ jobs[j] # Unmade /\ MapThenSumSet(LAMBDA i : reviews[i], JobId) < MaxReviews
  /\ Begin(c, [NoRequest EXCEPT !.pc = "read", !.job = j])
  /\ UNCHANGED <<image, jobs, flows, reviews, torn, mishaps>>

ReadJob(c) ==
  LET j == calls[c].job IN
  /\ CallAt(c, "read")
  /\ IF jobs[j].result
       THEN /\ calls' = [calls EXCEPT ![c].pc = "vision", ![c].slide = jobs[j].slide,
                                       ![c].attempt = jobs[j].attempt]
            /\ reviews' = [reviews EXCEPT ![j] = @ + 1]
       ELSE Reply(c) /\ UNCHANGED reviews
  /\ UNCHANGED <<image, jobs, flows, torn, mishaps>>

Decide(c, pc) == calls' = [calls EXCEPT ![c].pc = pc, ![c].tries = 1]

(* The verdict; a rejection of the last attempt goes to a human.           *)
Vision(c, good) ==
  /\ CallAt(c, "vision")
  /\ Decide(c, IF good THEN "image"
               ELSE IF calls[c].attempt < MaxAttempts THEN "rejected" ELSE "escalated")
  /\ UNCHANGED <<image, jobs, flows, reviews, torn, mishaps>>

(* No usable answer: tried again a few times.  The first form never stops. *)
VisionFailsAlways(c) ==
  /\ CallAt(c, "vision")
  /\ calls' = [calls EXCEPT ![c].tries = IF @ = MaxTries THEN 1 ELSE @ + 1]
  /\ UNCHANGED <<image, jobs, flows, reviews, torn, mishaps>>
VisionFails(c) ==
  /\ CallAt(c, "vision")
  /\ IF calls[c].tries = MaxTries THEN Decide(c, "qaFailed")
                                  ELSE calls' = [calls EXCEPT ![c].tries = @ + 1]
  /\ UNCHANGED <<image, jobs, flows, reviews, torn, mishaps>>

(* The slide first, then the job.                                          *)
ShowImage(c) ==
  /\ CallAt(c, "image")
  /\ image' = [image EXCEPT ![calls[c].slide] = calls[c].job]
  /\ Goto(c, "passed")
  /\ UNCHANGED <<jobs, flows, reviews, torn, mishaps>>

Ends(c, pc, status) ==
  /\ CallAt(c, pc)
  /\ SetStatus(calls[c].job, status)
  /\ Reply(c)
  /\ UNCHANGED <<image, flows, reviews, torn, mishaps>>
Passed(c) == Ends(c, "passed", "qa_passed")
Escalated(c) == Ends(c, "escalated", "escalated_to_human")
QaFailed(c) == Ends(c, "qaFailed", "qa_failed")

(* Rejected, and the next attempt begins; the first form does not count it.*)
Again(c, attempt) ==
  /\ CallAt(c, "rejected")
  /\ SetStatus(calls[c].job, "qa_rejected")
  /\ calls' = [calls EXCEPT ![c] =
       [NoRequest EXCEPT !.pc = "row", !.slide = calls[c].slide, !.attempt = attempt,
                    !.previous = calls[c].job, !.then = "judge"]]
  /\ UNCHANGED <<image, flows, reviews, torn, mishaps>>
RejectedUncounted(c) == Again(c, calls[c].attempt)
Rejected(c) == Again(c, calls[c].attempt + 1)

-----------------------------------------------------------------------------
(* A call throws, or the process dies with all of them.  The workflow goes *)
(* on after an error, and finds no pending status in the answer.           *)
Interrupt(dying) ==
  /\ Mishap
  /\ calls' = [c \in Call |-> IF c \in dying THEN NoRequest ELSE calls[c]]
  /\ torn' = torn \cup {calls[c].job : c \in {d \in dying : CallAt(d, "passed")}}
                  \cup {calls[c].previous : c \in {d \in dying : CallAt(d, "row") \/ CallAt(d, "generate")}}
  /\ flows' = [w \in Workflow |->
       IF \E c \in dying : calls[c].flow = w THEN [flows[w] EXCEPT !.pc = "rendering"]
                                             ELSE flows[w]]
  /\ UNCHANGED <<image, jobs, reviews>>
CallFails(c) == ~CallAt(c, "idle") /\ Interrupt({c})
Crash == (\E c \in Call : ~CallAt(c, "idle")) /\ Interrupt(Call)

(* The workflow waits ten seconds, reads the job, and waits again while it *)
(* is pending; then it renders and goes on to its next piece.              *)
Poll(w) ==
  /\ flows[w].pc = "waiting" /\ jobs[flows[w].job].status # "pending"
  /\ flows' = [flows EXCEPT ![w].pc = "rendering"]
  /\ UNCHANGED <<image, jobs, calls, reviews, torn, mishaps>>

PollFails(w) ==
  /\ flows[w].pc = "waiting" /\ Mishap
  /\ flows' = [flows EXCEPT ![w].pc = "rendering"]
  /\ UNCHANGED <<image, jobs, calls, reviews, torn>>

Render(w) ==
  /\ flows[w].pc = "rendering"
  /\ flows' = [flows EXCEPT ![w] = [pc |-> "idle", job |-> 0]]
  /\ UNCHANGED <<image, jobs, calls, reviews, torn, mishaps>>

(* uploadSlideImage.                                                       *)
Upload(s) ==
  /\ image[s] # Own
  /\ image' = [image EXCEPT ![s] = Own]
  /\ UNCHANGED <<jobs, calls, flows, reviews, torn, mishaps>>

-----------------------------------------------------------------------------
Server(c) ==
  \/ \E j \in JobId : CreateJob(c, j)
  \/ Generated(c) \/ GenerationFails(c)
  \/ ReadJob(c)
  \/ \E good \in BOOLEAN : Vision(c, good)
  \/ VisionFails(c)
  \/ ShowImage(c) \/ Passed(c) \/ Rejected(c) \/ Escalated(c) \/ QaFailed(c)

PictureNext ==
  \/ \E c \in Call, s \in Slide, attempt \in Asks : AskPicture(c, s, attempt)
  \/ \E c \in Call, j \in JobId : AskJudgement(c, j)
  \/ \E w \in Workflow, c \in Call, s \in Slide : WorkflowAsks(w, c, s)
  \/ \E c \in Call : Server(c) \/ CallFails(c)
  \/ Crash
  \/ \E w \in Workflow : Poll(w) \/ PollFails(w) \/ Render(w)
  \/ \E s \in Slide : Upload(s)

(* The server goes on with the calls it has, n8n with its executions.      *)
Fairness ==
  /\ \A c \in Call : WF_pictureVars(Server(c))
  /\ \A w \in Workflow : WF_pictureVars(Poll(w)) /\ WF_pictureVars(Render(w))

PictureSpec == PictureInit /\ [][PictureNext]_pictureVars /\ Fairness

-----------------------------------------------------------------------------
(* The types of the variables.                                             *)
PictureTypeOK ==
  /\ image \in [Slide -> JobId \cup {Blank, Own}]
  /\ jobs \in [JobId -> JobRow]
  /\ calls \in [Call -> CallState]
  /\ flows \in [Workflow -> FlowState]
  /\ reviews \in [JobId -> Nat]
  /\ torn \subseteq 0..MaxJobs /\ mishaps \in Nat

(* The picture on a slide is one whose job passed, or is about to, unless  *)
(* the job was judged more than once or its judgement was cut off (spec    *)
(* 018, CA-05: never an image that was rejected).                          *)
ShownHasPassed ==
  \A s \in Slide : image[s] \in JobId =>
    LET j == image[s] IN
      \/ jobs[j].status = "qa_passed" /\ jobs[j].slide = s
      \/ \E c \in Call : CallAt(c, "passed") /\ calls[c].job = j
      \/ reviews[j] > 1 \/ j \in torn

(* Rejected pictures are followed by the next attempt, as often as they    *)
(* were judged, and never past the third (spec 018, CA-02 and CA-03); what *)
(* is rejected has a successor, or a call that is at it.                   *)
AttemptsFollow ==
  /\ \A j \in JobId : jobs[j].previous # 0 =>
       LET p == jobs[j].previous IN
         /\ jobs[j].attempt = jobs[p].attempt + 1 /\ jobs[j].attempt <= MaxAttempts
         /\ jobs[j].slide = jobs[p].slide
         /\ Cardinality({i \in JobId : jobs[i].previous = p}) <= reviews[p]
  /\ \A j \in JobId \ torn : jobs[j].status = "qa_rejected" =>
       \/ \E i \in JobId : jobs[i].previous = j
       \/ \E c \in Call : calls[c].previous = j

(* Every request is answered, with all the attempts it makes on the way,   *)
(* whatever the two models answer.                                         *)
EveryCallEnds == \A c \in Call : ~CallAt(c, "idle") ~> CallAt(c, "idle")
=============================================================================
