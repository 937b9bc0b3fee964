------------------------- MODULE InstagramAutomation -------------------------
(***************************************************************************)
(* Automations of Instagram (apps/api/src/instagram-automation): the       *)
(* webhook of Meta starts a run of every flow an event triggers, and a     *)
(* worker takes the run through the steps of its flow, one job per step.   *)
(*                                                                         *)
(* A flow is its list of steps; what they say, and the delay of a `wait',  *)
(* are left out.  Runs and jobs are numbered as they are made.  A job      *)
(* knows the number of its step, and reads the step when it runs.          *)
(***************************************************************************)
EXTENDS Integers, FiniteSets, Sequences, JobQueue

CONSTANTS
  Flow,
  Event,          \* comments, messages and replies that trigger the flows
  Hook,           \* webhook requests in progress
  MaxRuns, MaxJobs,
  Script,         \* lists of steps a flow may have
  Concurrency,    \* jobs one worker takes at a time
  Nil,
  MaxDeliveries,  \* bound on the deliveries of one event
  MaxEdits,       \* bound on edits of flows and changes of the add-on
  MaxMishaps      \* bound on failures and crashes

Step == {"send", "tag", "wait"}

ASSUME AutomationAssumption ==
  /\ Script \subseteq Seq(Step) \ {<<>>} /\ Script # {}
  /\ {MaxRuns, MaxJobs, Concurrency, MaxDeliveries, MaxEdits, MaxMishaps} \subseteq Nat
  /\ IsFiniteSet(Hook) /\ Nil \notin Flow \cup Event

VARIABLES
  workspace,      \* whether the workspace is there, and all that hangs on it
  addon,          \* instagram_automation is active
  active, steps,  \* automation_flows and automation_flow_steps
  runs,           \* automation_runs
  queue, jobs,    \* the queue, and what its jobs carry
  hooks,
  deliveries,     \* how often Meta delivered an event
  sent,           \* history: the steps whose message a run sent, in order
  edited,         \* history: runs whose flow was edited while they were pending
  forked,         \* history: runs that may have two jobs, or a job that acted twice
  lost,           \* history: runs whose last job ended with an error
  edits, mishaps

flows == <<workspace, addon, active, steps>>
history == <<sent, edited, forked, lost>>
vars == <<flows, runs, queue, jobs, hooks, deliveries, history, edits, mishaps>>

-----------------------------------------------------------------------------
RunId == 1..MaxRuns
JobId == 1..MaxJobs
Unborn == [status |-> "none", flow |-> Nil, event |-> Nil]
RunRow == [status : {"none", "pending", "completed", "failed"},
           flow : Flow \cup {Nil}, event : Event \cup {Nil}]
NoJob == [run |-> 0, order |-> 1, pc |-> "step", step |-> "wait"]
Job == [run : 0..MaxRuns, order : Nat,
        pc : {"step", "account", "act", "add", "added", "complete", "fail", "over"},
        step : Step]
Waiting == [pc |-> "idle", events |-> {}, event |-> Nil, flows |-> {}, run |-> 0]
HookState == [pc : {"idle", "next", "addon", "match", "create", "add"}, events : SUBSET Event,
              event : Event \cup {Nil}, flows : SUBSET Flow, run : 0..MaxRuns]

Init ==
  /\ workspace = TRUE /\ addon = TRUE
  /\ active = [f \in Flow |-> TRUE] /\ steps \in [Flow -> Script]
  /\ runs = [r \in RunId |-> Unborn]
  /\ queue = [j \in JobId |-> "none"] /\ jobs = [j \in JobId |-> NoJob]
  /\ hooks = [h \in Hook |-> Waiting]
  /\ deliveries = [e \in Event |-> 0]
  /\ sent = [r \in RunId |-> <<>>]
  /\ edited = {} /\ forked = {} /\ lost = {}
  /\ edits = 0 /\ mishaps = 0

-----------------------------------------------------------------------------
Live(j) == queue[j] \in {"waiting", "active", "stalled"}
FreeJob == CHOOSE j \in JobId : ~Live(j)
Mishap == mishaps < MaxMishaps /\ mishaps' = mishaps + 1

(* queue.add names no jobId, so it always adds a job, and one that is over *)
(* leaves nothing that is asked for again.                                 *)
AddJob(table, r, k) ==
  /\ \E j \in JobId : ~Live(j)
  /\ queue' = QueueAdd(queue, FreeJob)
  /\ jobs' = [table EXCEPT ![FreeJob] = [NoJob EXCEPT !.run = r, !.order = k]]

-----------------------------------------------------------------------------
(* processPayload: the events of a delivery one after the other; Meta      *)
(* delivers again what was not answered, or answered late.                 *)
HookAt(h, pc) == hooks[h].pc = pc
HookGoto(h, pc) == hooks' = [hooks EXCEPT ![h].pc = pc]
HookOnly == UNCHANGED <<flows, runs, queue, jobs, deliveries, history, edits, mishaps>>

Receive(h, batch) ==
  /\ HookAt(h, "idle") /\ batch # {}
  /\ \A e \in batch : deliveries[e] < MaxDeliveries
  /\ hooks' = [hooks EXCEPT ![h] = [Waiting EXCEPT !.pc = "next", !.events = batch]]
  /\ deliveries' = [e \in Event |-> IF e \in batch THEN deliveries[e] + 1 ELSE deliveries[e]]
  /\ UNCHANGED <<flows, runs, queue, jobs, history, edits, mishaps>>

(* The account of the event is looked up, then the add-on, then the        *)
(* matching flows that are active.                                         *)
NextEvent(h) ==
  /\ HookAt(h, "next")
  /\ \/ \E e \in hooks[h].events :
          hooks' = [hooks EXCEPT ![h].pc = IF workspace THEN "addon" ELSE "next",
                                 ![h].events = @ \ {e}, ![h].event = e]
     \/ hooks[h].events = {} /\ hooks' = [hooks EXCEPT ![h] = Waiting]
  /\ HookOnly

ReadAddon(h) ==
  /\ HookAt(h, "addon")
  /\ HookGoto(h, IF workspace /\ addon THEN "match" ELSE "next")
  /\ HookOnly

FindMatchingFlows(h) ==
  /\ HookAt(h, "match")
  /\ \E triggered \in SUBSET Flow :
       hooks' = [hooks EXCEPT ![h].pc = "create",
                  ![h].flows = {f \in triggered : workspace /\ active[f]}]
  /\ HookOnly

(* The run is stored before its first job is added.                        *)
CreateRun(h, f, r) ==
  /\ HookAt(h, "create") /\ f \in hooks[h].flows
  /\ workspace
  /\ runs[r] = Unborn /\ (r > 1 => runs[r - 1] # Unborn)
  /\ runs' = [runs EXCEPT ![r] = [status |-> "pending", flow |-> f, event |-> hooks[h].event]]
  /\ hooks' = [hooks EXCEPT ![h].pc = "add", ![h].flows = @ \ {f}, ![h].run = r]
  /\ UNCHANGED <<flows, queue, jobs, deliveries, history, edits, mishaps>>

Enqueue(h) ==
  /\ HookAt(h, "add")
  /\ AddJob(jobs, hooks[h].run, 1)
  /\ hooks' = [hooks EXCEPT ![h].pc = "create", ![h].run = 0]
  /\ UNCHANGED <<flows, runs, deliveries, history, edits, mishaps>>

Enqueued(h) ==
  /\ HookAt(h, "create") /\ hooks[h].flows = {}
  /\ HookGoto(h, "next")
  /\ HookOnly

(* A call throws: the answer is an error, and what was done stays done.    *)
HookFails(h) ==
  /\ Mishap \/ (~workspace /\ HookAt(h, "create") /\ hooks[h].flows # {} /\ UNCHANGED mishaps)
  /\ ~HookAt(h, "idle")
  /\ hooks' = [hooks EXCEPT ![h] = Waiting]
  /\ lost' = IF HookAt(h, "add") THEN lost \cup {hooks[h].run} ELSE lost
  /\ UNCHANGED <<flows, runs, queue, jobs, deliveries, sent, edited, forked, edits>>

-----------------------------------------------------------------------------
(* FlowExecutorProcessor.process, for the step the job names.              *)
JobAt(j, pc) == queue[j] = "active" /\ jobs[j].pc = pc
JobGoto(j, pc) == jobs' = [jobs EXCEPT ![j].pc = pc]
JobOnly == UNCHANGED <<flows, runs, hooks, deliveries, edits>>
FlowOf(j) == runs[jobs[j].run].flow

Take(j) ==
  /\ queue[j] = "waiting"
  /\ Cardinality({i \in JobId : queue[i] = "active"}) < Concurrency
  /\ queue' = QueueTake(queue, j)
  /\ jobs' = [jobs EXCEPT ![j].pc = "step"]
  /\ JobOnly /\ UNCHANGED <<history, mishaps>>

ReadStep(j) ==
  LET script == steps[FlowOf(j)]  k == jobs[j].order IN
  /\ JobAt(j, "step")
  /\ jobs' = IF k \in DOMAIN script
               THEN [jobs EXCEPT ![j].pc = "account", ![j].step = script[k]]
               ELSE [jobs EXCEPT ![j].pc = "complete"]
  /\ JobOnly /\ UNCHANGED <<queue, history, mishaps>>

ReadAccount(j) ==
  /\ JobAt(j, "account")
  /\ JobGoto(j, IF workspace THEN "act" ELSE "fail")
  /\ JobOnly /\ UNCHANGED <<queue, history, mishaps>>

(* A message is sent, a tag is recorded, or nothing at all is done.        *)
Execute(j) ==
  LET r == jobs[j].run IN
  /\ JobAt(j, "act")
  /\ sent' = IF jobs[j].step = "send" THEN [sent EXCEPT ![r] = Append(@, jobs[j].order)] ELSE sent
  /\ JobGoto(j, "add")
  /\ JobOnly /\ UNCHANGED <<queue, edited, forked, lost, mishaps>>

(* The handler throws before anything is sent, or the answer of Meta is    *)
(* an error, which the first form passes over; or the queue throws,        *)
(* whether or not it took the job.                                         *)
ExecuteThrows(j, pc) ==
  /\ JobAt(j, "act") /\ Mishap
  /\ jobs[j].step # "wait"
  /\ JobGoto(j, pc)
  /\ JobOnly /\ UNCHANGED <<queue, history>>
ExecuteGoesOn(j) == ExecuteThrows(j, "add")
ExecuteFails(j) == ExecuteThrows(j, "fail")

AddFails(j) ==
  /\ JobAt(j, "add") /\ Mishap
  /\ \/ JobGoto(j, "fail") /\ UNCHANGED <<queue, forked>>
     \/ /\ AddJob([jobs EXCEPT ![j].pc = "fail"], jobs[j].run, jobs[j].order + 1)
        /\ forked' = forked \cup {jobs[j].run}
  /\ JobOnly /\ UNCHANGED <<sent, edited, lost>>

(* The job of the next step is added; the first form adds that of the same *)
(* step.                                                                   *)
AddsNext(j, k) ==
  /\ JobAt(j, "add")
  /\ AddJob([jobs EXCEPT ![j].pc = "added"], jobs[j].run, k)
  /\ JobOnly /\ UNCHANGED <<history, mishaps>>
AddSameStep(j) == jobs[j].order < 3 /\ AddsNext(j, jobs[j].order)
AddNext(j) == AddsNext(j, jobs[j].order + 1)

(* No step left, or a step failed, of which the first form only takes note *)
(* in the log.  The row is gone with its workspace, and then the job fails *)
(* as well.                                                                *)
Ends(j, pc, status) ==
  /\ JobAt(j, pc)
  /\ runs' = IF workspace THEN [runs EXCEPT ![jobs[j].run].status = status] ELSE runs
  /\ JobGoto(j, "over")
  /\ UNCHANGED <<flows, queue, hooks, deliveries, history, edits, mishaps>>
Complete(j) == Ends(j, "complete", "completed")
LogFailed(j) == Ends(j, "fail", "pending")
MarkFailed(j) == Ends(j, "fail", "failed")

(* BullMQ finishes a job once its processor has returned; until then the   *)
(* job is one that a crash leaves behind.                                  *)
Drop(j) ==
  /\ queue' = [queue EXCEPT ![j] = "none"]
  /\ jobs' = [jobs EXCEPT ![j] = NoJob]
Finish(j) ==
  /\ JobAt(j, "added") \/ JobAt(j, "over")
  /\ Drop(j)
  /\ JobOnly /\ UNCHANGED <<history, mishaps>>

(* A read or write outside the try throws: BullMQ fails the job, of which  *)
(* there is only one attempt.                                              *)
JobFails(j) ==
  /\ queue[j] = "active" /\ jobs[j].pc \in {"step", "account", "complete", "fail"}
  /\ Mishap
  /\ Drop(j)
  /\ lost' = lost \cup {jobs[j].run}
  /\ JobOnly /\ UNCHANGED <<sent, edited, forked>>

(* The process dies with its requests and the jobs its worker holds.  The  *)
(* stalled ones are run again, from their start, or failed.                *)
Crash ==
  /\ Mishap
  /\ queue' = QueueOrphan(queue)
  /\ hooks' = [h \in Hook |-> Waiting]
  /\ lost' = lost \cup {hooks[h].run : h \in {g \in Hook : HookAt(g, "add")}}
  /\ UNCHANGED <<flows, runs, jobs, deliveries, sent, edited, forked, edits>>

(* The message of the job's step is out already.                           *)
HasSent(j) ==
  LET r == jobs[j].run IN \E i \in DOMAIN sent[r] : sent[r][i] = jobs[j].order
Restalled(j) ==
  LET r == jobs[j].run IN
  /\ queue[j] = "stalled"
  /\ \/ /\ queue' = [queue EXCEPT ![j] = "waiting"]
        /\ jobs' = [jobs EXCEPT ![j].pc = "step"]
        /\ forked' = IF jobs[j].pc = "added" \/ HasSent(j) THEN forked \cup {r} ELSE forked
        /\ UNCHANGED lost
     \/ /\ Drop(j)
        /\ lost' = IF jobs[j].pc \in {"added", "over"} THEN lost ELSE lost \cup {r}
        /\ UNCHANGED forked
  /\ JobOnly /\ UNCHANGED <<sent, edited, mishaps>>

-----------------------------------------------------------------------------
(* update replaces the steps of a flow in one transaction, whatever runs   *)
(* of it are under way.                                                    *)
UpdateFlow(f, script, isActive) ==
  /\ workspace /\ edits < MaxEdits /\ edits' = edits + 1
  /\ <<script, isActive>> # <<steps[f], active[f]>>
  /\ steps' = [steps EXCEPT ![f] = script] /\ active' = [active EXCEPT ![f] = isActive]
  /\ edited' = IF script = steps[f] THEN edited
               ELSE edited \cup {r \in RunId : runs[r].flow = f}
  /\ UNCHANGED <<workspace, addon, runs, queue, jobs, hooks, deliveries, sent, forked, lost, mishaps>>

AddonChanges ==
  /\ workspace /\ edits < MaxEdits /\ edits' = edits + 1
  /\ addon' = ~addon
  /\ UNCHANGED <<workspace, active, steps, runs, queue, jobs, hooks, deliveries, history, mishaps>>

(* Flows, runs and account go with the workspace; the jobs stay.           *)
WorkspaceDeleted ==
  /\ workspace /\ edits < MaxEdits /\ edits' = edits + 1
  /\ workspace' = FALSE
  /\ steps' = [f \in Flow |-> <<>>]
  /\ UNCHANGED <<addon, active, runs, queue, jobs, hooks, deliveries, history, mishaps>>

-----------------------------------------------------------------------------
Webhook(h) ==
  \/ NextEvent(h) \/ ReadAddon(h) \/ FindMatchingFlows(h)
  \/ \E f \in Flow, r \in RunId : CreateRun(h, f, r)
  \/ Enqueue(h) \/ Enqueued(h)

Worker(j) ==
  \/ Take(j) \/ ReadStep(j) \/ ReadAccount(j) \/ Execute(j)
  \/ AddNext(j) \/ Complete(j) \/ MarkFailed(j) \/ Finish(j)

Next ==
  \/ \E h \in Hook, batch \in SUBSET Event : Receive(h, batch)
  \/ \E h \in Hook : Webhook(h) \/ HookFails(h)
  \/ \E j \in JobId : Worker(j) \/ Restalled(j)
  \/ \E j \in JobId : ExecuteFails(j) \/ AddFails(j) \/ JobFails(j)
  \/ Crash
  \/ \E f \in Flow, script \in Script, isActive \in BOOLEAN : UpdateFlow(f, script, isActive)
  \/ AddonChanges \/ WorkspaceDeleted

(* The server goes on with the requests it has, the worker with the jobs,  *)
(* and BullMQ looks for stalled jobs on a timer.                           *)
Fairness ==
  /\ \A h \in Hook : WF_vars(Webhook(h))
  /\ \A j \in JobId : WF_vars(Worker(j)) /\ WF_vars(Restalled(j))

Spec == Init /\ [][Next]_vars /\ Fairness

-----------------------------------------------------------------------------
(* The types of the variables.                                             *)
TypeOK ==
  /\ workspace \in BOOLEAN /\ addon \in BOOLEAN
  /\ active \in [Flow -> BOOLEAN] /\ steps \in [Flow -> Script \cup {<<>>}]
  /\ runs \in [RunId -> RunRow]
  /\ queue \in [JobId -> JobState] /\ jobs \in [JobId -> Job]
  /\ hooks \in [Hook -> HookState]
  /\ deliveries \in [Event -> Nat]
  /\ sent \in [RunId -> Seq(Nat)]
  /\ edited \subseteq RunId /\ forked \subseteq RunId /\ lost \subseteq RunId
  /\ edits \in Nat /\ mishaps \in Nat

(* Of one flow, a contact gets a message at most once for each delivery of *)
(* its event, unless a job that had sent it was run twice: a retry of Meta *)
(* repeats the conversation, nothing else does.                            *)
AnswersOf(e, f) == {r \in RunId : runs[r].event = e /\ runs[r].flow = f}
Sends(r, k) == Cardinality({i \in DOMAIN sent[r] : sent[r][i] = k})
AnswersOncePerDelivery ==
  /\ \A e \in Event, f \in Flow : Cardinality(AnswersOf(e, f)) <= deliveries[e]
  /\ \A r \in RunId \ forked : \A i, k \in DOMAIN sent[r] : i < k => sent[r][i] < sent[r][k]

(* A run that is completed sent every message of its flow, in their order, *)
(* unless the flow was edited on the way or a job was run twice (spec 054, *)
(* CA-01 and CA-02).                                                       *)
CompletedSaidAll ==
  \A r \in RunId \ (edited \cup forked) :
    runs[r].status = "completed" /\ workspace
      => \A k \in DOMAIN steps[runs[r].flow] :
           steps[runs[r].flow][k] = "send" => \E i \in DOMAIN sent[r] : sent[r][i] = k

(* A run that was started ends, completed or failed, unless the webhook or *)
(* a job of it died outside the handler's try, or the workspace is gone.   *)
EveryRunEnds ==
  \A r \in RunId : runs[r].status = "pending" ~>
    (runs[r].status \in {"completed", "failed"} \/ r \in lost \/ ~workspace)
=============================================================================
