----------------------- MODULE InstagramAutomationProofs -----------------------
(***************************************************************************)
(* Theorems about InstagramAutomation, for every set of flows, events and  *)
(* webhook requests, every flow of any length, and any number of           *)
(* deliveries, jobs at a time, edits and faults.                           *)
(***************************************************************************)
EXTENDS InstagramAutomation, FiniteSetTheorems, TLAPS

USE AutomationAssumption DEF AutomationAssumption

Born(r) == runs[r].status # "none"

(* What the other parts take for granted of the rows and of what names     *)
(* them: jobs and requests are about runs that exist, a job that waits is  *)
(* at its start, a run that does not exist said nothing.                   *)
TypeInv ==
  /\ TypeOK
  /\ \A j \in JobId : queue[j] # "done" /\ jobs[j].order > 0
LinkInv ==
  /\ \A r \in RunId : Born(r) => runs[r].flow \in Flow /\ runs[r].event \in Event
  /\ \A r \in RunId : ~Born(r) => runs[r].event = Nil /\ sent[r] = <<>>
  /\ \A j \in JobId : Live(j) => jobs[j].run # 0 /\ Born(jobs[j].run)
  /\ \A j \in JobId : queue[j] = "waiting" => jobs[j].pc = "step"
  /\ \A h \in Hook : HookAt(h, "add") => hooks[h].run # 0 /\ Born(hooks[h].run)

(* The runs of a flow for an event, and the requests that may still start  *)
(* one, are at most the deliveries of the event: a request owes a flow one *)
(* run of each event it has not come to, and of the one it is at until     *)
(* the run is stored.                                                      *)
Begun == {"addon", "match", "create", "add"}
Owes(h, e, f) ==
  \/ e \in hooks[h].events
  \/ /\ hooks[h].event = e
     /\ hooks[h].pc \in {"addon", "match"} \/ (hooks[h].pc \in {"create", "add"} /\ f \in hooks[h].flows)
Owed(e, f) == {h \in Hook : Owes(h, e, f)}
DeliveryInv ==
  /\ \A h \in Hook : hooks[h].pc \in Begun => hooks[h].event \in Event \ hooks[h].events
  /\ \A e \in Event, f \in Flow :
       Cardinality(AnswersOf(e, f)) + Cardinality(Owed(e, f)) <= deliveries[e]

(* A run that is not forked is in one place: with the request that stored  *)
(* it and has not added its job, or with one job whose successor is not    *)
(* there yet.                                                              *)
Carries(j, r) == Live(j) /\ jobs[j].run = r /\ jobs[j].pc # "added"
Starts(h, r) == HookAt(h, "add") /\ hooks[h].run = r
OneInv ==
  \A r \in RunId \ forked :
    /\ \A i, j \in JobId : Carries(i, r) /\ Carries(j, r) => i = j
    /\ \A h \in Hook : Starts(h, r) =>
         /\ sent[r] = <<>>
         /\ \A g \in Hook : Starts(g, r) => g = h
         /\ \A j \in JobId : ~Carries(j, r)

(* What such a run sent is in order, and before the step of its job, which *)
(* it has sent as well once that step is behind the job.                   *)
Increasing(s) == \A i, k \in DOMAIN s : i < k => s[i] < s[k]
OrderInv ==
  \A r \in RunId \ forked :
    /\ Increasing(sent[r])
    /\ \A j \in JobId : Carries(j, r) => \A i \in DOMAIN sent[r] :
         \/ sent[r][i] < jobs[j].order
         \/ sent[r][i] = jobs[j].order /\ jobs[j].pc \in {"add", "fail", "over"}

(* While the workspace is there, a job of a run whose flow nobody edited   *)
(* has the messages of all earlier steps behind it, holds the step it      *)
(* read, and comes to its end only past the last one.                      *)
ScriptOf(r) == steps[runs[r].flow]
Said(r, k) == \E i \in DOMAIN sent[r] : sent[r][i] = k
Done(j, k) == k < jobs[j].order \/ (k = jobs[j].order /\ jobs[j].pc = "add")
UpToDate(j) ==
  LET r == jobs[j].run IN
  /\ \A k \in DOMAIN ScriptOf(r) : ScriptOf(r)[k] = "send" /\ Done(j, k) => Said(r, k)
  /\ jobs[j].pc \in {"account", "act"} /\ jobs[j].order \in DOMAIN ScriptOf(r)
       => jobs[j].step = ScriptOf(r)[jobs[j].order]
  /\ jobs[j].pc = "complete" => jobs[j].order \notin DOMAIN ScriptOf(r)
SaidInv ==
  workspace => \A j \in JobId :
    Live(j) /\ jobs[j].run \notin edited \cup forked => UpToDate(j)

IInv == TypeInv /\ LinkInv /\ DeliveryInv /\ OneInv /\ OrderInv /\ SaidInv /\ CompletedSaidAll

-----------------------------------------------------------------------------
(* What the actions do to one job, and to no other.                        *)
Pc == {"step", "account", "act", "add", "added", "complete", "fail", "over"}
Alone(j) == \A i \in JobId \ {j} : jobs'[i] = jobs[i]
Same(j) == jobs'[j].run = jobs[j].run /\ jobs'[j].order = jobs[j].order
JobsFit == jobs' \in [JobId -> Job]

LEMMA JobFields ==
  ASSUME TypeOK, NEW j \in JobId
  PROVE  /\ jobs[j] \in Job /\ jobs[j].run \in 0..MaxRuns /\ jobs[j].order \in Nat
         /\ jobs[j].pc \in Pc /\ jobs[j].step \in Step /\ queue[j] \in JobState
  BY DEF TypeOK, Job, Pc

LEMMA GotoFields ==
  ASSUME TypeOK, NEW j \in JobId, NEW pc \in Pc, JobGoto(j, pc)
  PROVE  /\ JobsFit /\ Alone(j) /\ Same(j)
         /\ jobs'[j].pc = pc /\ jobs'[j].step = jobs[j].step
<1>1. jobs[j] \in Job /\ jobs \in [JobId -> Job]
  BY DEF TypeOK
<1> DEFINE s == [jobs[j] EXCEPT !.pc = pc]
<1>2. /\ s \in Job /\ s.pc = pc /\ s.run = jobs[j].run /\ s.order = jobs[j].order
      /\ s.step = jobs[j].step
  BY <1>1 DEF Job, Pc
<1>3. jobs' = [jobs EXCEPT ![j] = s]
  BY DEF JobGoto
<1> HIDE DEF s
<1> QED
  BY <1>1, <1>2, <1>3 DEF JobsFit, Alone, Same

LEMMA ReadFields ==
  ASSUME TypeOK, NEW j \in JobId, NEW k \in Step,
         jobs' = [jobs EXCEPT ![j].pc = "account", ![j].step = k]
  PROVE  /\ JobsFit /\ Alone(j) /\ Same(j)
         /\ jobs'[j].pc = "account" /\ jobs'[j].step = k
<1>1. jobs[j] \in Job /\ jobs \in [JobId -> Job]
  BY DEF TypeOK
<1> DEFINE s == [jobs[j] EXCEPT !.pc = "account", !.step = k]
<1>2. /\ s \in Job /\ s.pc = "account" /\ s.run = jobs[j].run /\ s.order = jobs[j].order
      /\ s.step = k
  BY <1>1 DEF Job, Pc
<1>3. jobs' = [jobs EXCEPT ![j] = s]
  OBVIOUS
<1> HIDE DEF s
<1> QED
  BY <1>1, <1>2, <1>3 DEF JobsFit, Alone, Same

LEMMA NoJobFields ==
  /\ NoJob \in Job /\ NoJob.run = 0 /\ NoJob.pc = "step" /\ NoJob.order = 1
  BY DEF NoJob, Job, Step

LEMMA DropFields ==
  ASSUME TypeOK, NEW j \in JobId, Drop(j)
  PROVE  /\ JobsFit /\ Alone(j) /\ jobs'[j] = NoJob
         /\ queue' = [queue EXCEPT ![j] = "none"]
  BY NoJobFields DEF TypeOK, Drop, JobsFit, Alone

(* A new job takes the place of one that is no more.                       *)
NewJob(i, r, k) ==
  /\ ~Live(i)
  /\ queue' = [queue EXCEPT ![i] = "waiting"]
  /\ jobs'[i].run = r /\ jobs'[i].order = k /\ jobs'[i].pc = "step"

LEMMA AddFields ==
  ASSUME TypeInv, NEW table \in [JobId -> Job],
         NEW r \in RunId, NEW k \in Nat \ {0}, AddJob(table, r, k)
  PROVE  \E i \in JobId : /\ NewJob(i, r, k) /\ JobsFit
                          /\ \A l \in JobId \ {i} : jobs'[l] = table[l]
<1>1. PICK i \in JobId : i = FreeJob /\ ~Live(i)
  BY DEF AddJob, FreeJob
<1> DEFINE s == [NoJob EXCEPT !.run = r, !.order = k]
<1>2. s \in Job /\ s.run = r /\ s.order = k /\ s.pc = "step"
  <2>1. r \in 0..MaxRuns /\ k \in Nat
    BY DEF RunId
  <2>2. NoJob \in [run : {0}, order : {1}, pc : {"step"}, step : {"wait"}]
    BY DEF NoJob
  <2>3. s \in [run : {r}, order : {k}, pc : {"step"}, step : {"wait"}]
    BY <2>2
  <2> HIDE DEF s
  <2> QED
    BY <2>1, <2>3 DEF Job, Step
<1>3. jobs' = [table EXCEPT ![i] = s]
  BY <1>1 DEF AddJob
<1> HIDE DEF s
<1>4. queue[i] = "none"
  BY <1>1 DEF TypeInv, TypeOK, Live, JobState
<1>5. queue' = [queue EXCEPT ![i] = "waiting"]
  BY <1>1, <1>4 DEF AddJob, QueueAdd
<1>6. jobs' \in [JobId -> Job] /\ jobs'[i] = s /\ \A l \in JobId \ {i} : jobs'[l] = table[l]
  BY <1>2, <1>3
<1> QED
  BY <1>1, <1>2, <1>5, <1>6 DEF NewJob, JobsFit

(* The same after the job before it has moved on.                          *)
LEMMA AddNextFields ==
  ASSUME TypeInv, NEW j \in JobId, Live(j), NEW pc \in Pc,
         jobs[j].run # 0,
         AddJob([jobs EXCEPT ![j].pc = pc], jobs[j].run, jobs[j].order + 1)
  PROVE  \E i \in JobId \ {j} :
            /\ NewJob(i, jobs[j].run, jobs[j].order + 1) /\ JobsFit
            /\ Same(j) /\ jobs'[j].pc = pc
            /\ \A l \in JobId \ {i, j} : jobs'[l] = jobs[l]
<1>1. jobs[j] \in Job /\ jobs \in [JobId -> Job] /\ jobs[j].run \in RunId
      /\ jobs[j].order + 1 \in Nat \ {0}
  BY JobFields DEF TypeInv, TypeOK, RunId
<1> DEFINE s == [jobs[j] EXCEPT !.pc = pc]
           table == [jobs EXCEPT ![j] = s]
<1>2. s \in Job /\ s.pc = pc /\ s.run = jobs[j].run /\ s.order = jobs[j].order
  BY <1>1 DEF Job, Pc
<1>3. AddJob(table, jobs[j].run, jobs[j].order + 1)
  OBVIOUS
<1> HIDE DEF s
<1>4. table \in [JobId -> Job] /\ table[j] = s /\ \A l \in JobId \ {j} : table[l] = jobs[l]
  BY <1>1, <1>2
<1> HIDE DEF table
<1>5. PICK i \in JobId : /\ NewJob(i, jobs[j].run, jobs[j].order + 1) /\ JobsFit
                         /\ \A l \in JobId \ {i} : jobs'[l] = table[l]
  BY <1>1, <1>3, <1>4, AddFields
<1>6. ~(i = j)
  BY <1>5 DEF NewJob
<1> QED
  BY <1>2, <1>4, <1>5, <1>6 DEF Same

(* What they do to one request, and to no other.                           *)
HookPc == {"idle", "next", "addon", "match", "create", "add"}
Apart(h) == \A g \in Hook \ {h} : hooks'[g] = hooks[g]
HooksFit == hooks' \in [Hook -> HookState]

LEMMA HookFields ==
  ASSUME TypeOK, NEW h \in Hook
  PROVE  /\ hooks[h] \in HookState /\ hooks[h].pc \in HookPc /\ hooks[h].run \in 0..MaxRuns
         /\ hooks[h].events \subseteq Event /\ hooks[h].flows \subseteq Flow
         /\ hooks[h].event \in Event \cup {Nil}
  BY DEF TypeOK, HookState, HookPc

LEMMA WaitingFields ==
  Waiting \in HookState /\ Waiting.pc = "idle" /\ Waiting.events = {}
  BY DEF Waiting, HookState

LEMMA HookGotoFields ==
  ASSUME TypeOK, NEW h \in Hook, NEW pc \in HookPc, HookGoto(h, pc)
  PROVE  /\ HooksFit /\ Apart(h) /\ hooks'[h].pc = pc
         /\ hooks'[h].events = hooks[h].events /\ hooks'[h].event = hooks[h].event
         /\ hooks'[h].flows = hooks[h].flows /\ hooks'[h].run = hooks[h].run
<1>1. hooks[h] \in HookState /\ hooks \in [Hook -> HookState]
  BY DEF TypeOK
<1> DEFINE s == [hooks[h] EXCEPT !.pc = pc]
<1>2. /\ s \in HookState /\ s.pc = pc /\ s.events = hooks[h].events
      /\ s.event = hooks[h].event /\ s.flows = hooks[h].flows /\ s.run = hooks[h].run
  BY <1>1 DEF HookState, HookPc
<1>3. hooks' = [hooks EXCEPT ![h] = s]
  BY DEF HookGoto
<1> HIDE DEF s
<1> QED
  BY <1>1, <1>2, <1>3 DEF HooksFit, Apart

LEMMA ReceiveFields ==
  ASSUME TypeOK, NEW h \in Hook, NEW batch \in SUBSET Event, Receive(h, batch)
  PROVE  /\ HooksFit /\ Apart(h) /\ hooks'[h].pc = "next" /\ hooks'[h].events = batch
<1> DEFINE s == [Waiting EXCEPT !.pc = "next", !.events = batch]
<1>1. s \in HookState /\ s.pc = "next" /\ s.events = batch
  <2>1. Waiting \in HookState
    BY WaitingFields
  <2> QED
    BY <2>1 DEF HookState
<1>2. hooks' = [hooks EXCEPT ![h] = s] /\ hooks \in [Hook -> HookState]
  BY DEF Receive, TypeOK
<1> HIDE DEF s
<1> QED
  BY <1>1, <1>2 DEF HooksFit, Apart

LEMMA NextEventFields ==
  ASSUME TypeOK, NEW h \in Hook, NextEvent(h)
  PROVE  /\ HooksFit /\ Apart(h) /\ hooks[h].pc = "next"
         /\ \/ hooks'[h] = Waiting
            \/ \E e \in hooks[h].events :
                 /\ hooks'[h].events = hooks[h].events \ {e} /\ hooks'[h].event = e
                 /\ hooks'[h].pc \in {"addon", "next"}
<1>1. hooks[h] \in HookState /\ hooks \in [Hook -> HookState] /\ hooks[h].pc = "next"
  BY DEF TypeOK, NextEvent, HookAt
<1>2. CASE hooks[h].events = {} /\ hooks' = [hooks EXCEPT ![h] = Waiting]
  BY <1>1, <1>2, WaitingFields DEF HooksFit, Apart
<1>3. ASSUME NEW e \in hooks[h].events,
             hooks' = [hooks EXCEPT ![h].pc = IF workspace THEN "addon" ELSE "next",
                                    ![h].events = @ \ {e}, ![h].event = e]
      PROVE  /\ HooksFit /\ Apart(h) /\ hooks'[h].events = hooks[h].events \ {e}
             /\ hooks'[h].event = e /\ hooks'[h].pc \in {"addon", "next"}
  <2> DEFINE pc == IF workspace THEN "addon" ELSE "next"
             s == [hooks[h] EXCEPT !.pc = pc, !.events = hooks[h].events \ {e}, !.event = e]
  <2>1. pc \in {"addon", "next"}
    OBVIOUS
  <2>2. hooks' = [hooks EXCEPT ![h] = s]
    BY <1>3
  <2> HIDE DEF pc
  <2>3. e \in Event
    BY <1>1 DEF HookState
  <2>4. s \in HookState /\ s.pc = pc /\ s.events = hooks[h].events \ {e} /\ s.event = e
    BY <1>1, <2>1, <2>3 DEF HookState
  <2> HIDE DEF s
  <2> QED
    BY <1>1, <2>1, <2>2, <2>4 DEF HooksFit, Apart
<1> QED
  BY <1>1, <1>2, <1>3, WaitingFields DEF NextEvent

LEMMA MatchFields ==
  ASSUME TypeOK, NEW h \in Hook, FindMatchingFlows(h)
  PROVE  /\ HooksFit /\ Apart(h) /\ hooks[h].pc = "match" /\ hooks'[h].pc = "create"
         /\ hooks'[h].events = hooks[h].events /\ hooks'[h].event = hooks[h].event
         /\ hooks'[h].run = hooks[h].run
<1>1. hooks[h] \in HookState /\ hooks \in [Hook -> HookState] /\ hooks[h].pc = "match"
  BY DEF TypeOK, FindMatchingFlows, HookAt
<1>2. PICK triggered \in SUBSET Flow :
        hooks' = [hooks EXCEPT ![h].pc = "create",
                    ![h].flows = {f \in triggered : workspace /\ active[f]}]
  BY DEF FindMatchingFlows
<1> DEFINE found == {f \in triggered : workspace /\ active[f]}
           s == [hooks[h] EXCEPT !.pc = "create", !.flows = found]
<1>3. found \subseteq Flow /\ hooks' = [hooks EXCEPT ![h] = s]
  BY <1>2
<1> HIDE DEF found
<1>4. /\ s \in HookState /\ s.pc = "create" /\ s.events = hooks[h].events
      /\ s.event = hooks[h].event /\ s.run = hooks[h].run
  BY <1>1, <1>3 DEF HookState
<1> HIDE DEF s
<1> QED
  BY <1>1, <1>3, <1>4 DEF HooksFit, Apart

LEMMA CreateFields ==
  ASSUME TypeOK, NEW h \in Hook, NEW f \in Flow, NEW r \in RunId, CreateRun(h, f, r)
  PROVE  /\ HooksFit /\ Apart(h) /\ hooks[h].pc = "create" /\ hooks'[h].pc = "add"
         /\ hooks'[h].events = hooks[h].events /\ hooks'[h].event = hooks[h].event
         /\ hooks'[h].flows = hooks[h].flows \ {f} /\ hooks'[h].run = r
<1>1. hooks[h] \in HookState /\ hooks \in [Hook -> HookState] /\ hooks[h].pc = "create"
      /\ r \in 0..MaxRuns
  BY DEF TypeOK, CreateRun, HookAt, RunId
<1> DEFINE s == [hooks[h] EXCEPT !.pc = "add", !.flows = hooks[h].flows \ {f}, !.run = r]
<1>2. hooks' = [hooks EXCEPT ![h] = s]
  BY DEF CreateRun
<1>3. /\ s \in HookState /\ s.pc = "add" /\ s.events = hooks[h].events
      /\ s.event = hooks[h].event /\ s.flows = hooks[h].flows \ {f} /\ s.run = r
  BY <1>1 DEF HookState
<1> HIDE DEF s
<1> QED
  BY <1>1, <1>2, <1>3 DEF HooksFit, Apart

LEMMA EnqueueFields ==
  ASSUME TypeOK, NEW h \in Hook, Enqueue(h)
  PROVE  /\ HooksFit /\ Apart(h) /\ hooks[h].pc = "add" /\ hooks'[h].pc = "create"
         /\ hooks'[h].events = hooks[h].events /\ hooks'[h].event = hooks[h].event
         /\ hooks'[h].flows = hooks[h].flows
<1>1. hooks[h] \in HookState /\ hooks \in [Hook -> HookState] /\ hooks[h].pc = "add"
      /\ 0 \in 0..MaxRuns
  BY DEF TypeOK, Enqueue, HookAt
<1> DEFINE s == [hooks[h] EXCEPT !.pc = "create", !.run = 0]
<1>2. hooks' = [hooks EXCEPT ![h] = s]
  BY DEF Enqueue
<1>3. /\ s \in HookState /\ s.pc = "create" /\ s.events = hooks[h].events
      /\ s.event = hooks[h].event /\ s.flows = hooks[h].flows
  BY <1>1 DEF HookState
<1> HIDE DEF s
<1> QED
  BY <1>1, <1>2, <1>3 DEF HooksFit, Apart

-----------------------------------------------------------------------------
(* The types.                                                              *)
Rows == <<workspace, addon, active, steps, runs, deliveries, sent, edited, edits>>
JobsTyped ==
  /\ JobsFit /\ queue' \in [JobId -> JobState]
  /\ \A j \in JobId : queue'[j] # "done" /\ jobs'[j].order > 0

LEMMA OneJobTyped ==
  ASSUME TypeInv, NEW j \in JobId, JobsFit, Alone(j), jobs'[j].order > 0,
         NEW at \in JobState \ {"done"}, queue' = [queue EXCEPT ![j] = at]
  PROVE  JobsTyped
  BY DEF TypeInv, TypeOK, JobsTyped, Alone

LEMMA MovedJobTyped ==
  ASSUME TypeInv, NEW j \in JobId, JobsFit, Alone(j), Same(j), queue' = queue
  PROVE  JobsTyped
  BY DEF TypeInv, TypeOK, JobsTyped, Alone, Same

LEMMA NextJobTyped ==
  ASSUME TypeInv, NEW j \in JobId, Live(j), jobs[j].run # 0, NEW pc \in Pc,
         AddJob([jobs EXCEPT ![j].pc = pc], jobs[j].run, jobs[j].order + 1)
  PROVE  JobsTyped
<1>1. PICK i \in JobId \ {j} :
            /\ NewJob(i, jobs[j].run, jobs[j].order + 1) /\ JobsFit
            /\ Same(j) /\ jobs'[j].pc = pc
            /\ \A l \in JobId \ {i, j} : jobs'[l] = jobs[l]
  BY AddNextFields
<1>2. queue' \in [JobId -> JobState] /\ \A l \in JobId : queue'[l] # "done"
  BY <1>1 DEF NewJob, TypeInv, TypeOK, JobState
<1>3. jobs[j].order \in Nat /\ \A l \in JobId : jobs[l].order > 0
  BY JobFields DEF TypeInv
<1>4. ASSUME NEW l \in JobId PROVE jobs'[l].order > 0
  BY <1>1, <1>3 DEF NewJob, Same
<1> QED
  BY <1>1, <1>2, <1>4 DEF JobsTyped

LEMMA JobsAreTyped ==
  ASSUME TypeInv, JobsTyped, UNCHANGED <<Rows, hooks>>,
         forked' \subseteq RunId, lost' \subseteq RunId, mishaps' \in Nat
  PROVE  TypeInv'
  BY DEF TypeInv, TypeOK, JobsTyped, JobsFit, Rows

LEMMA HooksAreTyped ==
  ASSUME TypeInv, HooksFit, UNCHANGED <<flows, runs, queue, jobs, sent, edited, forked, edits>>,
         deliveries' \in [Event -> Nat], lost' \subseteq RunId, mishaps' \in Nat
  PROVE  TypeInv'
  BY DEF TypeInv, TypeOK, HooksFit, flows

LEMMA LiveRun ==
  ASSUME TypeInv, LinkInv, NEW j \in JobId, Live(j)
  PROVE  jobs[j].run \in RunId /\ Born(jobs[j].run)
  BY JobFields DEF TypeInv, LinkInv, RunId

LEMMA StartRun ==
  ASSUME TypeInv, LinkInv, NEW h \in Hook, HookAt(h, "add")
  PROVE  hooks[h].run \in RunId /\ Born(hooks[h].run)
  BY HookFields DEF TypeInv, LinkInv, RunId

LEMMA FaultCounts == ASSUME TypeInv, Mishap PROVE mishaps' \in Nat
  BY DEF TypeInv, TypeOK, Mishap

LEMMA ReadFacts ==
  ASSUME TypeInv, LinkInv, NEW j \in JobId, ReadStep(j)
  PROVE  /\ JobsFit /\ Alone(j) /\ Same(j) /\ JobAt(j, "step") /\ jobs[j].run \in RunId
         /\ \/ /\ jobs[j].order \in DOMAIN ScriptOf(jobs[j].run) /\ jobs'[j].pc = "account"
               /\ jobs'[j].step = ScriptOf(jobs[j].run)[jobs[j].order]
            \/ /\ jobs[j].order \notin DOMAIN ScriptOf(jobs[j].run) /\ jobs'[j].pc = "complete"
<1> DEFINE script == ScriptOf(jobs[j].run)
<1>1. /\ TypeOK /\ JobAt(j, "step") /\ jobs[j].run \in RunId
      /\ runs[jobs[j].run].flow \in Flow
  BY LiveRun DEF ReadStep, JobAt, Live, LinkInv, TypeInv
<1>2. script \in Seq(Step) /\ script = steps[FlowOf(j)]
  <2>1. steps[runs[jobs[j].run].flow] \in Script \cup {<<>>}
    BY <1>1 DEF TypeOK
  <2>2. script = steps[FlowOf(j)] /\ script \in Script \cup {<<>>}
    BY <2>1 DEF FlowOf, ScriptOf
  <2> HIDE DEF script
  <2>3. Script \subseteq Seq(Step) /\ <<>> \in Seq(Step)
    OBVIOUS
  <2> QED
    BY <2>2, <2>3
<1> HIDE DEF script
<1>3. CASE jobs[j].order \in DOMAIN script
  <2>1. jobs' = [jobs EXCEPT ![j].pc = "account", ![j].step = script[jobs[j].order]]
    BY <1>2, <1>3 DEF ReadStep
  <2>2. script[jobs[j].order] \in Step
    BY <1>2, <1>3
  <2> QED
    BY <1>1, <1>3, <2>1, <2>2, ReadFields DEF script
<1>4. CASE jobs[j].order \notin DOMAIN script
  <2>1. JobGoto(j, "complete")
    BY <1>2, <1>4 DEF ReadStep, JobGoto
  <2> QED
    BY <1>1, <1>4, <2>1, GotoFields DEF Pc, script
<1> QED
  BY <1>3, <1>4

LEMMA DropTyped ==
  ASSUME TypeInv, NEW j \in JobId, Drop(j)
  PROVE  JobsTyped
<1>1. JobsFit /\ Alone(j) /\ jobs'[j].order > 0 /\ queue' = [queue EXCEPT ![j] = "none"]
  BY DropFields, NoJobFields DEF TypeInv
<1> QED
  BY <1>1, OneJobTyped DEF JobState

LEMMA EndsTyped ==
  ASSUME TypeInv, LinkInv, NEW j \in JobId, NEW pc,
         NEW status \in {"completed", "failed"}, Ends(j, pc, status)
  PROVE  TypeInv'
<1>0. TypeOK
  BY DEF TypeInv
<1>1. JobsFit /\ Alone(j) /\ Same(j) /\ queue' = queue
  BY <1>0, GotoFields DEF Ends, Pc
<1>2. JobsTyped
  BY <1>1, MovedJobTyped
<1>3. jobs[j].run \in RunId
  BY LiveRun DEF Ends, JobAt, Live
<1>4. runs' \in [RunId -> RunRow]
  BY <1>0, <1>3 DEF Ends, TypeOK, RunRow
<1> QED
  BY <1>0, <1>2, <1>4
    DEF Ends, TypeInv, TypeOK, JobsTyped, JobsFit, flows, history

LEMMA TypeStep ==
  ASSUME TypeInv, LinkInv, [Next]_vars
  PROVE  TypeInv'
<1>0. TypeInv /\ TypeOK /\ LinkInv
  BY DEF TypeInv
<1>1. ASSUME NEW h \in Hook, NEW batch \in SUBSET Event, Receive(h, batch)
      PROVE  TypeInv'
  <2>1. HooksFit
    BY <1>1, <1>0, ReceiveFields
  <2>2. deliveries' \in [Event -> Nat]
    BY <1>1, <1>0 DEF Receive, TypeOK
  <2> QED
    BY <1>1, <2>1, <2>2, <1>0, HooksAreTyped DEF Receive, history, TypeOK
<1>2. ASSUME NEW h \in Hook, NextEvent(h)
      PROVE  TypeInv'
  <2>1. HooksFit
    BY <1>2, <1>0, NextEventFields DEF NextEvent, HookPc
  <2> QED
    BY <1>2, <2>1, <1>0, HooksAreTyped DEF NextEvent, HookOnly, history, TypeOK
<1>3. ASSUME NEW h \in Hook, ReadAddon(h)
      PROVE  TypeInv'
  <2>1. PICK pc \in HookPc : HookGoto(h, pc)
    BY <1>3 DEF ReadAddon, HookPc
  <2>2. HooksFit
    BY <2>1, <1>0, HookGotoFields
  <2> QED
    BY <1>3, <2>2, <1>0, HooksAreTyped DEF ReadAddon, HookOnly, history, TypeOK
<1>4. ASSUME NEW h \in Hook, FindMatchingFlows(h)
      PROVE  TypeInv'
  <2>1. HooksFit
    BY <1>4, <1>0, MatchFields DEF FindMatchingFlows, HookPc
  <2> QED
    BY <1>4, <2>1, <1>0, HooksAreTyped
      DEF FindMatchingFlows, HookOnly, history, TypeOK
<1>5. ASSUME NEW h \in Hook, NEW f \in Flow, NEW r \in RunId, CreateRun(h, f, r)
      PROVE  TypeInv'
  <2>1. HooksFit /\ hooks[h].event \in Event \cup {Nil}
    BY <1>5, <1>0, CreateFields, HookFields
  <2>2. runs' \in [RunId -> RunRow]
    BY <1>5, <2>1, <1>0 DEF CreateRun, TypeOK, RunRow
  <2> QED
    BY <1>5, <2>1, <2>2, <1>0
      DEF CreateRun, HooksFit, TypeInv, TypeOK, flows, history
<1>6. ASSUME NEW h \in Hook, Enqueue(h)
      PROVE  TypeInv'
  <2>1. HooksFit /\ hooks[h].run \in RunId
    BY <1>6, <1>0, EnqueueFields, StartRun DEF HookAt
  <2>2. JobsTyped
    <3>1. PICK i \in JobId : /\ NewJob(i, hooks[h].run, 1) /\ JobsFit
                             /\ \A l \in JobId \ {i} : jobs'[l] = jobs[l]
      <4>1. jobs \in [JobId -> Job] /\ 1 \in Nat \ {0} /\ AddJob(jobs, hooks[h].run, 1)
        BY <1>6, <1>0 DEF Enqueue, TypeOK
      <4> QED
        BY <2>1, <4>1, <1>0, AddFields
    <3>2. Alone(i) /\ jobs'[i].order > 0 /\ queue' = [queue EXCEPT ![i] = "waiting"]
      BY <3>1 DEF NewJob, Alone
    <3>3. "waiting" \in JobState \ {"done"}
      BY DEF JobState
    <3> QED
      BY <3>1, <3>2, <3>3, OneJobTyped
  <2> QED
    BY <1>6, <2>1, <2>2, <1>0
      DEF Enqueue, HooksFit, JobsTyped, JobsFit, TypeInv, TypeOK, flows, history
<1>7. ASSUME NEW h \in Hook, Enqueued(h)
      PROVE  TypeInv'
  <2>1. HooksFit
    BY <1>7, <1>0, HookGotoFields DEF Enqueued, HookPc
  <2> QED
    BY <1>7, <2>1, <1>0, HooksAreTyped DEF Enqueued, HookOnly, history, TypeOK
<1>8. ASSUME NEW h \in Hook, HookFails(h)
      PROVE  TypeInv'
  <2>1. HooksFit
    BY <1>8, <1>0, WaitingFields DEF HookFails, TypeOK, HooksFit
  <2>2. lost' \subseteq RunId
    BY <1>8, <1>0, StartRun DEF HookFails, TypeOK
  <2>3. mishaps' \in Nat
    BY <1>8, <1>0, FaultCounts DEF HookFails, TypeOK
  <2> QED
    BY <1>8, <2>1, <2>2, <2>3, <1>0, HooksAreTyped DEF HookFails, TypeOK
<1>9. ASSUME NEW j \in JobId, Take(j)
      PROVE  TypeInv'
  <2>1. JobGoto(j, "step") /\ queue' = [queue EXCEPT ![j] = "active"]
    BY <1>9 DEF Take, JobGoto, QueueTake
  <2>2. JobsFit /\ Alone(j) /\ Same(j)
    BY <2>1, <1>0, GotoFields DEF Pc
  <2>3. jobs'[j].order > 0
    BY <2>2, <1>0 DEF Same, TypeInv
  <2>4. JobsTyped
    BY <2>1, <2>2, <2>3, <1>0, OneJobTyped DEF JobState
  <2> QED
    BY <1>9, <2>4, <1>0, JobsAreTyped
      DEF Take, JobOnly, history, flows, Rows, TypeOK
<1>10. ASSUME NEW j \in JobId, ReadStep(j)
      PROVE  TypeInv'
  <2>1. JobsFit /\ Alone(j) /\ Same(j)
    BY <1>10, ReadFacts
  <2>2. JobsTyped
    BY <1>10, <2>1, <1>0, MovedJobTyped DEF ReadStep
  <2> QED
    BY <1>10, <2>2, <1>0, JobsAreTyped
      DEF ReadStep, JobOnly, history, flows, Rows, TypeOK
<1>11. ASSUME NEW j \in JobId, ReadAccount(j)
      PROVE  TypeInv'
  <2>1. PICK pc \in Pc : JobGoto(j, pc)
    BY <1>11 DEF ReadAccount, Pc
  <2>2. JobsFit /\ Alone(j) /\ Same(j) /\ queue' = queue
    BY <1>11, <2>1, <1>0, GotoFields DEF ReadAccount
  <2>3. JobsTyped
    BY <2>2, <1>0, MovedJobTyped
  <2>4. forked' \subseteq RunId /\ lost' \subseteq RunId /\ mishaps' \in Nat
    BY <1>11, <1>0 DEF ReadAccount, history, TypeOK
  <2> QED
    BY <1>11, <2>3, <2>4, <1>0, JobsAreTyped
      DEF ReadAccount, JobOnly, history, flows, Rows
<1>12. ASSUME NEW j \in JobId, Execute(j)
      PROVE  TypeInv'
  <2>1. JobGoto(j, "add") /\ JobAt(j, "act")
    BY <1>12 DEF Execute
  <2>2. JobsFit /\ Alone(j) /\ Same(j) /\ queue' = queue
    BY <1>12, <2>1, <1>0, GotoFields DEF Execute, Pc
  <2>3. JobsTyped
    BY <2>2, <1>0, MovedJobTyped
  <2>4. sent' \in [RunId -> Seq(Nat)]
    <3>1. jobs[j].run \in RunId /\ jobs[j].order \in Nat
      BY <2>1, <1>0, LiveRun, JobFields DEF JobAt, Live
    <3>2. sent[jobs[j].run] \in Seq(Nat)
      BY <3>1, <1>0 DEF TypeOK
    <3>3. Append(sent[jobs[j].run], jobs[j].order) \in Seq(Nat)
      BY <3>1, <3>2
    <3> QED
      BY <1>12, <3>1, <3>3, <1>0 DEF Execute, TypeOK
  <2> QED
    BY <1>12, <2>3, <2>4, <1>0
      DEF Execute, JobOnly, flows, JobsTyped, JobsFit, TypeInv, TypeOK
<1>13. ASSUME NEW j \in JobId, AddNext(j)
      PROVE  TypeInv'
  <2>1. /\ Live(j) /\ ~(jobs[j].run = 0)
        /\ AddJob([jobs EXCEPT ![j].pc = "added"], jobs[j].run, jobs[j].order + 1)
    BY <1>13, <1>0 DEF AddNext, AddsNext, JobAt, Live, LinkInv
  <2>2. JobsTyped
    BY <2>1, <1>0, NextJobTyped DEF Pc
  <2> QED
    BY <1>13, <2>2, <1>0, JobsAreTyped
      DEF AddNext, AddsNext, JobOnly, history, flows, Rows, TypeOK
<1>14. ASSUME NEW j \in JobId, Complete(j)
      PROVE  TypeInv'
  BY <1>14, <1>0, EndsTyped DEF Complete
<1>15. ASSUME NEW j \in JobId, MarkFailed(j)
      PROVE  TypeInv'
  BY <1>15, <1>0, EndsTyped DEF MarkFailed
<1>16. ASSUME NEW j \in JobId, Finish(j)
      PROVE  TypeInv'
  <2>1. JobsTyped
    BY <1>16, <1>0, DropTyped DEF Finish
  <2> QED
    BY <1>16, <2>1, <1>0, JobsAreTyped
      DEF Finish, JobOnly, history, flows, Rows, TypeOK
<1>17. ASSUME NEW j \in JobId, Restalled(j)
      PROVE  TypeInv'
  <2>1. jobs[j].run \in RunId
    BY <1>17, <1>0, LiveRun DEF Restalled, Live
  <2>2. JobsTyped
    <3>1. CASE Drop(j)
      BY <3>1, <1>0, DropTyped
    <3>2. CASE queue' = [queue EXCEPT ![j] = "waiting"] /\ JobGoto(j, "step")
      <4>1. JobsFit /\ Alone(j) /\ Same(j)
        BY <3>2, <1>0, GotoFields DEF Pc
      <4>2. jobs'[j].order > 0
        BY <4>1, <1>0 DEF Same, TypeInv
      <4> QED
        BY <3>2, <4>1, <4>2, <1>0, OneJobTyped DEF JobState
    <3> QED
      BY <1>17, <3>1, <3>2 DEF Restalled, JobGoto
  <2>3. forked' \subseteq RunId /\ lost' \subseteq RunId
    BY <1>17, <2>1, <1>0 DEF Restalled, TypeOK
  <2> QED
    BY <1>17, <2>2, <2>3, <1>0, JobsAreTyped
      DEF Restalled, JobOnly, flows, Rows, TypeOK
<1>18. ASSUME NEW j \in JobId, ExecuteFails(j)
      PROVE  TypeInv'
  <2>1. JobGoto(j, "fail")
    BY <1>18 DEF ExecuteFails, ExecuteThrows, Pc
  <2>2. JobsFit /\ Alone(j) /\ Same(j) /\ queue' = queue
    BY <1>18, <2>1, <1>0, GotoFields DEF ExecuteFails, ExecuteThrows, Pc
  <2>3. JobsTyped
    BY <2>2, <1>0, MovedJobTyped
  <2>4. forked' \subseteq RunId /\ lost' \subseteq RunId /\ mishaps' \in Nat
    BY <1>18, <1>0, FaultCounts DEF ExecuteFails, ExecuteThrows, history, TypeOK
  <2> QED
    BY <1>18, <2>3, <2>4, <1>0, JobsAreTyped
      DEF ExecuteFails, ExecuteThrows, JobOnly, history, flows, Rows
<1>19. ASSUME NEW j \in JobId, AddFails(j)
      PROVE  TypeInv'
  <2>1. Live(j) /\ jobs[j].run \in RunId
    BY <1>19, <1>0, LiveRun DEF AddFails, JobAt, Live
  <2>2. JobsTyped
    <3>1. CASE JobGoto(j, "fail") /\ UNCHANGED <<queue, forked>>
      <4>1. JobsFit /\ Alone(j) /\ Same(j)
        BY <3>1, <1>0, GotoFields DEF Pc
      <4> QED
        BY <3>1, <4>1, <1>0, MovedJobTyped
    <3>2. CASE AddJob([jobs EXCEPT ![j].pc = "fail"], jobs[j].run, jobs[j].order + 1)
      <4>1. ~(jobs[j].run = 0) /\ "fail" \in Pc
        BY <2>1 DEF RunId, Pc
      <4> QED
        BY <3>2, <4>1, <2>1, <1>0, NextJobTyped
    <3> QED
      BY <1>19, <3>1, <3>2 DEF AddFails
  <2>3. forked' \subseteq RunId /\ mishaps' \in Nat
    BY <1>19, <2>1, <1>0, FaultCounts DEF AddFails, TypeOK
  <2> QED
    BY <1>19, <2>2, <2>3, <1>0, JobsAreTyped
      DEF AddFails, JobOnly, flows, Rows, TypeOK
<1>20. ASSUME NEW j \in JobId, JobFails(j)
      PROVE  TypeInv'
  <2>1. JobsTyped
    BY <1>20, <1>0, DropTyped DEF JobFails
  <2>2. lost' \subseteq RunId /\ mishaps' \in Nat
    BY <1>20, <1>0, LiveRun, FaultCounts DEF JobFails, Live, TypeOK
  <2> QED
    BY <1>20, <2>1, <2>2, <1>0, JobsAreTyped
      DEF JobFails, JobOnly, flows, Rows, TypeOK
<1>21. CASE Crash
  <2>1. HooksFit
    BY <1>21, WaitingFields DEF Crash, HooksFit
  <2>2. queue' \in [JobId -> JobState] /\ \A j \in JobId : ~(queue'[j] = "done")
    BY <1>21, <1>0 DEF Crash, QueueOrphan, TypeInv, TypeOK, JobState
  <2>3. lost' \subseteq RunId
    BY <1>21, <1>0, StartRun DEF Crash, TypeOK
  <2>4. mishaps' \in Nat
    BY <1>21, <1>0, FaultCounts DEF Crash
  <2> QED
    BY <1>21, <2>1, <2>2, <2>3, <2>4, <1>0
      DEF Crash, HooksFit, TypeInv, TypeOK, flows
<1>22. ASSUME NEW f \in Flow, NEW script \in Script, NEW isActive \in BOOLEAN, UpdateFlow(f, script, isActive)
      PROVE  TypeInv'
  <2>1. /\ steps' \in [Flow -> Script \cup {<<>>}] /\ active' \in [Flow -> BOOLEAN]
        /\ edited' \subseteq RunId /\ edits' \in Nat
    BY <1>22, <1>0 DEF UpdateFlow, TypeOK
  <2> QED
    BY <1>22, <2>1, <1>0 DEF UpdateFlow, TypeInv, TypeOK
<1>23. CASE AddonChanges
  BY <1>23, <1>0 DEF AddonChanges, TypeInv, TypeOK, history
<1>24. CASE WorkspaceDeleted
  <2>1. steps' \in [Flow -> Script \cup {<<>>}] /\ workspace' = FALSE
    BY <1>24 DEF WorkspaceDeleted
  <2>2. edits' \in Nat
    BY <1>24, <1>0 DEF WorkspaceDeleted, TypeOK
  <2> QED
    BY <1>24, <2>1, <2>2, <1>0 DEF WorkspaceDeleted, TypeInv, TypeOK, history
<1>25. CASE UNCHANGED vars
  BY <1>25 DEF vars, flows, history, TypeInv, TypeOK
<1> QED
  BY <1>1, <1>2, <1>3, <1>4, <1>5, <1>6, <1>7, <1>8, <1>9, <1>10, <1>11,
     <1>12, <1>13, <1>14, <1>15, <1>16, <1>17, <1>18, <1>19, <1>20, <1>21,
     <1>22, <1>23, <1>24, <1>25
  DEF Next, Webhook, Worker

-----------------------------------------------------------------------------
(* What becomes of the jobs in a step of one: it goes on, it leaves the    *)
(* queue, or it adds the job of the next step of its run.                  *)
Still(i) == jobs'[i] = jobs[i] /\ queue'[i] = queue[i]
Moves(j, pc) ==
  /\ Live(j) /\ Live(j)' /\ Same(j) /\ jobs'[j].pc = pc
  /\ \A i \in JobId \ {j} : Still(i)
Leaves(j) == Live(j) /\ ~Live(j)' /\ \A i \in JobId \ {j} : Still(i)
Adds(j, i, pc) ==
  /\ Live(j) /\ Live(j)' /\ Same(j) /\ queue'[j] = queue[j] /\ jobs'[j].pc = pc
  /\ ~Live(i) /\ queue'[i] = "waiting"
  /\ jobs'[i].run = jobs[j].run /\ jobs'[i].order = jobs[j].order + 1 /\ jobs'[i].pc = "step"
  /\ \A l \in JobId \ {i, j} : Still(l)

LEMMA DropLeaves ==
  ASSUME TypeInv, NEW j \in JobId, Live(j), Drop(j) PROVE Leaves(j)
  BY DropFields DEF TypeInv, TypeOK, Leaves, Still, Live, Alone

LEMMA GotoMoves ==
  ASSUME TypeInv, NEW j \in JobId, Live(j), NEW pc \in Pc, JobGoto(j, pc), queue' = queue
  PROVE  Moves(j, pc) /\ jobs'[j].step = jobs[j].step
  BY GotoFields DEF TypeInv, Moves, Still, Live, Alone

LEMMA NextAdds ==
  ASSUME TypeInv, LinkInv, NEW j \in JobId, Live(j), NEW pc \in Pc,
         AddJob([jobs EXCEPT ![j].pc = pc], jobs[j].run, jobs[j].order + 1)
  PROVE  \E i \in JobId \ {j} : Adds(j, i, pc)
<1>1. PICK i \in JobId \ {j} :
            /\ NewJob(i, jobs[j].run, jobs[j].order + 1) /\ JobsFit
            /\ Same(j) /\ jobs'[j].pc = pc
            /\ \A l \in JobId \ {i, j} : jobs'[l] = jobs[l]
  BY AddNextFields DEF LinkInv
<1>2. queue' = [queue EXCEPT ![i] = "waiting"] /\ queue \in [JobId -> JobState]
  BY <1>1 DEF NewJob, TypeInv, TypeOK
<1>3. queue'[i] = "waiting" /\ \A l \in JobId \ {i} : queue'[l] = queue[l]
  BY <1>2
<1> QED
  BY <1>1, <1>3 DEF Adds, NewJob, Live, Still

LEMMA TakeMoves ==
  ASSUME TypeInv, LinkInv, NEW j \in JobId, Take(j)
  PROVE  Moves(j, "step") /\ jobs[j].pc = "step" /\ ~(queue'[j] = "waiting")
<1>1. JobGoto(j, "step") /\ queue' = [queue EXCEPT ![j] = "active"] /\ queue[j] = "waiting"
  BY DEF Take, JobGoto, QueueTake
<1>2. Alone(j) /\ Same(j) /\ jobs'[j].pc = "step"
  BY <1>1, GotoFields DEF Pc, TypeInv
<1>3. queue'[j] = "active" /\ \A i \in JobId \ {j} : queue'[i] = queue[i]
  BY <1>1 DEF TypeInv, TypeOK
<1> QED
  BY <1>1, <1>2, <1>3 DEF Moves, Still, Live, Alone, LinkInv

LEMMA ReadMoves ==
  ASSUME TypeInv, LinkInv, NEW j \in JobId, ReadStep(j)
  PROVE  /\ jobs[j].pc = "step" /\ queue[j] = "active" /\ queue' = queue
         /\ \/ /\ Moves(j, "account") /\ jobs[j].order \in DOMAIN ScriptOf(jobs[j].run)
               /\ jobs'[j].step = ScriptOf(jobs[j].run)[jobs[j].order]
            \/ Moves(j, "complete") /\ jobs[j].order \notin DOMAIN ScriptOf(jobs[j].run)
<1>1. queue' = queue /\ queue[j] = "active"
  BY DEF ReadStep, JobAt
<1> QED
  BY <1>1, ReadFacts DEF Moves, Still, Live, Alone, JobAt

LEMMA AccountMoves ==
  ASSUME TypeInv, NEW j \in JobId, ReadAccount(j)
  PROVE  /\ jobs[j].pc = "account" /\ queue[j] = "active" /\ queue' = queue
         /\ Moves(j, "act") \/ Moves(j, "fail")
         /\ jobs'[j].step = jobs[j].step
<1>1. PICK pc \in {"act", "fail"} : JobGoto(j, pc)
  BY DEF ReadAccount
<1>2. pc \in Pc /\ Live(j) /\ queue' = queue /\ queue[j] = "active" /\ jobs[j].pc = "account"
  BY DEF ReadAccount, JobAt, Live, Pc
<1> QED
  BY <1>1, <1>2, GotoMoves

LEMMA ExecuteMoves ==
  ASSUME TypeInv, NEW j \in JobId, Execute(j)
  PROVE  /\ jobs[j].pc = "act" /\ queue[j] = "active" /\ queue' = queue
         /\ Moves(j, "add")
  BY GotoMoves DEF Execute, JobAt, Live, Pc

LEMMA ThrowMoves ==
  ASSUME TypeInv, NEW j \in JobId, ExecuteFails(j)
  PROVE  jobs[j].pc = "act" /\ queue[j] = "active" /\ queue' = queue /\ Moves(j, "fail")
  BY GotoMoves DEF ExecuteFails, ExecuteThrows, JobAt, Live, Pc

LEMMA AddFailsMoves ==
  ASSUME TypeInv, LinkInv, NEW j \in JobId, AddFails(j)
  PROVE  /\ jobs[j].pc = "add" /\ queue[j] = "active"
         /\ \/ Moves(j, "fail") /\ forked' = forked /\ queue' = queue
            \/ \E i \in JobId \ {j} : Adds(j, i, "fail") /\ forked' = forked \cup {jobs[j].run}
<1>1. jobs[j].pc = "add" /\ queue[j] = "active" /\ Live(j) /\ "fail" \in Pc
  BY DEF AddFails, JobAt, Live, Pc
<1>2. CASE JobGoto(j, "fail") /\ UNCHANGED <<queue, forked>>
  BY <1>1, <1>2, GotoMoves
<1>3. CASE /\ AddJob([jobs EXCEPT ![j].pc = "fail"], jobs[j].run, jobs[j].order + 1)
           /\ forked' = forked \cup {jobs[j].run}
  BY <1>1, <1>3, NextAdds
<1> QED
  BY <1>1, <1>2, <1>3 DEF AddFails

LEMMA AddNextMoves ==
  ASSUME TypeInv, LinkInv, NEW j \in JobId, AddNext(j)
  PROVE  /\ jobs[j].pc = "add" /\ queue[j] = "active"
         /\ \E i \in JobId \ {j} : Adds(j, i, "added")
<1>1. jobs[j].pc = "add" /\ queue[j] = "active" /\ Live(j) /\ "added" \in Pc
  BY DEF AddNext, AddsNext, JobAt, Live, Pc
<1> QED
  BY <1>1, NextAdds DEF AddNext, AddsNext

LEMMA EndsMoves ==
  ASSUME TypeInv, NEW j \in JobId, NEW pc, NEW status, Ends(j, pc, status)
  PROVE  /\ jobs[j].pc = pc /\ queue[j] = "active" /\ queue' = queue
         /\ Moves(j, "over")
  BY GotoMoves DEF Ends, JobAt, Live, Pc

LEMMA RestalledMoves ==
  ASSUME TypeInv, NEW j \in JobId, Restalled(j)
  PROVE  /\ queue[j] = "stalled"
         /\ \/ Leaves(j) /\ forked' = forked
            \/ /\ Moves(j, "step") /\ queue'[j] = "waiting"
               /\ forked' = IF jobs[j].pc = "added" \/ HasSent(j)
                              THEN forked \cup {jobs[j].run} ELSE forked
<1>1. queue[j] = "stalled" /\ Live(j)
  BY DEF Restalled, Live
<1>2. CASE Drop(j) /\ forked' = forked
  BY <1>1, <1>2, DropLeaves
<1>3. CASE /\ queue' = [queue EXCEPT ![j] = "waiting"] /\ JobGoto(j, "step")
           /\ forked' = IF jobs[j].pc = "added" \/ HasSent(j)
                          THEN forked \cup {jobs[j].run} ELSE forked
  <2>1. Alone(j) /\ Same(j) /\ jobs'[j].pc = "step"
    BY <1>3, GotoFields DEF Pc, TypeInv
  <2>2. queue'[j] = "waiting" /\ \A i \in JobId \ {j} : queue'[i] = queue[i]
    BY <1>3 DEF TypeInv, TypeOK
  <2> QED
    BY <1>1, <1>3, <2>1, <2>2 DEF Moves, Still, Live, Alone
<1> QED
  BY <1>1, <1>2, <1>3 DEF Restalled, JobGoto

LEMMA EndedLeaves ==
  ASSUME TypeInv, NEW j \in JobId, Finish(j) \/ JobFails(j)
  PROVE  Leaves(j)
  BY DropLeaves DEF Finish, JobFails, JobAt, Live

JobStep(j) ==
  \/ Worker(j) \/ Restalled(j) \/ ExecuteFails(j) \/ AddFails(j) \/ JobFails(j)
RunsKept ==
  \A r \in RunId : /\ runs'[r].flow = runs[r].flow /\ runs'[r].event = runs[r].event
                   /\ (Born(r) <=> runs'[r].status # "none")

LEMMA JobsMove ==
  ASSUME TypeInv, LinkInv, NEW j \in JobId, JobStep(j)
  PROVE  /\ \/ Leaves(j)
            \/ \E pc \in Pc : Moves(j, pc) /\ (queue'[j] = "waiting" => pc = "step")
            \/ \E i \in JobId \ {j}, pc \in Pc : Adds(j, i, pc) /\ queue[j] = "active"
  BY TakeMoves, ReadMoves, AccountMoves, ExecuteMoves, ThrowMoves,
     AddFailsMoves,
     AddNextMoves, EndsMoves, RestalledMoves, EndedLeaves
    DEF JobStep, Worker, Complete, MarkFailed, Pc

LEMMA JobsKeepRows ==
  ASSUME TypeInv, LinkInv, NEW j \in JobId, JobStep(j)
  PROVE  /\ UNCHANGED <<flows, hooks, deliveries, edited, edits>> /\ RunsKept
         /\ forked \subseteq forked'
<1>1. UNCHANGED <<flows, hooks, deliveries, edited, edits>> /\ forked \subseteq forked'
  BY
    DEF JobStep, Worker, Take, ReadStep, ReadAccount, Execute, AddNext,
        AddsNext, Complete,
     MarkFailed, Ends, Finish, Restalled, ExecuteFails, ExecuteThrows, AddFails, JobFails,
     JobOnly, history
<1>2. CASE runs' = runs
  BY <1>1, <1>2 DEF RunsKept, Born
<1>3. ASSUME NEW pc, NEW status \in {"completed", "failed"}, Ends(j, pc, status),
             ~(runs' = runs)
      PROVE  RunsKept
  <2>1. runs' = [runs EXCEPT ![jobs[j].run].status = status]
    BY <1>3 DEF Ends
  <2>2. Live(j) /\ Born(jobs[j].run) /\ jobs[j].run \in RunId
    BY <1>3, LiveRun DEF Ends, JobAt, Live
  <2> QED
    BY <2>1, <2>2 DEF RunsKept, Born, TypeInv, TypeOK, RunRow
<1> QED
  BY <1>1, <1>2, <1>3
    DEF JobStep, Worker, Take, ReadStep, ReadAccount, Execute, AddNext,
        AddsNext, Complete,
     MarkFailed, Finish, Restalled, ExecuteFails, ExecuteThrows, AddFails, JobFails,
     JobOnly

(* The other steps: a request goes on and stores or adds nothing, the      *)
(* process dies, or somebody edits.                                        *)
NoNewStart ==
  \A g \in Hook : hooks'[g].pc = "add" => hooks[g].pc = "add" /\ hooks'[g].run = hooks[g].run
SameJobs ==
  /\ jobs' = jobs
  /\ \A j \in JobId : /\ Live(j) <=> queue'[j] \in {"waiting", "active", "stalled"}
                      /\ queue'[j] = "waiting" => queue[j] = "waiting"
HookGoesOn(h) ==
  \/ \E batch \in SUBSET Event : Receive(h, batch)
  \/ NextEvent(h) \/ ReadAddon(h) \/ FindMatchingFlows(h) \/ Enqueued(h) \/ HookFails(h)
Edits ==
  \/ \E f \in Flow, script \in Script, isActive \in BOOLEAN : UpdateFlow(f, script, isActive)
  \/ AddonChanges \/ WorkspaceDeleted
QuietStep == (\E h \in Hook : HookGoesOn(h)) \/ Crash \/ Edits

LEMMA NextCases ==
  ASSUME [Next]_vars
  PROVE  \/ \E j \in JobId : JobStep(j)
         \/ \E h \in Hook, f \in Flow, r \in RunId : CreateRun(h, f, r)
         \/ \E h \in Hook : Enqueue(h)
         \/ QuietStep
         \/ UNCHANGED vars
  BY DEF Next, Webhook, JobStep, QuietStep, HookGoesOn, Edits

LEMMA HookGoesOnQuietly ==
  ASSUME TypeInv, NEW h \in Hook, HookGoesOn(h) PROVE NoNewStart
<1>0. TypeOK
  BY DEF TypeInv
<1>1. ASSUME NEW batch \in SUBSET Event, Receive(h, batch) PROVE NoNewStart
  BY <1>1, <1>0, ReceiveFields DEF NoNewStart, Apart
<1>2. CASE NextEvent(h)
  <2>1. Apart(h) /\ ~(hooks'[h].pc = "add")
    BY <1>2, <1>0, NextEventFields, WaitingFields
  <2> QED
    BY <2>1 DEF NoNewStart, Apart
<1>3. CASE ReadAddon(h)
  <2>1. PICK pc \in {"match", "next"} : HookGoto(h, pc)
    BY <1>3 DEF ReadAddon
  <2>2. Apart(h) /\ hooks'[h].pc = pc
    BY <2>1, <1>0, HookGotoFields DEF HookPc
  <2> QED
    BY <2>2 DEF NoNewStart, Apart
<1>4. CASE FindMatchingFlows(h)
  BY <1>4, <1>0, MatchFields DEF NoNewStart, Apart
<1>5. CASE Enqueued(h)
  BY <1>5, <1>0, HookGotoFields DEF Enqueued, HookPc, NoNewStart, Apart
<1>6. CASE HookFails(h)
  BY <1>6, <1>0, WaitingFields DEF HookFails, TypeOK, NoNewStart
<1> QED
  BY <1>1, <1>2, <1>3, <1>4, <1>5, <1>6 DEF HookGoesOn

LEMMA QuietSteps ==
  ASSUME TypeInv, QuietStep
  PROVE  NoNewStart /\ SameJobs /\ UNCHANGED <<runs, sent, forked>>
<1>1. ASSUME NEW h \in Hook, HookGoesOn(h)
      PROVE  NoNewStart /\ SameJobs /\ UNCHANGED <<runs, sent, forked>>
  <2>1. UNCHANGED <<runs, queue, jobs, sent, forked>>
    BY <1>1
      DEF HookGoesOn, Receive, NextEvent, ReadAddon, FindMatchingFlows,
          Enqueued, HookFails,
          HookOnly, history
  <2> QED
    BY <1>1, <2>1, HookGoesOnQuietly DEF SameJobs, Live
<1>2. CASE Crash
  <2>1. queue' = QueueOrphan(queue) /\ UNCHANGED <<runs, jobs, sent, forked>>
    BY <1>2 DEF Crash
  <2>2. NoNewStart
    BY <1>2, WaitingFields DEF Crash, NoNewStart
  <2>3. SameJobs
    BY <2>1 DEF QueueOrphan, SameJobs, Live, TypeInv, TypeOK
  <2> QED
    BY <2>1, <2>2, <2>3
<1>3. CASE Edits
  BY <1>3
    DEF Edits, UpdateFlow, AddonChanges, WorkspaceDeleted, history, NoNewStart,
        SameJobs, Live
<1> QED
  BY <1>1, <1>2, <1>3 DEF QuietStep

-----------------------------------------------------------------------------
(* Jobs and requests are about runs that exist.                            *)
LEMMA BornStays ==
  ASSUME TypeInv, [Next]_vars, LinkInv, NEW r \in RunId, Born(r)
  PROVE  Born(r)' /\ runs'[r].flow = runs[r].flow /\ runs'[r].event = runs[r].event
<1>1. CASE \E j \in JobId : JobStep(j)
  BY <1>1, JobsKeepRows DEF RunsKept, Born
<1>2. ASSUME NEW h \in Hook, NEW f \in Flow, NEW q \in RunId, CreateRun(h, f, q)
      PROVE  runs'[r] = runs[r]
  BY <1>2 DEF CreateRun, Born, Unborn, TypeInv, TypeOK
<1>3. CASE \E h \in Hook : Enqueue(h)
  BY <1>3 DEF Enqueue, Born
<1>4. CASE QuietStep
  BY <1>4, QuietSteps DEF Born
<1> QED
  BY <1>1, <1>2, <1>3, <1>4, NextCases DEF vars, Born

LEMMA LinkJobs ==
  ASSUME TypeInv, LinkInv, NEW j \in JobId, JobStep(j) PROVE LinkInv'
<1>1. UNCHANGED hooks /\ RunsKept
  BY JobsKeepRows
<1>2. ASSUME NEW r \in RunId, ~Born(r) PROVE sent'[r] = sent[r]
  <2>1. CASE Execute(j)
    <3>1. ~(jobs[j].run = r)
      BY <2>1, <1>2, LiveRun DEF Execute, JobAt, Live
    <3> QED
      BY <2>1, <3>1, <1>2 DEF Execute, TypeInv, TypeOK
  <2>2. CASE ~Execute(j)
    BY <2>2
      DEF JobStep, Worker, Take, ReadStep, ReadAccount, AddNext, AddsNext,
          Complete,
        MarkFailed, Ends, Finish, Restalled, ExecuteFails, ExecuteThrows, AddFails, JobFails,
        history
  <2> QED
    BY <2>1, <2>2
<1>3. ASSUME NEW i \in JobId
      PROVE  /\ Live(i)' => jobs'[i].run # 0 /\ jobs'[i].run \in RunId /\ Born(jobs'[i].run)
             /\ queue'[i] = "waiting" => jobs'[i].pc = "step"
  BY <1>3, JobsMove, LiveRun
    DEF Leaves, Moves, Adds, Still, Same, Live, LinkInv, RunId
<1>4. ASSUME NEW r \in RunId
      PROVE  /\ Born(r)' => runs'[r].flow \in Flow /\ runs'[r].event \in Event
             /\ ~Born(r)' => runs'[r].event = Nil /\ sent'[r] = <<>>
  BY <1>1, <1>2 DEF RunsKept, LinkInv, Born
<1>5. ASSUME NEW i \in JobId PROVE Live(i)' => (jobs[i].run # 0 /\ Born(jobs[i].run))'
  BY <1>1, <1>3 DEF RunsKept, Born
<1>6. ASSUME NEW h \in Hook, HookAt(h, "add")'
      PROVE  (hooks[h].run # 0 /\ Born(hooks[h].run))'
  BY <1>1, <1>6, StartRun DEF RunsKept, Born, LinkInv, HookAt
<1> QED
  BY <1>3, <1>4, <1>5, <1>6 DEF LinkInv

LEMMA LinkStep ==
  ASSUME TypeInv, LinkInv, DeliveryInv, [Next]_vars
  PROVE  LinkInv'
<1>1. CASE \E j \in JobId : JobStep(j)
  BY <1>1, LinkJobs
<1>2. ASSUME NEW h \in Hook, NEW f \in Flow, NEW r \in RunId, CreateRun(h, f, r)
      PROVE  LinkInv'
  <2>0. hooks[h].event \in Event
    BY <1>2 DEF CreateRun, HookAt, DeliveryInv, Begun
  <2>1. /\ Apart(h) /\ hooks'[h].run = r
        /\ UNCHANGED <<queue, jobs, sent>>
    BY <1>2, CreateFields DEF CreateRun, TypeInv, history
  <2>2. /\ runs'[r].status = "pending" /\ runs'[r].flow = f /\ runs'[r].event \in Event
        /\ \A q \in RunId \ {r} : runs'[q] = runs[q]
    BY <1>2, <2>0 DEF CreateRun, TypeInv, TypeOK
  <2>3. r # 0 /\ \A i \in JobId : Live(i) => jobs[i].run \in RunId
    BY LiveRun DEF RunId
  <2>4. \A g \in Hook : HookAt(g, "add") => hooks[g].run \in RunId
    BY StartRun
  <2> QED
    BY <2>1, <2>2, <2>3, <2>4 DEF LinkInv, Born, Live, Apart, HookAt
<1>3. ASSUME NEW h \in Hook, Enqueue(h) PROVE LinkInv'
  <2>1. Apart(h) /\ hooks'[h].pc = "create" /\ HookAt(h, "add") /\ UNCHANGED <<runs, sent>>
    BY <1>3, EnqueueFields DEF Enqueue, TypeInv, HookAt, history
  <2>2. hooks[h].run \in RunId /\ Born(hooks[h].run) /\ hooks[h].run # 0
    BY <2>1, StartRun DEF LinkInv
  <2>3. PICK i \in JobId : /\ NewJob(i, hooks[h].run, 1)
                           /\ \A l \in JobId \ {i} : jobs'[l] = jobs[l]
    <3>1. jobs \in [JobId -> Job] /\ 1 \in Nat \ {0} /\ AddJob(jobs, hooks[h].run, 1)
      BY <1>3 DEF Enqueue, TypeInv, TypeOK
    <3> QED
      BY <2>2, <3>1, AddFields
  <2>4. queue'[i] = "waiting" /\ \A l \in JobId \ {i} : queue'[l] = queue[l]
    BY <2>3 DEF NewJob, TypeInv, TypeOK
  <2> QED
    BY <2>1, <2>2, <2>3, <2>4 DEF NewJob, LinkInv, Born, Live, Apart, HookAt
<1>4. CASE QuietStep
  BY <1>4, QuietSteps DEF LinkInv, Born, Live, NoNewStart, SameJobs, HookAt
<1>5. CASE UNCHANGED vars
  BY <1>5 DEF vars, LinkInv, Born, Live, HookAt, history
<1> QED
  BY <1>1, <1>2, <1>3, <1>4, <1>5, NextCases

-----------------------------------------------------------------------------
(* Runs and the requests that owe one are counted against the deliveries.  *)
Counted(e, f) == Cardinality(AnswersOf(e, f)) + Cardinality(Owed(e, f)) <= deliveries[e]

LEMMA OneMore ==
  ASSUME NEW S, IsFiniteSet(S), NEW x
  PROVE  /\ IsFiniteSet(S \cup {x}) /\ Cardinality(S \cup {x}) <= Cardinality(S) + 1
         /\ Cardinality(S) \in Nat /\ Cardinality(S \cup {x}) \in Nat
<1>1. /\ IsFiniteSet(S \cup {x}) /\ Cardinality(S) \in Nat
      /\ \/ Cardinality(S \cup {x}) = Cardinality(S)
         \/ Cardinality(S \cup {x}) = Cardinality(S) + 1
  BY FS_AddElement, FS_CardinalityType
<1> QED
  BY <1>1

LEMMA FiniteSides ==
  ASSUME NEW e, NEW f
  PROVE  /\ IsFiniteSet(AnswersOf(e, f)) /\ Cardinality(AnswersOf(e, f)) \in Nat
         /\ IsFiniteSet(Owed(e, f)) /\ Cardinality(Owed(e, f)) \in Nat
<1>1. IsFiniteSet(RunId) /\ AnswersOf(e, f) \subseteq RunId
  BY FS_Interval DEF RunId, AnswersOf
<1>2. IsFiniteSet(Hook) /\ Owed(e, f) \subseteq Hook
  BY DEF Owed
<1> QED
  BY <1>1, <1>2, FS_Subset, FS_CardinalityType

LEMMA FiniteAfter ==
  ASSUME NEW e, NEW f
  PROVE  /\ IsFiniteSet(AnswersOf(e, f)') /\ Cardinality(AnswersOf(e, f)') \in Nat
         /\ IsFiniteSet(Owed(e, f)') /\ Cardinality(Owed(e, f)') \in Nat
<1>1. IsFiniteSet(RunId) /\ AnswersOf(e, f)' \subseteq RunId
  BY FS_Interval DEF RunId, AnswersOf
<1>2. IsFiniteSet(Hook) /\ Owed(e, f)' \subseteq Hook
  BY DEF Owed
<1> QED
  BY <1>1, <1>2, FS_Subset, FS_CardinalityType

LEMMA CountKept ==
  ASSUME NEW e \in Event, NEW f \in Flow, Counted(e, f),
         AnswersOf(e, f)' = AnswersOf(e, f), Owed(e, f)' \subseteq Owed(e, f),
         deliveries[e] \in Nat, deliveries'[e] = deliveries[e]
  PROVE  Counted(e, f)'
<1> DEFINE a == AnswersOf(e, f)
           o == Owed(e, f)
           p == Owed(e, f)'
<1>1. Cardinality(p) <= Cardinality(o) /\ Cardinality(p) \in Nat
  BY FiniteSides, FiniteAfter, FS_Subset
<1>2. Cardinality(a) + Cardinality(o) <= deliveries[e] /\ Cardinality(a) \in Nat
      /\ Cardinality(o) \in Nat
  BY FiniteSides DEF Counted
<1>3. Counted(e, f)' <=> (Cardinality(a) + Cardinality(p) <= deliveries[e])
  BY DEF Counted
<1> HIDE DEF a, o, p
<1> QED
  BY <1>1, <1>2, <1>3

(* A delivery pays for the request that takes it.                          *)
LEMMA CountDelivered ==
  ASSUME NEW e \in Event, NEW f \in Flow, Counted(e, f), NEW h \in Hook,
         AnswersOf(e, f)' = AnswersOf(e, f), Owed(e, f)' \subseteq Owed(e, f) \cup {h},
         deliveries[e] \in Nat, deliveries'[e] = deliveries[e] + 1
  PROVE  Counted(e, f)'
<1> DEFINE a == AnswersOf(e, f)
           o == Owed(e, f)
           p == Owed(e, f)'
<1>1. Cardinality(p) <= Cardinality(o) + 1 /\ Cardinality(p) \in Nat
  <2>1. IsFiniteSet(o \cup {h}) /\ Cardinality(o \cup {h}) <= Cardinality(o) + 1
    BY FiniteSides, OneMore
  <2>2. Cardinality(p) <= Cardinality(o \cup {h}) /\ Cardinality(o \cup {h}) \in Nat
    BY <2>1, FS_Subset, FS_CardinalityType
  <2> QED
    BY <2>1, <2>2, FiniteSides, FiniteAfter
<1>2. Cardinality(a) + Cardinality(o) <= deliveries[e] /\ Cardinality(a) \in Nat
      /\ Cardinality(o) \in Nat
  BY FiniteSides DEF Counted
<1>3. Counted(e, f)' <=> (Cardinality(a) + Cardinality(p) <= deliveries[e] + 1)
  BY DEF Counted
<1> HIDE DEF a, o, p
<1> QED
  BY <1>1, <1>2, <1>3

(* A run pays for the request that stored it.                              *)
LEMMA CountStored ==
  ASSUME NEW e \in Event, NEW f \in Flow, Counted(e, f), NEW h \in Owed(e, f), NEW r,
         AnswersOf(e, f)' = AnswersOf(e, f) \cup {r}, Owed(e, f)' \subseteq Owed(e, f) \ {h},
         deliveries[e] \in Nat, deliveries'[e] = deliveries[e]
  PROVE  Counted(e, f)'
<1> DEFINE a == AnswersOf(e, f)
           b == AnswersOf(e, f)'
           o == Owed(e, f)
           p == Owed(e, f)'
<1>1. Cardinality(p) <= Cardinality(o) - 1 /\ Cardinality(p) \in Nat
  <2>1. IsFiniteSet(o \ {h}) /\ Cardinality(o \ {h}) = Cardinality(o) - 1
    BY FiniteSides, FS_RemoveElement
  <2>2. Cardinality(p) <= Cardinality(o \ {h})
    BY <2>1, FS_Subset
  <2> QED
    BY <2>1, <2>2, FiniteAfter
<1>2. Cardinality(a) + Cardinality(o) <= deliveries[e] /\ Cardinality(a) \in Nat
      /\ Cardinality(o) \in Nat
  BY FiniteSides DEF Counted
<1>3. Cardinality(b) <= Cardinality(a) + 1 /\ Cardinality(b) \in Nat
  BY FiniteSides, FiniteAfter, OneMore
<1>4. Counted(e, f)' <=> (Cardinality(b) + Cardinality(p) <= deliveries[e])
  BY DEF Counted
<1> HIDE DEF a, b, o, p
<1> QED
  BY <1>1, <1>2, <1>3, <1>4

(* A request that goes on owes nothing new.                                *)
Busy(h) == hooks[h].pc \in Begun => hooks[h].event \in Event \ hooks[h].events
OwesLess(h) ==
  /\ hooks'[h].pc \in Begun => hooks'[h].event \in Event \ hooks'[h].events
  /\ \A e \in Event, f \in Flow : Owes(h, e, f)' => Owes(h, e, f)

LEMMA LessIsFine ==
  ASSUME TypeInv, DeliveryInv, \A h \in Hook : OwesLess(h),
         \A r \in RunId : runs'[r].flow = runs[r].flow /\ runs'[r].event = runs[r].event,
         deliveries' = deliveries
  PROVE  DeliveryInv'
<1>1. ASSUME NEW e \in Event, NEW f \in Flow
      PROVE  Counted(e, f)'
  <2>1. AnswersOf(e, f)' = AnswersOf(e, f)
    BY DEF AnswersOf
  <2>2. Owed(e, f)' \subseteq Owed(e, f)
    BY DEF Owed, OwesLess
  <2> QED
    BY <2>1, <2>2, CountKept DEF DeliveryInv, Counted, TypeInv, TypeOK
<1> QED
  BY <1>1 DEF DeliveryInv, Counted, OwesLess

LEMMA OthersOweLess ==
  ASSUME DeliveryInv, NEW h \in Hook, Apart(h), OwesLess(h)
  PROVE  \A g \in Hook : OwesLess(g)
<1> SUFFICES ASSUME NEW g \in Hook, ~(g = h) PROVE OwesLess(g)
  OBVIOUS
<1>1. hooks'[g] = hooks[g]
  BY DEF Apart
<1>2. hooks[g].pc \in Begun => hooks[g].event \in Event \ hooks[g].events
  BY DEF DeliveryInv
<1> QED
  BY <1>1, <1>2 DEF OwesLess, Owes

LEMMA WaitingOwes == ASSUME NEW h \in Hook, hooks'[h] = Waiting PROVE OwesLess(h)
  BY WaitingFields DEF OwesLess, Owes, Begun

LEMMA DeliveryStep ==
  ASSUME TypeInv, LinkInv, DeliveryInv, [Next]_vars
  PROVE  DeliveryInv'
<1>0. TypeOK
  BY DEF TypeInv
<1>1. ASSUME NEW j \in JobId, JobStep(j) PROVE DeliveryInv'
  <2>1. UNCHANGED <<hooks, deliveries>> /\ RunsKept
    BY <1>1, JobsKeepRows
  <2>2. \A h \in Hook : OwesLess(h)
    BY <2>1 DEF OwesLess, Owes, DeliveryInv
  <2> QED
    BY <2>1, <2>2, LessIsFine DEF RunsKept
<1>2. ASSUME NEW h \in Hook, NEW f \in Flow, NEW r \in RunId, CreateRun(h, f, r)
      PROVE  DeliveryInv'
  <2>1. /\ Apart(h) /\ hooks[h].pc = "create" /\ hooks'[h].pc = "add"
        /\ hooks'[h].events = hooks[h].events /\ hooks'[h].event = hooks[h].event
        /\ hooks'[h].flows = hooks[h].flows \ {f} /\ f \in hooks[h].flows
        /\ deliveries' = deliveries
    BY <1>2, <1>0, CreateFields DEF CreateRun
  <2>2. hooks[h].event \in Event \ hooks[h].events
    BY <2>1 DEF DeliveryInv, Begun
  <2>3. /\ runs'[r].flow = f /\ runs'[r].event = hooks[h].event /\ runs[r].event = Nil
        /\ \A q \in RunId \ {r} : runs'[q] = runs[q]
    BY <1>2, <1>0 DEF CreateRun, TypeOK, Unborn
  <2>4. \A g \in Hook : OwesLess(g)
    <3>1. OwesLess(h)
      BY <2>1, <2>2 DEF OwesLess, Owes, Begun
    <3> QED
      BY <2>1, <3>1, OthersOweLess
  <2>5. ASSUME NEW e \in Event, NEW g \in Flow PROVE Counted(e, g)'
    <3>1. deliveries'[e] = deliveries[e] /\ deliveries[e] \in Nat /\ Counted(e, g)
      BY <2>1, <1>0 DEF TypeOK, DeliveryInv, Counted
    <3>2. Owed(e, g)' \subseteq Owed(e, g)
      BY <2>4 DEF Owed, OwesLess
    <3>3. CASE e = hooks[h].event /\ g = f
      <4>1. AnswersOf(e, g)' = AnswersOf(e, g) \cup {r}
        BY <2>3, <3>3 DEF AnswersOf
      <4>2. h \in Owed(e, g)
        BY <2>1, <3>3 DEF Owed, Owes
      <4>3. ~Owes(h, e, g)'
        BY <2>1, <2>2, <3>3 DEF Owes
      <4>4. Owed(e, g)' \subseteq Owed(e, g) \ {h}
        BY <3>2, <4>3 DEF Owed
      <4> QED
        BY <3>1, <4>1, <4>2, <4>4, CountStored
    <3>4. CASE ~(e = hooks[h].event /\ g = f)
      <4>1. Nil \notin Event
        OBVIOUS
      <4>2. AnswersOf(e, g)' = AnswersOf(e, g)
        BY <2>3, <3>4, <4>1 DEF AnswersOf
      <4> QED
        BY <3>1, <3>2, <4>2, CountKept
    <3> QED
      BY <3>3, <3>4
  <2> QED
    BY <2>4, <2>5 DEF DeliveryInv, Counted, OwesLess
<1>3. ASSUME NEW h \in Hook, Enqueue(h) PROVE DeliveryInv'
  <2>1. /\ Apart(h) /\ hooks[h].pc = "add" /\ hooks'[h].pc = "create"
        /\ hooks'[h].events = hooks[h].events /\ hooks'[h].event = hooks[h].event
        /\ hooks'[h].flows = hooks[h].flows /\ UNCHANGED <<runs, deliveries>>
    BY <1>3, <1>0, EnqueueFields DEF Enqueue
  <2>2. OwesLess(h)
    BY <2>1 DEF OwesLess, Owes, DeliveryInv, Begun
  <2> QED
    BY <2>1, <2>2, OthersOweLess, LessIsFine
<1>4. ASSUME NEW h \in Hook, HookGoesOn(h) PROVE DeliveryInv'
  <2>1. ASSUME NEW batch \in SUBSET Event, Receive(h, batch) PROVE DeliveryInv'
    <3>1. /\ Apart(h) /\ hooks'[h].pc = "next" /\ hooks'[h].events = batch
          /\ runs' = runs
      BY <2>1, <1>0, ReceiveFields DEF Receive
    <3>2. ASSUME NEW e \in Event, NEW f \in Flow PROVE Counted(e, f)'
      <4>1. AnswersOf(e, f)' = AnswersOf(e, f) /\ Counted(e, f) /\ deliveries[e] \in Nat
        BY <3>1, <1>0 DEF AnswersOf, DeliveryInv, Counted, TypeOK
      <4>2. CASE e \in batch
        <5>1. deliveries'[e] = deliveries[e] + 1
          BY <2>1, <4>2 DEF Receive
        <5>2. Owed(e, f)' \subseteq Owed(e, f) \cup {h}
          BY <3>1 DEF Owed, Owes, Apart
        <5> QED
          BY <4>1, <5>1, <5>2, CountDelivered
      <4>3. CASE e \notin batch
        <5>1. deliveries'[e] = deliveries[e]
          BY <2>1, <4>3 DEF Receive
        <5>2. Owed(e, f)' \subseteq Owed(e, f)
          BY <3>1, <4>3 DEF Owed, Owes, Apart
        <5> QED
          BY <4>1, <5>1, <5>2, CountKept
      <4> QED
        BY <4>2, <4>3
    <3>3. \A g \in Hook : hooks'[g].pc \in Begun => hooks'[g].event \in Event \ hooks'[g].events
      BY <3>1 DEF DeliveryInv, Begun, Apart
    <3> QED
      BY <3>2, <3>3 DEF DeliveryInv, Counted
  <2>2. ASSUME NEW g \in Hook, Apart(g), OwesLess(g), UNCHANGED <<runs, deliveries>>
        PROVE  DeliveryInv'
    BY <2>2, OthersOweLess, LessIsFine
  <2>3. CASE NextEvent(h)
    <3>1. Apart(h) /\ hooks[h].pc = "next" /\ UNCHANGED <<runs, deliveries>>
      BY <2>3, <1>0, NextEventFields DEF NextEvent, HookOnly
    <3>2. OwesLess(h)
      <4>1. CASE hooks'[h] = Waiting
        BY <4>1, WaitingOwes
      <4>2. ASSUME NEW e \in hooks[h].events,
                   hooks'[h].events = hooks[h].events \ {e}, hooks'[h].event = e,
                   hooks'[h].pc \in {"addon", "next"}
            PROVE  OwesLess(h)
        <5>1. e \in Event
          BY <1>0, HookFields
        <5> QED
          BY <4>2, <5>1 DEF OwesLess, Owes, Begun
      <4> QED
        BY <2>3, <1>0, <4>1, <4>2, NextEventFields
    <3> QED
      BY <3>1, <3>2, <2>2
  <2>4. CASE ReadAddon(h)
    <3>1. PICK pc \in {"match", "next"} : HookGoto(h, pc)
      BY <2>4 DEF ReadAddon
    <3>2. /\ Apart(h) /\ hooks'[h].pc = pc /\ hooks[h].pc = "addon"
          /\ hooks'[h].events = hooks[h].events /\ hooks'[h].event = hooks[h].event
          /\ UNCHANGED <<runs, deliveries>>
      BY <2>4, <3>1, <1>0, HookGotoFields
        DEF HookPc, ReadAddon, HookOnly, HookAt
    <3>3. OwesLess(h)
      BY <3>2 DEF OwesLess, Owes, DeliveryInv, Begun
    <3> QED
      BY <3>2, <3>3, <2>2
  <2>5. CASE FindMatchingFlows(h)
    <3>1. /\ Apart(h) /\ hooks'[h].pc = "create" /\ hooks[h].pc = "match"
          /\ hooks'[h].events = hooks[h].events /\ hooks'[h].event = hooks[h].event
          /\ UNCHANGED <<runs, deliveries>>
      BY <2>5, <1>0, MatchFields DEF FindMatchingFlows, HookOnly
    <3>2. OwesLess(h)
      BY <3>1 DEF OwesLess, Owes, DeliveryInv, Begun
    <3> QED
      BY <3>1, <3>2, <2>2
  <2>6. CASE Enqueued(h)
    <3>1. /\ Apart(h) /\ hooks'[h].pc = "next"
          /\ hooks'[h].events = hooks[h].events /\ UNCHANGED <<runs, deliveries>>
      BY <2>6, <1>0, HookGotoFields DEF HookPc, Enqueued, HookOnly
    <3>2. OwesLess(h)
      BY <3>1 DEF OwesLess, Owes, Begun
    <3> QED
      BY <3>1, <3>2, <2>2
  <2>7. CASE HookFails(h)
    <3>1. Apart(h) /\ hooks'[h] = Waiting /\ UNCHANGED <<runs, deliveries>>
      BY <2>7, <1>0 DEF HookFails, TypeOK, Apart
    <3> QED
      BY <3>1, WaitingOwes, <2>2
  <2> QED
    BY <1>4, <2>1, <2>3, <2>4, <2>5, <2>6, <2>7 DEF HookGoesOn
<1>5. CASE Crash
  <2>1. UNCHANGED <<runs, deliveries>> /\ \A h \in Hook : hooks'[h] = Waiting
    BY <1>5 DEF Crash
  <2> QED
    BY <2>1, WaitingOwes, LessIsFine
<1>6. CASE Edits \/ UNCHANGED vars
  <2>1. UNCHANGED <<runs, hooks, deliveries>>
    BY <1>6 DEF Edits, UpdateFlow, AddonChanges, WorkspaceDeleted, vars
  <2>2. \A h \in Hook : OwesLess(h)
    BY <2>1 DEF OwesLess, Owes, DeliveryInv
  <2> QED
    BY <2>1, <2>2, LessIsFine
<1> QED
  BY <1>1, <1>2, <1>3, <1>4, <1>5, <1>6, NextCases DEF QuietStep

-----------------------------------------------------------------------------
(* A run that is not forked is in one place, and what it sent is in order. *)
Behind == {"add", "fail", "over"}
CarriedOn(i, r) ==
  /\ Carries(i, r) /\ jobs'[i].order = jobs[i].order
  /\ jobs[i].pc \in Behind => jobs'[i].pc \in Behind \/ ~HasSent(i)
CarryKept ==
  \A r \in RunId \ forked', i \in JobId :
    queue'[i] \in {"waiting", "active", "stalled"} /\ jobs'[i].run = r /\ jobs'[i].pc # "added"
      => CarriedOn(i, r)

LEMMA MovesCarry ==
  ASSUME NEW j \in JobId, NEW pc \in Pc, Moves(j, pc), forked \subseteq forked',
         \/ jobs[j].pc # "added" /\ (jobs[j].pc \in Behind => pc \in Behind \/ ~HasSent(j))
         \/ jobs[j].run \in forked'
  PROVE  CarryKept
<1> SUFFICES ASSUME NEW r \in RunId \ forked', NEW i \in JobId,
                    queue'[i] \in {"waiting", "active", "stalled"},
                    jobs'[i].run = r, jobs'[i].pc # "added"
             PROVE  CarriedOn(i, r)
  BY DEF CarryKept
<1>1. CASE i = j
  BY <1>1 DEF Moves, Same, CarriedOn, Carries
<1>2. CASE ~(i = j)
  BY <1>2 DEF Moves, Still, CarriedOn, Carries, Live
<1> QED
  BY <1>1, <1>2

LEMMA LeavesCarry ==
  ASSUME NEW j \in JobId, Leaves(j) PROVE CarryKept
  BY DEF Leaves, Still, CarryKept, CarriedOn, Carries, Live

LEMMA AddsCarry ==
  ASSUME NEW j \in JobId, NEW i \in JobId \ {j}, Adds(j, i, "fail"),
         forked' = forked \cup {jobs[j].run}
  PROVE  CarryKept
<1> SUFFICES ASSUME NEW r \in RunId \ forked', NEW l \in JobId,
                    queue'[l] \in {"waiting", "active", "stalled"},
                    jobs'[l].run = r, jobs'[l].pc # "added"
             PROVE  CarriedOn(l, r)
  BY DEF CarryKept
<1>1. ~(l = j) /\ ~(l = i)
  BY DEF Adds, Same
<1> QED
  BY <1>1 DEF Adds, Still, CarriedOn, Carries, Live

LEMMA JobsCarry ==
  ASSUME TypeInv, LinkInv, NEW j \in JobId, JobStep(j), ~AddNext(j)
  PROVE  CarryKept
<1>0. forked \subseteq forked'
  BY JobsKeepRows
<1>1. CASE Take(j)
  BY <1>0, <1>1, TakeMoves, MovesCarry DEF Pc, Behind
<1>2. CASE ReadStep(j)
  BY <1>0, <1>2, ReadMoves, MovesCarry DEF Pc, Behind
<1>3. CASE ReadAccount(j)
  BY <1>0, <1>3, AccountMoves, MovesCarry DEF Pc, Behind
<1>4. CASE Execute(j)
  BY <1>0, <1>4, ExecuteMoves, MovesCarry DEF Pc, Behind
<1>5. CASE ExecuteFails(j)
  BY <1>0, <1>5, ThrowMoves, MovesCarry DEF Pc, Behind
<1>6. CASE AddFails(j)
  <2>1. jobs[j].pc = "add"
    BY <1>6, AddFailsMoves
  <2>2. CASE Moves(j, "fail")
    BY <1>0, <2>1, <2>2, MovesCarry DEF Pc, Behind
  <2> QED
    BY <1>6, <2>2, AddFailsMoves, AddsCarry
<1>7. CASE Complete(j) \/ MarkFailed(j)
  <2>1. Moves(j, "over") /\ jobs[j].pc \in {"complete", "fail"}
    BY <1>7, EndsMoves DEF Complete, MarkFailed
  <2> QED
    BY <1>0, <2>1, MovesCarry DEF Pc, Behind
<1>8. CASE Finish(j) \/ JobFails(j)
  BY <1>8, EndedLeaves, LeavesCarry
<1>9. CASE Restalled(j)
  <2>1. CASE Leaves(j)
    BY <2>1, LeavesCarry
  <2>2. CASE /\ Moves(j, "step")
             /\ forked' = IF jobs[j].pc = "added" \/ HasSent(j)
                            THEN forked \cup {jobs[j].run} ELSE forked
    BY <1>0, <2>2, MovesCarry DEF Pc, Behind
  <2> QED
    BY <1>9, <2>1, <2>2, RestalledMoves
<1> QED
  BY <1>1, <1>2, <1>3, <1>4, <1>5, <1>6, <1>7, <1>8, <1>9 DEF JobStep, Worker

(* A message is only sent by the job of its run.                           *)
LEMMA SentByJob ==
  ASSUME TypeInv, LinkInv, NEW j \in JobId, JobStep(j), NEW r \in RunId, sent'[r] # sent[r]
  PROVE  /\ Execute(j) /\ Carries(j, r) /\ jobs[j].pc = "act" /\ jobs[j].step = "send"
         /\ sent'[r] = Append(sent[r], jobs[j].order) /\ Moves(j, "add")
<1>1. Execute(j)
  BY
    DEF JobStep, Worker, Take, ReadStep, ReadAccount, AddNext, AddsNext,
        Complete,
       MarkFailed, Ends, Finish, Restalled, ExecuteFails, ExecuteThrows, AddFails, JobFails,
       history
<1>2. jobs[j].step = "send" /\ sent' = [sent EXCEPT ![jobs[j].run] = Append(@, jobs[j].order)]
  BY <1>1 DEF Execute
<1>3. jobs[j].run = r /\ sent'[r] = Append(sent[r], jobs[j].order)
  BY <1>2 DEF TypeInv, TypeOK
<1> QED
  BY <1>1, <1>2, <1>3, ExecuteMoves DEF Carries, Live

LEMMA OneKept ==
  ASSUME OneInv, forked \subseteq forked', NoNewStart, CarryKept,
         \A r \in RunId \ forked' : (\E h \in Hook : Starts(h, r)) => sent'[r] = sent[r]
  PROVE  OneInv'
<1> SUFFICES ASSUME NEW r \in RunId \ forked'
             PROVE  (/\ \A i, j \in JobId : Carries(i, r) /\ Carries(j, r) => i = j
                     /\ \A h \in Hook : Starts(h, r) =>
                          /\ sent[r] = <<>>
                          /\ \A g \in Hook : Starts(g, r) => g = h
                          /\ \A j \in JobId : ~Carries(j, r))'
  BY DEF OneInv
<1>1. r \in RunId \ forked
  OBVIOUS
<1>2. \A i \in JobId : Carries(i, r)' => Carries(i, r)
  BY DEF CarryKept, Carries, Live, CarriedOn
<1>3. \A h \in Hook : Starts(h, r)' => Starts(h, r)
  BY DEF NoNewStart, Starts, HookAt
<1> QED
  BY <1>1, <1>2, <1>3 DEF OneInv

LEMMA OrderKept ==
  ASSUME TypeInv, OrderInv, forked \subseteq forked', CarryKept,
         UNCHANGED sent
  PROVE  OrderInv'
<1> SUFFICES ASSUME NEW r \in RunId \ forked'
             PROVE  (/\ Increasing(sent[r])
                     /\ \A j \in JobId : Carries(j, r) => \A i \in DOMAIN sent[r] :
                          \/ sent[r][i] < jobs[j].order
                          \/ sent[r][i] = jobs[j].order /\ jobs[j].pc \in {"add", "fail", "over"})'
  BY DEF OrderInv
<1>1. Increasing(sent[r])'
  BY DEF OrderInv, Increasing
<1>2. ASSUME NEW j \in JobId, Carries(j, r)', NEW i \in DOMAIN sent[r]
      PROVE  \/ sent[r][i] < jobs'[j].order
             \/ sent[r][i] = jobs'[j].order /\ jobs'[j].pc \in Behind
  <2>1. CarriedOn(j, r)
    BY <1>2 DEF CarryKept, Carries, Live
  <2>2. \/ sent[r][i] < jobs[j].order
        \/ sent[r][i] = jobs[j].order /\ jobs[j].pc \in Behind
    BY <1>2, <2>1 DEF CarriedOn, OrderInv, Behind
  <2> QED
    BY <1>2, <2>1, <2>2 DEF CarriedOn, HasSent, Carries
<1> QED
  BY <1>1, <1>2 DEF Behind

LEMMA QuietCarry ==
  ASSUME SameJobs, UNCHANGED forked PROVE CarryKept
  BY DEF SameJobs, CarryKept, CarriedOn, Carries, Live

LEMMA AddNextOnce ==
  ASSUME TypeInv, LinkInv, OneInv, OrderInv, NEW j \in JobId, AddNext(j)
  PROVE  OneInv' /\ OrderInv'
<1> DEFINE r == jobs[j].run
<1>1. PICK i \in JobId \ {j} : Adds(j, i, "added")
  BY AddNextMoves
<1>2. jobs[j].pc = "add" /\ Live(j) /\ UNCHANGED <<sent, forked, hooks>>
  BY AddNextMoves DEF AddNext, AddsNext, JobAt, Live, JobOnly, history
<1>3. r \in RunId /\ Carries(j, r) /\ jobs[j].order \in Nat
  BY <1>2, LiveRun, JobFields DEF Carries, TypeInv
<1>4. ASSUME NEW q \in RunId \ forked', NEW l \in JobId
      PROVE  /\ Carries(l, q)' => \/ l = i /\ q = r
                                  \/ Carries(l, q) /\ jobs'[l] = jobs[l]
             /\ q = r => ~(Carries(l, q)' /\ l # i)
  <2>1. CASE l = i
    BY <1>1, <1>3, <2>1 DEF Adds, Carries
  <2>2. CASE l = j
    BY <1>1, <2>2 DEF Adds, Carries
  <2>3. CASE ~(l = i) /\ ~(l = j)
    <3>1. jobs'[l] = jobs[l] /\ queue'[l] = queue[l]
      BY <1>1, <2>3 DEF Adds, Still
    <3>2. q = r => ~Carries(l, q)
      BY <1>2, <1>3, <2>3 DEF OneInv
    <3> QED
      BY <2>3, <3>1, <3>2 DEF Carries, Live
  <2> QED
    BY <2>1, <2>2, <2>3
<1>5. ASSUME NEW h \in Hook, NEW q \in RunId \ forked, Starts(h, q)
      PROVE  q # r
  BY <1>3, <1>5 DEF OneInv
<1> HIDE DEF r
<1>6. OneInv'
  <2>1. ASSUME NEW q \in RunId \ forked'
        PROVE  /\ \A k, l \in JobId : Carries(k, q)' /\ Carries(l, q)' => k = l
               /\ \A h \in Hook : Starts(h, q)' =>
                    /\ sent'[q] = <<>>
                    /\ \A g \in Hook : Starts(g, q)' => g = h
                    /\ \A l \in JobId : ~Carries(l, q)'
    <3>1. \A h \in Hook : Starts(h, q)' <=> Starts(h, q)
      BY <1>2 DEF Starts, HookAt
    <3>2. q \in RunId \ forked /\ sent' = sent
      BY <1>2
    <3> QED
      BY <1>4, <1>5, <3>1, <3>2 DEF OneInv
  <2> QED
    BY <2>1 DEF OneInv
<1>7. OrderInv'
  <2>1. ASSUME NEW q \in RunId \ forked', NEW l \in JobId, Carries(l, q)',
               NEW k \in DOMAIN sent[q]
        PROVE  \/ sent[q][k] < jobs'[l].order
               \/ sent[q][k] = jobs'[l].order /\ jobs'[l].pc \in {"add", "fail", "over"}
    <3>1. CASE l = i /\ q = r
      <4>1. jobs'[l].order = jobs[j].order + 1
        BY <1>1, <3>1 DEF Adds
      <4>2. sent[q][k] \in Nat
        BY DEF TypeInv, TypeOK
      <4>3. sent[q][k] <= jobs[j].order
        BY <1>2, <1>3, <3>1, <2>1, <4>2 DEF OrderInv
      <4> QED
        BY <1>3, <4>1, <4>2, <4>3
    <3>2. CASE Carries(l, q) /\ jobs'[l] = jobs[l]
      BY <1>2, <2>1, <3>2 DEF OrderInv
    <3> QED
      BY <1>4, <2>1, <3>1, <3>2
  <2> QED
    BY <1>2, <2>1 DEF OrderInv, Increasing
<1> QED
  BY <1>6, <1>7

LEMMA ExecuteInOrder ==
  ASSUME TypeInv, LinkInv, OneInv, OrderInv, NEW j \in JobId, Execute(j)
  PROVE  OrderInv'
<1>1. JobStep(j) /\ ~AddNext(j) /\ Moves(j, "add") /\ forked' = forked
      /\ jobs[j].pc = "act"
  BY ExecuteMoves DEF JobStep, Worker, AddNext, AddsNext, JobAt, Execute
<1>2. CarryKept
  BY <1>1, JobsCarry
<1>3. ASSUME NEW r \in RunId \ forked', sent'[r] = sent[r]
      PROVE  (/\ Increasing(sent[r])
              /\ \A i \in JobId : Carries(i, r) => \A k \in DOMAIN sent[r] :
                   \/ sent[r][k] < jobs[i].order
                   \/ sent[r][k] = jobs[i].order /\ jobs[i].pc \in Behind)'
  <2>1. ASSUME NEW i \in JobId, Carries(i, r)', NEW k \in DOMAIN sent[r]
        PROVE  \/ sent[r][k] < jobs'[i].order
               \/ sent[r][k] = jobs'[i].order /\ jobs'[i].pc \in Behind
    <3>1. CarriedOn(i, r)
      BY <1>2, <2>1 DEF CarryKept, Carries, Live
    <3>2. \/ sent[r][k] < jobs[i].order
          \/ sent[r][k] = jobs[i].order /\ jobs[i].pc \in Behind
      BY <1>1, <2>1, <3>1 DEF CarriedOn, OrderInv, Behind
    <3> QED
      BY <2>1, <3>1, <3>2 DEF CarriedOn, HasSent, Carries
  <2> QED
    BY <1>1, <1>3, <2>1 DEF OrderInv, Increasing
<1>4. ASSUME NEW r \in RunId \ forked', sent'[r] # sent[r]
      PROVE  (/\ Increasing(sent[r])
              /\ \A i \in JobId : Carries(i, r) => \A k \in DOMAIN sent[r] :
                   \/ sent[r][k] < jobs[i].order
                   \/ sent[r][k] = jobs[i].order /\ jobs[i].pc \in Behind)'
  <2> DEFINE n == jobs[j].order
             s == sent[r]
  <2>1. Carries(j, r) /\ sent'[r] = Append(s, n) /\ s \in Seq(Nat) /\ n \in Nat
    BY <1>1, <1>4, SentByJob, JobFields DEF TypeInv, TypeOK
  <2>2. Increasing(s) /\ \A k \in DOMAIN s : s[k] < n
    BY <1>1, <2>1 DEF OrderInv
  <2>3. jobs'[j].order = n /\ jobs'[j].pc = "add"
    BY <1>1 DEF Moves, Same
  <2>4. \A i \in JobId : Carries(i, r)' => i = j
    BY <1>1, <1>2, <2>1 DEF CarryKept, CarriedOn, Carries, Live, OneInv
  <2> HIDE DEF s, n
  <2>5. /\ DOMAIN Append(s, n) = 1..Len(s) + 1 /\ DOMAIN s = 1..Len(s) /\ Len(s) \in Nat
        /\ \A k \in 1..Len(s) : Append(s, n)[k] = s[k] /\ s[k] \in Nat
        /\ Append(s, n)[Len(s) + 1] = n
    BY <2>1
  <2>6. Increasing(Append(s, n)) /\ \A k \in DOMAIN Append(s, n) : Append(s, n)[k] <= n
    BY <2>1, <2>2, <2>5 DEF Increasing
  <2>7. \A k \in DOMAIN Append(s, n) : Append(s, n)[k] \in Nat
    BY <2>1, <2>5
  <2> QED
    BY <2>1, <2>3, <2>4, <2>6, <2>7 DEF Behind
<1> QED
  BY <1>3, <1>4 DEF OrderInv, Behind

LEMMA CreateOnce ==
  ASSUME TypeInv, LinkInv, OneInv, OrderInv,
         NEW h \in Hook, NEW f \in Flow, NEW r \in RunId, CreateRun(h, f, r)
  PROVE  OneInv' /\ OrderInv'
<1>1. Apart(h) /\ hooks'[h].run = r /\ UNCHANGED <<queue, jobs, sent, forked>>
  BY CreateFields DEF CreateRun, TypeInv, history
<1>2. ~Born(r)
  BY DEF CreateRun, Born, Unborn
<1>3. \A i \in JobId : ~Carries(i, r)
  BY <1>2 DEF LinkInv, Carries
<1>4. \A g \in Hook : ~Starts(g, r)
  BY <1>2 DEF LinkInv, Starts
<1>5. sent[r] = <<>>
  BY <1>2 DEF LinkInv
<1>6. \A i \in JobId, q \in RunId : Carries(i, q)' <=> Carries(i, q)
  BY <1>1 DEF Carries, Live
<1>7. \A g \in Hook, q \in RunId : Starts(g, q)' => Starts(g, q) \/ (g = h /\ q = r)
  BY <1>1 DEF Starts, HookAt, Apart
<1>8. ASSUME NEW q \in RunId \ forked
      PROVE  /\ \A k, l \in JobId : Carries(k, q)' /\ Carries(l, q)' => k = l
             /\ \A d \in Hook : Starts(d, q)' =>
                    /\ sent'[q] = <<>>
                    /\ \A g \in Hook : Starts(g, q)' => g = d
                    /\ \A l \in JobId : ~Carries(l, q)'
  BY <1>1, <1>3, <1>4, <1>5, <1>6, <1>7 DEF OneInv
<1>9. OneInv'
  BY <1>1, <1>8 DEF OneInv
<1>10. OrderInv'
  BY <1>1, <1>6 DEF OrderInv, Increasing
<1> QED
  BY <1>9, <1>10

LEMMA EnqueueJob ==
  ASSUME TypeInv, LinkInv, NEW h \in Hook, Enqueue(h)
  PROVE  /\ Apart(h) /\ hooks'[h].pc = "create" /\ HookAt(h, "add")
         /\ hooks[h].run \in RunId /\ Born(hooks[h].run)
         /\ UNCHANGED <<flows, runs, sent, forked, edited>>
         /\ \E i \in JobId :
              /\ ~Live(i) /\ queue'[i] = "waiting" /\ jobs'[i].pc = "step"
              /\ jobs'[i].run = hooks[h].run /\ jobs'[i].order = 1
              /\ \A l \in JobId \ {i} : Still(l)
<1>1. /\ Apart(h) /\ hooks'[h].pc = "create" /\ HookAt(h, "add")
      /\ UNCHANGED <<flows, runs, sent, forked, edited>>
  BY EnqueueFields DEF Enqueue, TypeInv, HookAt, history
<1>2. hooks[h].run \in RunId /\ Born(hooks[h].run)
  BY <1>1, StartRun
<1>3. jobs \in [JobId -> Job] /\ 1 \in Nat \ {0} /\ AddJob(jobs, hooks[h].run, 1)
  BY DEF Enqueue, TypeInv, TypeOK
<1>4. PICK i \in JobId : /\ NewJob(i, hooks[h].run, 1)
                         /\ \A l \in JobId \ {i} : jobs'[l] = jobs[l]
  BY <1>2, <1>3, AddFields
<1>5. queue'[i] = "waiting" /\ \A l \in JobId \ {i} : queue'[l] = queue[l]
  BY <1>4 DEF NewJob, TypeInv, TypeOK
<1> QED
  BY <1>1, <1>2, <1>4, <1>5 DEF NewJob, Still

LEMMA EnqueueOnce ==
  ASSUME TypeInv, LinkInv, OneInv, OrderInv, NEW h \in Hook, Enqueue(h)
  PROVE  OneInv' /\ OrderInv'
<1> DEFINE r == hooks[h].run
<1>1. /\ Apart(h) /\ hooks'[h].pc = "create" /\ Starts(h, r) /\ r \in RunId
      /\ UNCHANGED <<sent, forked>>
  BY EnqueueJob DEF Starts
<1>2. PICK i \in JobId : /\ ~Live(i) /\ queue'[i] = "waiting" /\ jobs'[i].run = r
                         /\ \A l \in JobId \ {i} : Still(l)
  BY EnqueueJob
<1> HIDE DEF r
<1>3. \A l \in JobId, q \in RunId :
         Carries(l, q)' => \/ l = i /\ q = r
                           \/ l # i /\ Carries(l, q) /\ jobs'[l] = jobs[l]
  BY <1>2 DEF Carries, Live, Still
<1>4. \A g \in Hook, q \in RunId : Starts(g, q)' => g # h /\ Starts(g, q)
  BY <1>1 DEF Starts, HookAt, Apart
<1>5. ASSUME NEW q \in RunId \ forked
      PROVE  /\ \A k, l \in JobId : Carries(k, q)' /\ Carries(l, q)' => k = l
             /\ \A d \in Hook : Starts(d, q)' =>
                    /\ sent'[q] = <<>>
                    /\ \A g \in Hook : Starts(g, q)' => g = d
                    /\ \A l \in JobId : ~Carries(l, q)'
  <2>1. CASE q = r
    <3>1. \A g \in Hook : ~Starts(g, q)'
      BY <1>1, <1>4, <2>1 DEF OneInv
    <3>2. \A l \in JobId : Carries(l, q)' => l = i
      BY <1>1, <1>3, <2>1 DEF OneInv
    <3> QED
      BY <3>1, <3>2
  <2>2. CASE ~(q = r)
    <3>1. \A l \in JobId : Carries(l, q)' => Carries(l, q)
      BY <1>3, <2>2
    <3> QED
      BY <1>1, <1>4, <3>1 DEF OneInv
  <2> QED
    BY <2>1, <2>2
<1>6. OneInv'
  BY <1>1, <1>5 DEF OneInv
<1>7. ASSUME NEW q \in RunId \ forked, NEW l \in JobId, Carries(l, q)',
             NEW k \in DOMAIN sent[q]
      PROVE  \/ sent[q][k] < jobs'[l].order
             \/ sent[q][k] = jobs'[l].order /\ jobs'[l].pc \in {"add", "fail", "over"}
  <2>1. CASE l = i /\ q = r
    <3>1. sent[q] = <<>>
      BY <1>1, <2>1 DEF OneInv
    <3> QED
      BY <3>1
  <2>2. CASE Carries(l, q) /\ jobs'[l] = jobs[l]
    BY <1>7, <2>2 DEF OrderInv
  <2> QED
    BY <1>3, <1>7, <2>1, <2>2
<1>8. OrderInv'
  BY <1>1, <1>7 DEF OrderInv, Increasing
<1> QED
  BY <1>6, <1>8

LEMMA OrderStep ==
  ASSUME TypeInv, LinkInv, OneInv, OrderInv, [Next]_vars
  PROVE  OneInv' /\ OrderInv'
<1>1. ASSUME NEW j \in JobId, JobStep(j) PROVE OneInv' /\ OrderInv'
  <2>1. CASE AddNext(j)
    BY <2>1, AddNextOnce
  <2>2. CASE ~AddNext(j)
    <3>1. CarryKept /\ forked \subseteq forked' /\ UNCHANGED hooks
      BY <1>1, <2>2, JobsCarry, JobsKeepRows
    <3>2. NoNewStart
      BY <3>1 DEF NoNewStart
    <3>3. ASSUME NEW r \in RunId \ forked', NEW h \in Hook, Starts(h, r)
          PROVE  sent'[r] = sent[r]
      BY <1>1, <3>1, <3>3, SentByJob DEF OneInv
    <3>4. OneInv'
      BY <3>1, <3>2, <3>3, OneKept
    <3>5. CASE Execute(j)
      BY <3>4, <3>5, ExecuteInOrder
    <3>6. CASE ~Execute(j)
      <4>1. UNCHANGED sent
        BY <1>1, <3>6
          DEF JobStep, Worker, Take, ReadStep, ReadAccount, AddNext, AddsNext,
              Complete,
            MarkFailed, Ends, Finish, Restalled, ExecuteFails, ExecuteThrows, AddFails,
            JobFails, history
      <4> QED
        BY <3>1, <3>4, <4>1, OrderKept
    <3> QED
      BY <3>5, <3>6
  <2> QED
    BY <2>1, <2>2
<1>2. CASE \E h \in Hook, f \in Flow, r \in RunId : CreateRun(h, f, r)
  BY <1>2, CreateOnce
<1>3. CASE \E h \in Hook : Enqueue(h)
  BY <1>3, EnqueueOnce
<1>4. CASE QuietStep
  BY <1>4, QuietSteps, QuietCarry, OneKept, OrderKept
<1>5. CASE UNCHANGED vars
  <2>1. NoNewStart /\ SameJobs /\ UNCHANGED <<sent, forked>>
    BY <1>5 DEF vars, history, NoNewStart, SameJobs, Live
  <2> QED
    BY <2>1, QuietCarry, OneKept, OrderKept
<1> QED
  BY <1>1, <1>2, <1>3, <1>4, <1>5, NextCases

-----------------------------------------------------------------------------
(* A job has the messages of its script behind it.                         *)
LEMMA ScriptType ==
  ASSUME TypeInv, LinkInv, NEW r \in RunId, Born(r)
  PROVE  /\ runs[r].flow \in Flow
         /\ \E n \in Nat : DOMAIN ScriptOf(r) = 1..n
<1>1. runs[r].flow \in Flow
  BY DEF LinkInv
<1>2. ScriptOf(r) \in Script \cup {<<>>}
  BY <1>1 DEF ScriptOf, TypeInv, TypeOK
<1>3. Script \subseteq Seq(Step) /\ <<>> \in Seq(Step)
  OBVIOUS
<1>4. ScriptOf(r) \in Seq(Step)
  BY <1>2, <1>3
<1> DEFINE s == ScriptOf(r)
<1> HIDE DEF s
<1>5. DOMAIN s = 1..Len(s) /\ Len(s) \in Nat
  BY <1>4 DEF s
<1> QED
  BY <1>1, <1>5 DEF s

LEMMA ScriptStays ==
  ASSUME TypeInv, LinkInv, [Next]_vars, workspace',
         NEW r \in RunId, Born(r), r \notin edited'
  PROVE  workspace /\ r \notin edited /\ ScriptOf(r)' = ScriptOf(r)
<1>1. runs'[r].flow = runs[r].flow /\ runs[r].flow \in Flow
  BY BornStays DEF LinkInv
<1>2. CASE UNCHANGED <<workspace, steps, edited>>
  BY <1>1, <1>2 DEF ScriptOf
<1>3. ASSUME NEW f \in Flow, NEW script \in Script, NEW isActive \in BOOLEAN,
             UpdateFlow(f, script, isActive)
      PROVE  workspace /\ r \notin edited /\ ScriptOf(r)' = ScriptOf(r)
  <2>1. /\ workspace /\ steps' = [steps EXCEPT ![f] = script] /\ steps \in [Flow -> Script \cup {<<>>}]
        /\ edited' = IF script = steps[f] THEN edited
                     ELSE edited \cup {q \in RunId : runs[q].flow = f}
    BY <1>3 DEF UpdateFlow, TypeInv, TypeOK
  <2>2. r \notin edited /\ (runs[r].flow = f => script = steps[f])
    BY <2>1
  <2>3. steps'[runs[r].flow] = steps[runs[r].flow]
    BY <1>1, <2>1, <2>2
  <2> QED
    BY <1>1, <2>1, <2>2, <2>3 DEF ScriptOf
<1>4. CASE AddonChanges
  BY <1>2, <1>4 DEF AddonChanges, history
<1>5. CASE WorkspaceDeleted
  BY <1>5 DEF WorkspaceDeleted
<1>6. CASE \E j \in JobId : JobStep(j)
  BY <1>2, <1>6, JobsKeepRows DEF flows
<1>7. CASE \E h \in Hook, f \in Flow, q \in RunId : CreateRun(h, f, q)
  BY <1>2, <1>7 DEF CreateRun, flows, history
<1>8. CASE \E h \in Hook : Enqueue(h)
  BY <1>2, <1>8 DEF Enqueue, flows, history
<1>9. CASE Crash \/ \E h \in Hook : HookGoesOn(h)
  BY <1>2, <1>9
    DEF Crash, HookGoesOn, Receive, NextEvent, ReadAddon, FindMatchingFlows,
        Enqueued,
        HookFails, HookOnly, flows, history
<1>10. CASE UNCHANGED vars
  BY <1>2, <1>10 DEF vars, flows, history
<1> QED
  BY <1>3, <1>4, <1>5, <1>6, <1>7, <1>8, <1>9, <1>10, NextCases
    DEF QuietStep, Edits

LEMMA SaidStays ==
  ASSUME TypeInv, LinkInv, [Next]_vars, NEW r \in RunId, NEW k, Said(r, k)
  PROVE  Said(r, k)'
<1>1. CASE sent'[r] = sent[r]
  BY <1>1 DEF Said
<1>2. CASE ~(sent'[r] = sent[r])
  <2>1. PICK j \in JobId : JobStep(j)
    BY <1>2, NextCases, QuietSteps DEF CreateRun, Enqueue, vars, history
  <2> DEFINE s == sent[r]
             n == jobs[j].order
  <2>2. sent'[r] = Append(s, n) /\ s \in Seq(Nat) /\ n \in Nat
    BY <1>2, <2>1, SentByJob, JobFields DEF TypeInv, TypeOK
  <2>3. PICK i \in DOMAIN s : s[i] = k
    BY DEF Said
  <2> HIDE DEF s, n
  <2>4. i \in DOMAIN Append(s, n) /\ Append(s, n)[i] = k
    BY <2>2, <2>3
  <2> QED
    BY <2>2, <2>4 DEF Said
<1> QED
  BY <1>1, <1>2

LEMMA ForkedStays ==
  ASSUME TypeInv, LinkInv, [Next]_vars PROVE forked \subseteq forked'
  BY NextCases, JobsKeepRows, QuietSteps DEF CreateRun, Enqueue, vars, history

(* A job that nobody touched is as far as it was.                          *)
Concerns(l) == workspace /\ Live(l) /\ jobs[l].run \notin edited \cup forked
LEMMA StillUpToDate ==
  ASSUME TypeInv, LinkInv, SaidInv, [Next]_vars, NEW l \in JobId,
         Concerns(l)', Live(l), jobs'[l] = jobs[l]
  PROVE  UpToDate(l)'
<1>1. PICK r \in RunId : r = jobs[l].run /\ Born(r)
  BY LiveRun
<1>2. workspace /\ r \notin edited /\ r \notin forked /\ ScriptOf(r)' = ScriptOf(r)
  BY <1>1, ScriptStays, ForkedStays DEF Concerns
<1>3. UpToDate(l)
  BY <1>1, <1>2 DEF SaidInv
<1>4. jobs'[l].run = r
  BY <1>1
<1>5. ASSUME NEW k, Said(r, k) PROVE Said(r, k)'
  BY <1>1, <1>5, SaidStays
<1>6. \A k : Done(l, k)' <=> Done(l, k)
  BY DEF Done
<1>7. /\ \A k \in DOMAIN ScriptOf(r) : ScriptOf(r)[k] = "send" /\ Done(l, k) => Said(r, k)
      /\ jobs[l].pc \in {"account", "act"} /\ jobs[l].order \in DOMAIN ScriptOf(r)
           => jobs[l].step = ScriptOf(r)[jobs[l].order]
      /\ jobs[l].pc = "complete" => jobs[l].order \notin DOMAIN ScriptOf(r)
  BY <1>1, <1>3 DEF UpToDate
<1>8. /\ \A k \in DOMAIN ScriptOf(r)' : ScriptOf(r)'[k] = "send" /\ Done(l, k)' => Said(r, k)'
      /\ jobs'[l].pc \in {"account", "act"} /\ jobs'[l].order \in DOMAIN ScriptOf(r)'
           => jobs'[l].step = ScriptOf(r)'[jobs'[l].order]
      /\ jobs'[l].pc = "complete" => jobs'[l].order \notin DOMAIN ScriptOf(r)'
  BY <1>2, <1>5, <1>6, <1>7
<1> QED
  BY <1>4, <1>8 DEF UpToDate

(* One that went on, if it holds what its new place asks for.              *)
LEMMA WasUpToDate ==
  ASSUME TypeInv, LinkInv, SaidInv, [Next]_vars, NEW j \in JobId,
         Live(j), jobs'[j].run = jobs[j].run, Concerns(j)'
  PROVE  UpToDate(j)
<1>1. PICK r \in RunId : r = jobs[j].run /\ Born(r)
  BY LiveRun
<1>2. workspace /\ r \notin edited /\ r \notin forked /\ ScriptOf(r)' = ScriptOf(r)
  BY <1>1, ScriptStays, ForkedStays DEF Concerns
<1> QED
  BY <1>1, <1>2 DEF SaidInv, Concerns, ScriptOf

LEMMA MovedUpToDate ==
  ASSUME TypeInv, LinkInv, SaidInv, [Next]_vars, NEW j \in JobId,
         Live(j), Same(j), Concerns(j)',
         jobs'[j].pc = "add" =>
           (jobs[j].order \in DOMAIN ScriptOf(jobs[j].run)
            /\ ScriptOf(jobs[j].run)[jobs[j].order] = "send"
              => \E i \in DOMAIN sent'[jobs[j].run] : sent'[jobs[j].run][i] = jobs[j].order),
         jobs'[j].pc \in {"account", "act"} /\ jobs[j].order \in DOMAIN ScriptOf(jobs[j].run)
           => jobs'[j].step = ScriptOf(jobs[j].run)[jobs[j].order],
         jobs'[j].pc = "complete" => jobs[j].order \notin DOMAIN ScriptOf(jobs[j].run)
  PROVE  UpToDate(j)'
<1>1. PICK r \in RunId : r = jobs[j].run /\ Born(r)
  BY LiveRun
<1>2. workspace /\ r \notin edited /\ r \notin forked /\ ScriptOf(r)' = ScriptOf(r)
  BY <1>1, ScriptStays, ForkedStays DEF Concerns, Same
<1>3. UpToDate(j)
  BY <1>1, <1>2 DEF SaidInv
<1>4. jobs'[j].run = r /\ jobs'[j].order = jobs[j].order
  BY <1>1 DEF Same
<1>5. ASSUME NEW k, Said(r, k) PROVE Said(r, k)'
  BY <1>1, <1>5, SaidStays
<1>6. \A k \in DOMAIN ScriptOf(r) : ScriptOf(r)[k] = "send" /\ k < jobs[j].order => Said(r, k)
  BY <1>1, <1>3 DEF UpToDate, Done
<1>7. jobs'[j].pc = "add" /\ jobs[j].order \in DOMAIN ScriptOf(r)
      /\ ScriptOf(r)[jobs[j].order] = "send" => Said(r, jobs[j].order)'
  <2>1. PICK n : n = jobs[j].order
    OBVIOUS
  <2>2. jobs'[j].pc = "add" /\ n \in DOMAIN ScriptOf(r) /\ ScriptOf(r)[n] = "send"
          => Said(r, n)'
    BY <1>1, <2>1 DEF Said
  <2> QED
    BY <1>4, <2>1, <2>2 DEF Said
<1>8. \A k \in DOMAIN ScriptOf(r)' : ScriptOf(r)'[k] = "send" /\ Done(j, k)' => Said(r, k)'
  <2> SUFFICES ASSUME NEW k \in DOMAIN ScriptOf(r), ScriptOf(r)[k] = "send", Done(j, k)'
               PROVE  Said(r, k)'
    BY <1>2
  <2>1. CASE k < jobs[j].order
    BY <1>5, <1>6, <2>1
  <2>2. CASE ~(k < jobs[j].order)
    <3>1. k = jobs[j].order /\ jobs'[j].pc = "add"
      BY <1>4, <2>2 DEF Done
    <3>2. \E i \in DOMAIN sent'[r] : sent'[r][i] = k
      BY <1>1, <3>1
    <3> QED
      BY <3>2 DEF Said
  <2> QED
    BY <2>1, <2>2
<1>9. /\ jobs'[j].pc \in {"account", "act"} /\ jobs'[j].order \in DOMAIN ScriptOf(r)'
           => jobs'[j].step = ScriptOf(r)'[jobs'[j].order]
      /\ jobs'[j].pc = "complete" => jobs'[j].order \notin DOMAIN ScriptOf(r)'
  BY <1>1, <1>2, <1>4
<1> QED
  BY <1>4, <1>8, <1>9 DEF UpToDate

LEMMA NewUpToDate ==
  ASSUME TypeInv, LinkInv, SaidInv, [Next]_vars, NEW j \in JobId, NEW i \in JobId \ {j},
         jobs[j].pc = "add", Adds(j, i, "added"), Concerns(i)'
  PROVE  UpToDate(i)'
<1>1. PICK r \in RunId : r = jobs[j].run /\ Born(r)
  BY LiveRun DEF Adds
<1>2. jobs'[i].run = r /\ jobs'[i].order = jobs[j].order + 1 /\ jobs'[i].pc = "step"
  BY <1>1 DEF Adds
<1>3. workspace /\ r \notin edited /\ r \notin forked /\ ScriptOf(r)' = ScriptOf(r)
  BY <1>1, <1>2, ScriptStays, ForkedStays DEF Concerns
<1>4. UpToDate(j) /\ jobs[j].order \in Nat
  BY <1>1, <1>3, JobFields DEF SaidInv, Adds, TypeInv
<1>5. PICK n \in Nat : DOMAIN ScriptOf(r) = 1..n
  BY <1>1, ScriptType
<1>6. ASSUME NEW k \in DOMAIN ScriptOf(r), ScriptOf(r)[k] = "send", Done(i, k)'
      PROVE  Said(r, k)'
  <2>1. k < jobs[j].order + 1 /\ k \in Nat
    BY <1>2, <1>5, <1>6 DEF Done
  <2>2. k < jobs[j].order \/ k = jobs[j].order
    BY <1>4, <2>1
  <2>3. Said(r, k)
    BY <1>1, <1>4, <1>6, <2>2 DEF UpToDate, Done
  <2> QED
    BY <1>1, <2>3, SaidStays
<1> QED
  BY <1>2, <1>3, <1>6 DEF UpToDate

LEMMA SaidJobs ==
  ASSUME TypeInv, LinkInv, SaidInv, [Next]_vars, NEW j \in JobId, JobStep(j)
  PROVE  SaidInv'
<1> SUFFICES ASSUME NEW l \in JobId, Concerns(l)' PROVE UpToDate(l)'
  BY DEF SaidInv, Concerns
<1>1. CASE Live(l) /\ jobs'[l] = jobs[l]
  BY <1>1, StillUpToDate
<1>2. ASSUME NEW pc, l = j, Moves(j, pc), pc \notin {"account", "act", "add", "complete"}
      PROVE  UpToDate(l)'
  BY <1>2, MovedUpToDate DEF Moves
<1>3. ASSUME NEW i \in JobId \ {j}, Adds(j, i, "fail"), forked' = forked \cup {jobs[j].run}
      PROVE  UpToDate(l)'
  <2>1. l # j /\ l # i
    BY <1>3 DEF Adds, Same, Concerns
  <2>2. Live(l) /\ jobs'[l] = jobs[l]
    BY <1>3, <2>1 DEF Adds, Still, Live, Concerns
  <2> QED
    BY <1>1, <2>2
<1>4. ASSUME NEW pc \in Pc, Moves(j, pc) \/ Leaves(j), l # j
      PROVE  UpToDate(l)'
  <2>1. Live(l) /\ jobs'[l] = jobs[l]
    BY <1>4 DEF Moves, Leaves, Still, Live, Concerns
  <2> QED
    BY <1>1, <2>1
<1>5. ASSUME Leaves(j), l = j PROVE UpToDate(l)'
  BY <1>5 DEF Leaves, Concerns
<1>6. CASE Take(j)
  BY <1>6, <1>2, <1>4, TakeMoves DEF Pc
<1>7. CASE ReadStep(j)
  <2>1. CASE l # j
    BY <1>7, <2>1, <1>4, ReadMoves DEF Pc
  <2>2. CASE l = j
    BY <1>7, <2>2, ReadMoves, MovedUpToDate DEF Moves
  <2> QED
    BY <2>1, <2>2
<1>8. CASE ReadAccount(j)
  <2>1. CASE l # j
    BY <1>8, <2>1, <1>4, AccountMoves DEF Pc
  <2>2. CASE l = j
    <3>1. /\ Live(j) /\ Same(j) /\ jobs'[j].pc \in {"act", "fail"} /\ jobs[j].pc = "account"
          /\ jobs'[j].step = jobs[j].step
      BY <1>8, AccountMoves DEF Moves
    <3>2. UpToDate(j)
      BY <2>2, <3>1, WasUpToDate DEF Same
    <3> QED
      BY <2>2, <3>1, <3>2, MovedUpToDate DEF UpToDate
  <2> QED
    BY <2>1, <2>2
<1>9. CASE Execute(j)
  <2>1. CASE l # j
    BY <1>9, <2>1, <1>4, ExecuteMoves DEF Pc
  <2>2. CASE l = j
    <3>1. Live(j) /\ Same(j) /\ jobs'[j].pc = "add" /\ jobs[j].pc = "act"
      BY <1>9, ExecuteMoves DEF Moves
    <3>2. UpToDate(j) /\ jobs[j].run \in RunId
      BY <2>2, <3>1, WasUpToDate, LiveRun DEF Same
    <3>3. ASSUME jobs[j].step = "send"
          PROVE  \E i \in DOMAIN sent'[jobs[j].run] : sent'[jobs[j].run][i] = jobs[j].order
      <4> DEFINE s == sent[jobs[j].run]
                 n == jobs[j].order
      <4>1. sent'[jobs[j].run] = Append(s, n) /\ s \in Seq(Nat) /\ n \in Nat
        BY <1>9, <3>2, <3>3, JobFields DEF Execute, TypeInv, TypeOK
      <4> HIDE DEF s
      <4>2. Len(s) + 1 \in DOMAIN Append(s, n) /\ Append(s, n)[Len(s) + 1] = n
        BY <4>1
      <4> QED
        BY <4>1, <4>2
    <3> QED
      BY <2>2, <3>1, <3>2, <3>3, MovedUpToDate DEF UpToDate
  <2> QED
    BY <2>1, <2>2
<1>10. CASE ExecuteFails(j)
  BY <1>10, <1>2, <1>4, ThrowMoves DEF Pc
<1>11. CASE AddFails(j)
  BY <1>11, <1>2, <1>3, <1>4, AddFailsMoves DEF Pc
<1>12. CASE AddNext(j)
  <2>1. PICK i \in JobId \ {j} : Adds(j, i, "added")
    BY <1>12, AddNextMoves
  <2>2. CASE l = i
    BY <1>12, <2>1, <2>2, AddNextMoves, NewUpToDate
  <2>3. CASE l = j
    BY <2>1, <2>3, MovedUpToDate DEF Adds
  <2>4. CASE ~(l = i) /\ ~(l = j)
    <3>1. Live(l) /\ jobs'[l] = jobs[l]
      BY <2>1, <2>4 DEF Adds, Still, Live, Concerns
    <3> QED
      BY <1>1, <3>1
  <2> QED
    BY <2>2, <2>3, <2>4
<1>13. CASE Complete(j) \/ MarkFailed(j)
  <2>1. Moves(j, "over")
    BY <1>13, EndsMoves DEF Complete, MarkFailed
  <2> QED
    BY <2>1, <1>2, <1>4 DEF Pc
<1>14. CASE Finish(j) \/ JobFails(j)
  BY <1>14, <1>4, <1>5, EndedLeaves DEF Pc
<1>15. CASE Restalled(j)
  BY <1>15, <1>2, <1>4, <1>5, RestalledMoves DEF Pc
<1> QED
  BY <1>6, <1>7, <1>8, <1>9, <1>10, <1>11, <1>12, <1>13, <1>14, <1>15
    DEF JobStep, Worker

LEMMA SaidStep ==
  ASSUME TypeInv, LinkInv, SaidInv, [Next]_vars
  PROVE  SaidInv'
<1>1. CASE \E j \in JobId : JobStep(j)
  BY <1>1, SaidJobs
<1>2. CASE ~\E j \in JobId : JobStep(j)
  <2> SUFFICES ASSUME NEW l \in JobId, Concerns(l)' PROVE UpToDate(l)'
    BY DEF SaidInv, Concerns
  <2>1. CASE Live(l) /\ jobs'[l] = jobs[l]
    BY <2>1, StillUpToDate
  <2>2. CASE \E h \in Hook, f \in Flow, r \in RunId : CreateRun(h, f, r)
    BY <2>1, <2>2 DEF CreateRun, Concerns, Live
  <2>3. ASSUME NEW h \in Hook, Enqueue(h) PROVE UpToDate(l)'
    <3>1. PICK i \in JobId :
             /\ jobs'[i].pc = "step" /\ jobs'[i].run = hooks[h].run /\ jobs'[i].order = 1
             /\ \A k \in JobId \ {i} : Still(k)
      BY <2>3, EnqueueJob
    <3>2. CASE l = i
      <4>1. PICK r \in RunId : r = hooks[h].run /\ Born(r) /\ runs' = runs /\ steps' = steps
        BY <2>3, EnqueueJob DEF flows
      <4>2. PICK n \in Nat : DOMAIN ScriptOf(r) = 1..n
        BY <4>1, ScriptType
      <4>3. ScriptOf(r)' = ScriptOf(r)
        BY <4>1 DEF ScriptOf
      <4>4. ASSUME NEW k \in DOMAIN ScriptOf(r) PROVE ~Done(l, k)'
        BY <3>1, <3>2, <4>2 DEF Done
      <4>5. jobs'[l].run = r /\ jobs'[l].pc = "step"
        BY <3>1, <3>2, <4>1
      <4> QED
        BY <4>3, <4>4, <4>5 DEF UpToDate
    <3>3. CASE ~(l = i)
      BY <2>1, <3>1, <3>3 DEF Still, Concerns, Live
    <3> QED
      BY <3>2, <3>3
  <2>4. CASE QuietStep
    BY <2>1, <2>4, QuietSteps DEF SameJobs, Concerns, Live
  <2>5. CASE UNCHANGED vars
    BY <2>1, <2>5 DEF vars, Concerns, Live
  <2> QED
    BY <1>2, <2>2, <2>3, <2>4, <2>5, NextCases
<1> QED
  BY <1>1, <1>2

(* Who completes a run holds a job that is past its last step.             *)
LEMMA CompletedStep ==
  ASSUME TypeInv, LinkInv, SaidInv, CompletedSaidAll, [Next]_vars
  PROVE  CompletedSaidAll'
<1> SUFFICES ASSUME NEW r \in RunId \ (edited' \cup forked'),
                    runs'[r].status = "completed", workspace',
                    NEW k \in DOMAIN ScriptOf(r)', ScriptOf(r)'[k] = "send"
             PROVE  Said(r, k)'
  BY DEF CompletedSaidAll, ScriptOf, Said
<1>1. CASE runs[r].status = "completed"
  <2>1. Born(r)
    BY <1>1 DEF Born
  <2>2. workspace /\ r \notin edited /\ r \notin forked /\ ScriptOf(r)' = ScriptOf(r)
    BY <2>1, ScriptStays, ForkedStays
  <2>3. Said(r, k)
    BY <1>1, <2>2 DEF CompletedSaidAll, ScriptOf, Said
  <2> QED
    BY <2>3, SaidStays
<1>2. CASE runs[r].status # "completed"
  <2>1. PICK j \in JobId : Complete(j) /\ jobs[j].run = r
    <3>1. CASE \E h \in Hook, f \in Flow, q \in RunId : CreateRun(h, f, q)
      BY <1>2, <3>1 DEF CreateRun, TypeInv, TypeOK
    <3>2. CASE \E h \in Hook : Enqueue(h)
      BY <1>2, <3>2 DEF Enqueue
    <3>3. CASE QuietStep \/ UNCHANGED vars
      BY <1>2, <3>3, QuietSteps DEF vars
    <3>4. ASSUME NEW j \in JobId, JobStep(j)
          PROVE  Complete(j) /\ jobs[j].run = r
      <4>1. Complete(j) \/ MarkFailed(j)
        BY <1>2, <3>4
          DEF JobStep, Worker, Take, ReadStep, ReadAccount, Execute, AddNext,
              AddsNext,
            Finish, Restalled, ExecuteFails, ExecuteThrows, AddFails, JobFails, JobOnly
      <4>2. ASSUME NEW pc, NEW status, Ends(j, pc, status)
            PROVE  jobs[j].run = r /\ status = "completed"
        BY <1>2, <4>2 DEF Ends, TypeInv, TypeOK, RunRow
      <4> QED
        BY <4>1, <4>2 DEF Complete, MarkFailed
    <3> QED
      BY <3>1, <3>2, <3>3, <3>4, NextCases
  <2>2. /\ jobs[j].pc = "complete" /\ Live(j) /\ Born(r) /\ jobs[j].order \in Nat
        /\ jobs[j].order > 0
    BY <2>1, EndsMoves, LiveRun, JobFields DEF Complete, Moves, TypeInv
  <2>3. workspace /\ r \notin edited /\ r \notin forked /\ ScriptOf(r)' = ScriptOf(r)
    BY <2>2, ScriptStays, ForkedStays
  <2>4. UpToDate(j)
    BY <2>1, <2>2, <2>3 DEF SaidInv
  <2>5. PICK n \in Nat : DOMAIN ScriptOf(r) = 1..n
    BY <2>2, ScriptType
  <2>6. k < jobs[j].order
    BY <2>1, <2>2, <2>3, <2>4, <2>5 DEF UpToDate
  <2>7. Said(r, k)
    BY <2>1, <2>3, <2>4, <2>6 DEF UpToDate, Done
  <2> QED
    BY <2>2, <2>7, SaidStays
<1> QED
  BY <1>1, <1>2

-----------------------------------------------------------------------------
(* The strengthened invariant holds at the start, and every step keeps it. *)
LEMMA Initially == ASSUME Init PROVE IInv
<1>1. \A r \in RunId : runs[r] = Unborn /\ ~Born(r) /\ sent[r] = <<>>
  BY DEF Init, Born, Unborn
<1>2. \A j \in JobId : queue[j] = "none" /\ jobs[j] = NoJob /\ ~Live(j)
  BY DEF Init, Live
<1>3. \A h \in Hook : hooks[h] = Waiting /\ ~HookAt(h, "add") /\ hooks[h].pc \notin Begun
  BY DEF Init, HookAt, Waiting, Begun
<1>4. TypeInv
  <2>1. Unborn \in RunRow
    BY DEF Unborn, RunRow
  <2>2. NoJob \in Job
    <3>1. MaxRuns \in Nat /\ 0 \in 0..MaxRuns
      OBVIOUS
    <3>2. "wait" \in Step /\ 1 \in Nat
      BY DEF Step
    <3> QED
      BY <3>1, <3>2 DEF NoJob, Job
  <2>3. Waiting \in HookState
    <3>1. MaxRuns \in Nat /\ 0 \in 0..MaxRuns
      OBVIOUS
    <3> QED
      BY <3>1 DEF Waiting, HookState
  <2>4. runs \in [RunId -> RunRow]
    BY <2>1 DEF Init
  <2>5. queue \in [JobId -> JobState] /\ jobs \in [JobId -> Job]
    BY <2>2 DEF Init, JobState
  <2>6. hooks \in [Hook -> HookState]
    BY <2>3 DEF Init
  <2>7. sent \in [RunId -> Seq(Nat)]
    BY DEF Init
  <2>8. steps \in [Flow -> Script \cup {<<>>}]
    BY DEF Init
  <2>9. TypeOK
    BY <2>4, <2>5, <2>6, <2>7, <2>8 DEF Init, TypeOK
  <2> QED
    BY <1>2, <2>9 DEF TypeInv, NoJob
<1>5. LinkInv
  BY <1>1, <1>2, <1>3 DEF LinkInv, Unborn
<1>6. DeliveryInv
  <2> SUFFICES ASSUME NEW e \in Event, NEW f \in Flow
               PROVE  Cardinality(AnswersOf(e, f)) + Cardinality(Owed(e, f)) <= deliveries[e]
    BY <1>3 DEF DeliveryInv
  <2>1. AnswersOf(e, f) = {}
    BY <1>1 DEF AnswersOf, Unborn
  <2>2. Owed(e, f) = {}
    BY <1>3 DEF Owed, Owes, Waiting
  <2> QED
    BY <2>1, <2>2, FS_EmptySet DEF Init
<1>7. OneInv
  BY <1>2, <1>3 DEF OneInv, Carries, Starts
<1>8. OrderInv
  BY <1>1, <1>2 DEF OrderInv, Carries, Increasing
<1>9. SaidInv /\ CompletedSaidAll
  BY <1>1, <1>2 DEF SaidInv, CompletedSaidAll, Born
<1> QED
  BY <1>4, <1>5, <1>6, <1>7, <1>8, <1>9 DEF IInv

LEMMA Inductive == IInv /\ [Next]_vars => IInv'
<1> SUFFICES ASSUME IInv, [Next]_vars PROVE IInv'
  OBVIOUS
<1>1. TypeInv /\ LinkInv /\ DeliveryInv /\ OneInv /\ OrderInv /\ SaidInv /\ CompletedSaidAll
  BY DEF IInv
<1>2. TypeInv'
  BY <1>1, TypeStep
<1>3. LinkInv'
  BY <1>1, LinkStep
<1>4. DeliveryInv'
  BY <1>1, DeliveryStep
<1>5. OneInv' /\ OrderInv'
  BY <1>1, OrderStep
<1>6. SaidInv'
  BY <1>1, SaidStep
<1>7. CompletedSaidAll'
  BY <1>1, CompletedStep
<1> QED
  BY <1>2, <1>3, <1>4, <1>5, <1>6, <1>7 DEF IInv

LEMMA Invariance == Spec => []IInv
  BY Initially, Inductive, PTL DEF Spec

-----------------------------------------------------------------------------
(* The variables keep their types, whatever the lengths of the flows.      *)
THEOREM AutomationTypes == Spec => []TypeOK
<1>1. IInv => TypeOK
  BY DEF IInv, TypeInv
<1> QED
  BY <1>1, Invariance, PTL

(* Of one flow, a contact gets a message at most once for each delivery of *)
(* its event, unless the run is forked: however many requests, edits of    *)
(* flows, failed calls and crashes come in between.                        *)
THEOREM OneAnswerPerDelivery == Spec => []AnswersOncePerDelivery
<1>1. IInv => AnswersOncePerDelivery
  <2> SUFFICES ASSUME IInv PROVE AnswersOncePerDelivery
    OBVIOUS
  <2>1. ASSUME NEW e \in Event, NEW f \in Flow
        PROVE  Cardinality(AnswersOf(e, f)) <= deliveries[e]
    <3>1. Cardinality(AnswersOf(e, f)) \in Nat /\ Cardinality(Owed(e, f)) \in Nat
      BY FiniteSides, FS_CardinalityType
    <3>2. deliveries[e] \in Nat
      BY DEF IInv, TypeInv, TypeOK
    <3>3. Cardinality(AnswersOf(e, f)) + Cardinality(Owed(e, f)) <= deliveries[e]
      BY DEF IInv, DeliveryInv
    <3> QED
      BY <3>1, <3>2, <3>3
  <2>2. ASSUME NEW r \in RunId \ forked
        PROVE  \A i, k \in DOMAIN sent[r] : i < k => sent[r][i] < sent[r][k]
    BY <2>2 DEF IInv, OrderInv, Increasing
  <2> QED
    BY <2>1, <2>2 DEF AnswersOncePerDelivery
<1> QED
  BY <1>1, Invariance, PTL

(* A run that is completed sent every message of its flow, unless the flow *)
(* was edited on the way or a job was run twice: no fault of the queue, of *)
(* a call or of the process makes a run look complete that is not.         *)
THEOREM CompletedRunsSaidAll == Spec => []CompletedSaidAll
<1>1. IInv => CompletedSaidAll
  BY DEF IInv
<1> QED
  BY <1>1, Invariance, PTL

=============================================================================
