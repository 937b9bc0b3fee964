------------------------------ MODULE Scheduling ------------------------------
(***************************************************************************)
(* The workflow that gives an approved piece its time (infra/              *)
(* n8n-workflows/scheduling-pipeline.json): it reads the preferred times,  *)
(* the accounts and the upcoming publications of the workspace, chooses    *)
(* the first preferred time that keeps its distance from all of them, and  *)
(* asks the API to schedule the piece.  People schedule, move and cancel   *)
(* publications of the same workspace meanwhile.                           *)
(*                                                                         *)
(* Times are minutes since a midnight.  That the schedule call also moves  *)
(* the piece and queues the job is the subject of Publications.  Init,     *)
(* Next and Spec carry the calendar's name, since WorkflowProofs extends   *)
(* this module together with Autopilot.                                    *)
(***************************************************************************)
EXTENDS Integers, FiniteSets, Sequences

CONSTANTS
  Execution,
  Day,               \* minutes of a day
  MinSpacing,        \* MIN_SPACING_MINUTES
  SearchDays,        \* SEARCH_DAYS_AHEAD
  PreferredTimes,    \* lists of times of the day a workspace may prefer
  Moment,            \* the times people choose and at which the clock stops
  MaxPublications, MaxEdits

ASSUME SchedulingAssumption ==
  /\ {Day, SearchDays} \subseteq Nat \ {0}
  /\ {MinSpacing, MaxPublications, MaxEdits} \cup Moment \subseteq Nat
  /\ PreferredTimes \subseteq Seq(0..Day - 1) \ {<<>>} /\ PreferredTimes # {}

VARIABLES
  now,
  preferred,      \* preferred_times of the workspace
  connected,      \* whether it has a connected account
  publications,
  executions,
  edits

calendarVars == <<now, preferred, connected, publications, executions, edits>>

-----------------------------------------------------------------------------
PublicationId == 1..MaxPublications
None == [status |-> "none", at |-> 0]
Publication == [status : {"none", "scheduled", "cancelled"}, at : Nat]
(* `behind' is history: the publications that were given their time since  *)
(* the execution read the calendar, behind its back.                       *)
Idle == [pc |-> "idle", times |-> <<>>, account |-> FALSE, upcoming |-> {}, at |-> 0,
         behind |-> {}]
ExecutionState == [pc : {"idle", "config", "accounts", "upcoming", "choose", "schedule"},
                   times : PreferredTimes \cup {<<>>}, account : BOOLEAN,
                   upcoming : SUBSET Nat, at : Nat, behind : SUBSET PublicationId]

CalendarInit ==
  /\ now = 0
  /\ preferred \in PreferredTimes
  /\ connected = TRUE
  /\ publications = [p \in PublicationId |-> None]
  /\ executions = [x \in Execution |-> Idle]
  /\ edits = 0

-----------------------------------------------------------------------------
Distance(s, t) == IF s < t THEN t - s ELSE s - t
Collides(t, upcoming) == \E s \in upcoming : Distance(s, t) < MinSpacing

(* The two loops: the days from today on, and the times in the order they  *)
(* are listed; the first that is to come and does not collide.             *)
Candidates(times) == (0..SearchDays - 1) \X DOMAIN times
TimeOf(times, c) == (now \div Day + c[1]) * Day + times[c[2]]
Before(c, d) == c[1] < d[1] \/ (c[1] = d[1] /\ c[2] < d[2])
(* This form takes every time that is to come.                             *)
AnyTimeToCome(times, upcoming) == {c \in Candidates(times) : TimeOf(times, c) > now}
Free(times, upcoming) ==
  {c \in Candidates(times) : TimeOf(times, c) > now /\ ~Collides(TimeOf(times, c), upcoming)}
Chosen(times, upcoming) ==
  LET free == Free(times, upcoming) IN
  TimeOf(times, CHOOSE c \in free : \A d \in free \ {c} : Before(c, d))

-----------------------------------------------------------------------------
ExecutionAt(x, pc) == executions[x].pc = pc
Rest == UNCHANGED <<now, preferred, connected, publications, edits>>

Approved(x) ==
  /\ ExecutionAt(x, "idle")
  /\ executions' = [executions EXCEPT ![x].pc = "config"]
  /\ Rest

ReadConfig(x) ==
  /\ ExecutionAt(x, "config")
  /\ executions' = [executions EXCEPT ![x].pc = "accounts", ![x].times = preferred]
  /\ Rest

ReadAccounts(x) ==
  /\ ExecutionAt(x, "accounts")
  /\ executions' = [executions EXCEPT ![x].pc = "upcoming", ![x].account = connected]
  /\ Rest

Upcoming == {p \in PublicationId : publications[p].status = "scheduled" /\ publications[p].at >= now}
ReadUpcoming(x) ==
  /\ ExecutionAt(x, "upcoming")
  /\ executions' = [executions EXCEPT ![x].pc = "choose", ![x].behind = {},
                      ![x].upcoming = {publications[p].at : p \in Upcoming}]
  /\ Rest

(* No time is free in the days that are searched: the execution ends.      *)
ChooseTime(x) ==
  LET ex == executions[x] IN
  /\ ExecutionAt(x, "choose")
  /\ executions' = [executions EXCEPT ![x] =
       IF Free(ex.times, ex.upcoming) = {} THEN Idle
       ELSE [@ EXCEPT !.pc = "schedule", !.times = <<>>, !.at = Chosen(ex.times, ex.upcoming), !.upcoming = {}]]
  /\ Rest

BehindTheBacks(p) ==
  [x \in Execution |-> IF executions[x].pc \in {"choose", "schedule"}
                         THEN [executions[x] EXCEPT !.behind = @ \cup {p}] ELSE executions[x]]
NewPublication(p) == publications[p] = None /\ (p > 1 => publications[p - 1] # None)

(* The call is refused without an account that is connected.               *)
Schedule(x, p) ==
  LET ex == executions[x] IN
  /\ ExecutionAt(x, "schedule")
  /\ \/ /\ ex.account /\ connected
        /\ NewPublication(p)
        /\ publications' = [publications EXCEPT ![p] = [status |-> "scheduled", at |-> ex.at]]
        /\ executions' = [BehindTheBacks(p) EXCEPT ![x] = Idle]
     \/ /\ ~(ex.account /\ connected)
        /\ executions' = [executions EXCEPT ![x] = Idle]
        /\ UNCHANGED publications
  /\ UNCHANGED <<now, preferred, connected, edits>>

ExecutionFails(x) ==
  /\ ~ExecutionAt(x, "idle")
  /\ executions' = [executions EXCEPT ![x] = Idle]
  /\ Rest

-----------------------------------------------------------------------------
Edit == edits < MaxEdits /\ edits' = edits + 1

HumanSchedules(p, t) ==
  /\ Edit /\ NewPublication(p) /\ t > now
  /\ publications' = [publications EXCEPT ![p] = [status |-> "scheduled", at |-> t]]
  /\ executions' = BehindTheBacks(p)
  /\ UNCHANGED <<now, preferred, connected>>

Reschedule(p, t) ==
  /\ Edit /\ publications[p].status = "scheduled" /\ t > now
  /\ publications' = [publications EXCEPT ![p].at = t]
  /\ executions' = BehindTheBacks(p)
  /\ UNCHANGED <<now, preferred, connected>>

Cancel(p) ==
  /\ Edit /\ publications[p].status = "scheduled"
  /\ publications' = [publications EXCEPT ![p].status = "cancelled"]
  /\ UNCHANGED <<now, preferred, connected, executions>>

SettingsChange(times, isConnected) ==
  /\ Edit
  /\ preferred' = times /\ connected' = isConnected
  /\ UNCHANGED <<now, publications, executions>>

TimePasses(t) ==
  /\ now < t
  /\ now' = t
  /\ UNCHANGED <<preferred, connected, publications, executions, edits>>

CalendarNext ==
  \/ \E x \in Execution :
       \/ Approved(x) \/ ReadConfig(x) \/ ReadAccounts(x) \/ ReadUpcoming(x) \/ ChooseTime(x)
       \/ \E p \in PublicationId : Schedule(x, p)
       \/ ExecutionFails(x)
  \/ \E p \in PublicationId, t \in Moment : HumanSchedules(p, t) \/ Reschedule(p, t)
  \/ \E p \in PublicationId : Cancel(p)
  \/ \E times \in PreferredTimes, isConnected \in BOOLEAN : SettingsChange(times, isConnected)
  \/ \E t \in Moment : TimePasses(t)

CalendarSpec == CalendarInit /\ [][CalendarNext]_calendarVars

-----------------------------------------------------------------------------
(* The types of the variables.                                             *)
CalendarTypeOK ==
  /\ now \in Nat /\ preferred \in PreferredTimes /\ connected \in BOOLEAN
  /\ publications \in [PublicationId -> Publication]
  /\ executions \in [Execution -> ExecutionState]
  /\ edits \in Nat

(* The time the workflow gives a piece keeps its distance from every       *)
(* publication of the workspace that is to come when it is stored (spec    *)
(* 035, CA-02), but for those that another execution or a person put where *)
(* they are after this one had read the calendar.                          *)
Stores(x, p) ==
  executions[x].pc = "schedule" /\ executions'[x] = Idle /\ publications'[p] # publications[p]
KeepsDistance ==
  [][\A x \in Execution, p \in PublicationId : Stores(x, p) =>
       \A q \in Upcoming \ executions[x].behind :
         Distance(publications'[p].at, publications[q].at) >= MinSpacing]_calendarVars
=============================================================================
