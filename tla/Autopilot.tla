------------------------------ MODULE Autopilot ------------------------------
(***************************************************************************)
(* The autopilot: which workspaces are researched, which insights become   *)
(* pieces (apps/api/src/autopilot, apps/api/src/research, infra/           *)
(* n8n-workflows: research-pipeline.json, content-generation-pipeline.json)*)
(*                                                                         *)
(* Both endpoints `mark and fetch': what is handed out is found by one     *)
(* statement and marked by the next.  A time is only as old as the         *)
(* comparisons it is in: lastRunAt is missing, within the cadence or past  *)
(* it; a piece was made within the last week or is not counted.            *)
(***************************************************************************)
EXTENDS Integers, FiniteSets

CONSTANTS
  Workspace,
  Insight,           \* rows of research_insights
  Research,          \* executions of the research workflow
  Generation,        \* executions of the generation workflow
  PostsPerWeek,      \* values of posts_per_week
  Nil,
  MaxScans,          \* bound on the scans a workspace has running
  MaxMade,           \* bound on the pieces of one insight
  MaxChanges         \* bound on cadences and weeks gone by, and on settings

ASSUME AutopilotAssumption ==
  /\ PostsPerWeek \subseteq Nat /\ PostsPerWeek # {}
  /\ {MaxScans, MaxMade, MaxChanges} \subseteq Nat
  /\ Nil \notin Workspace \cup Insight

VARIABLES
  active, perWeek, lastRun,   \* autopilot_pipelines
  suspended,                  \* workspaces that are not active
  scans,                      \* scans running in the background
  owner, consumed,            \* research_insights
  recent,                     \* pieces with origin autopilot of the last week
  research, generations,      \* executions in progress
  listed,      \* history: how often a workspace was marked in one cadence
  made,        \* history: pieces the autopilot made of an insight
  doubled,     \* history: workspaces two executions found due at once
  shared,      \* history: insights two executions found at once
  crowded,     \* history: workspaces two executions generated for at once,
               \* or whose posts_per_week was lowered
  changes

settings == <<active, perWeek, suspended>>
insights == <<owner, consumed>>
history == <<listed, made, doubled, shared, crowded>>
vars == <<settings, lastRun, scans, insights, recent, research, generations, history, changes>>

-----------------------------------------------------------------------------
IdleResearch == [pc |-> "idle", due |-> {}]
ResearchState == [pc : {"idle", "mark", "scan"}, due : SUBSET Workspace]
IdleGeneration == [pc |-> "idle", workspace |-> Nil, remaining |-> 0, items |-> {}]
GenerationState == [pc : {"idle", "count", "find", "mark", "items"},
                    workspace : Workspace \cup {Nil}, remaining : Int, items : SUBSET Insight]

Init ==
  /\ active = [w \in Workspace |-> FALSE]
  /\ perWeek \in [Workspace -> PostsPerWeek]
  /\ lastRun = [w \in Workspace |-> "never"]
  /\ suspended = {} /\ scans = [w \in Workspace |-> 0]
  /\ owner = [i \in Insight |-> Nil] /\ consumed = {}
  /\ recent = [w \in Workspace |-> 0]
  /\ research = [r \in Research |-> IdleResearch]
  /\ generations = [g \in Generation |-> IdleGeneration]
  /\ listed = [w \in Workspace |-> 0] /\ made = [i \in Insight |-> 0]
  /\ doubled = {} /\ shared = {} /\ crowded = {} /\ changes = 0

Change == changes < MaxChanges /\ changes' = changes + 1

-----------------------------------------------------------------------------
(* toggle, when what it asks for is there, and upsert.  Whoever asks for   *)
(* less may have more already.                                             *)
Toggle(w) ==
  /\ Change
  /\ active' = [active EXCEPT ![w] = ~@]
  /\ UNCHANGED <<perWeek, suspended, lastRun, scans, insights, recent, research, generations, history>>

Upsert(w, n) ==
  /\ Change /\ n # perWeek[w]
  /\ perWeek' = [perWeek EXCEPT ![w] = n]
  /\ crowded' = IF n < perWeek[w] THEN crowded \cup {w} ELSE crowded
  /\ UNCHANGED <<active, suspended, lastRun, scans, insights, recent, research, generations,
                 listed, made, doubled, shared>>

SuspendOrReactivate(w) ==
  /\ Change
  /\ suspended' = IF w \in suspended THEN suspended \ {w} ELSE suspended \cup {w}
  /\ UNCHANGED <<active, perWeek, lastRun, scans, insights, recent, research, generations, history>>

-----------------------------------------------------------------------------
(* listAndMarkActiveWorkspaces; the first form forgets to mark.            *)
Due(w) == active[w] /\ w \notin suspended /\ lastRun[w] # "recent"

FindDue(r) ==
  LET due == {w \in Workspace : Due(w)} IN
  /\ research[r].pc = "idle" /\ due # {}
  /\ research' = [research EXCEPT ![r] = [pc |-> "mark", due |-> due]]
  /\ doubled' = doubled \cup (due \cap UNION {research[x].due :
                  x \in {y \in Research : research[y].pc = "mark"}})
  /\ UNCHANGED <<settings, lastRun, scans, insights, recent, generations,
                 listed, made, shared, crowded, changes>>

Lists(r) ==
  /\ research[r].pc = "mark"
  /\ research' = [research EXCEPT ![r].pc = "scan"]
  /\ listed' = [w \in Workspace |-> IF w \in research[r].due THEN listed[w] + 1 ELSE listed[w]]
  /\ UNCHANGED <<settings, scans, insights, recent, generations,
                 made, doubled, shared, crowded, changes>>
MarkNothing(r) == Lists(r) /\ UNCHANGED lastRun
MarkDue(r) ==
  /\ Lists(r)
  /\ lastRun' = [w \in Workspace |-> IF w \in research[r].due THEN "recent" ELSE lastRun[w]]

(* The workspaces one by one; a scan that is refused or fails is passed    *)
(* over.                                                                   *)
RequestScan(r, w, ok) ==
  /\ research[r].pc = "scan" /\ w \in research[r].due
  /\ ok => scans[w] < MaxScans
  /\ scans' = IF ok THEN [scans EXCEPT ![w] = @ + 1] ELSE scans
  /\ research' = [research EXCEPT ![r] =
       IF @.due = {w} THEN IdleResearch ELSE [@ EXCEPT !.due = research[r].due \ {w}]]
  /\ UNCHANGED <<settings, lastRun, insights, recent, generations, history, changes>>

(* scan goes on after its answer: insights are stored one by one, and the  *)
(* scan ends, or dies with the process.                                    *)
NewInsight(w, i) ==
  /\ owner[i] = Nil
  /\ owner' = [owner EXCEPT ![i] = w]
  /\ UNCHANGED <<settings, lastRun, scans, consumed, recent, research, generations, history, changes>>
ScanInserts(w, i) == scans[w] > 0 /\ NewInsight(w, i)
CreateManual(w, i) == NewInsight(w, i)

ScanEnds(w) ==
  /\ scans[w] > 0
  /\ scans' = [scans EXCEPT ![w] = @ - 1]
  /\ UNCHANGED <<settings, lastRun, insights, recent, research, generations, history, changes>>

-----------------------------------------------------------------------------
(* nextInsightsAndMark: the pipeline, the pieces of the week, the insights *)
(* there is room for, the mark.                                            *)
At(g, pc) == generations[g].pc = pc
BusyFor(g, w) == generations[g].workspace = w /\ ~At(g, "count")

ReadPipeline(g, w) ==
  /\ At(g, "idle") /\ active[w]
  /\ generations' = [generations EXCEPT ![g] =
       [IdleGeneration EXCEPT !.pc = "count", !.workspace = w, !.remaining = perWeek[w]]]
  /\ UNCHANGED <<settings, lastRun, scans, insights, recent, research, history, changes>>

(* What remains of the posts_per_week read before; the first form does not *)
(* count the pieces there are.                                             *)
Counts(g, remaining) ==
  LET w == generations[g].workspace IN
  /\ At(g, "count")
  /\ generations' = [generations EXCEPT ![g] =
       IF remaining <= 0 THEN IdleGeneration ELSE [@ EXCEPT !.pc = "find", !.remaining = remaining]]
  /\ crowded' = IF \E x \in Generation \ {g} : BusyFor(x, w) THEN crowded \cup {w} ELSE crowded
  /\ UNCHANGED <<settings, lastRun, scans, insights, recent, research,
                 listed, made, doubled, shared, changes>>
CountNothing(g) == Counts(g, generations[g].remaining)
CountRecent(g) == Counts(g, generations[g].remaining - recent[generations[g].workspace])

(* The most relevant come first: which those are is left open.             *)
FindInsights(g, found) ==
  LET w == generations[g].workspace
      fresh == {i \in Insight : owner[i] = w} \ consumed IN
  /\ At(g, "find")
  /\ found \subseteq fresh
  /\ \/ Cardinality(found) = generations[g].remaining
     \/ Cardinality(found) < generations[g].remaining /\ found = fresh
  /\ generations' = [generations EXCEPT ![g] =
       IF found = {} THEN IdleGeneration ELSE [@ EXCEPT !.pc = "mark", !.items = found]]
  /\ shared' = shared \cup (found \cap UNION {generations[x].items :
                 x \in {y \in Generation : At(y, "mark")}})
  /\ UNCHANGED <<settings, lastRun, scans, insights, recent, research,
                 listed, made, doubled, crowded, changes>>

HandsOut(g) ==
  /\ At(g, "mark")
  /\ generations' = [generations EXCEPT ![g].pc = "items"]
  /\ UNCHANGED <<settings, lastRun, scans, owner, recent, research, history, changes>>
HandOut(g) == HandsOut(g) /\ UNCHANGED consumed
MarkConsumed(g) == HandsOut(g) /\ consumed' = consumed \cup generations[g].items

(* Each insight is taken through template, copy and piece; what fails is   *)
(* passed over.  The trigger marks the insight of a piece once more.       *)
NextItem(g, i) ==
  generations' = [generations EXCEPT ![g] =
    IF @.items = {i} THEN IdleGeneration ELSE [@ EXCEPT !.items = generations[g].items \ {i}]]

CreatePiece(g, i) ==
  LET w == generations[g].workspace IN
  /\ At(g, "items") /\ i \in generations[g].items /\ made[i] < MaxMade
  /\ NextItem(g, i)
  /\ recent' = [recent EXCEPT ![w] = @ + 1]
  /\ made' = [made EXCEPT ![i] = @ + 1]
  /\ consumed' = consumed \cup {i}
  /\ UNCHANGED <<settings, lastRun, scans, owner, research,
                 listed, doubled, shared, crowded, changes>>

ItemFails(g, i) ==
  /\ At(g, "items") /\ i \in generations[g].items
  /\ NextItem(g, i)
  /\ UNCHANGED <<settings, lastRun, scans, insights, recent, research, history, changes>>

(* Somebody makes a piece of an insight by hand.                           *)
HumanUses(i) ==
  /\ owner[i] # Nil /\ i \notin consumed
  /\ consumed' = consumed \cup {i}
  /\ UNCHANGED <<settings, lastRun, scans, owner, recent, research, generations, history, changes>>

-----------------------------------------------------------------------------
(* A request throws or an execution dies; time passes.                     *)
ResearchDies(r) ==
  /\ research[r].pc # "idle"
  /\ research' = [research EXCEPT ![r] = IdleResearch]
  /\ UNCHANGED <<settings, lastRun, scans, insights, recent, generations, history, changes>>

GenerationDies(g) ==
  /\ ~At(g, "idle")
  /\ generations' = [generations EXCEPT ![g] = IdleGeneration]
  /\ UNCHANGED <<settings, lastRun, scans, insights, recent, research, history, changes>>

CadencePasses(w) ==
  /\ Change /\ lastRun[w] = "recent"
  /\ lastRun' = [lastRun EXCEPT ![w] = "past"]
  /\ listed' = [listed EXCEPT ![w] = 0]
  /\ UNCHANGED <<settings, scans, insights, recent, research, generations,
                 made, doubled, shared, crowded>>

DaysPass(w, n) ==
  /\ Change /\ n < recent[w]
  /\ recent' = [recent EXCEPT ![w] = n]
  /\ UNCHANGED <<settings, lastRun, scans, insights, research, generations, history>>

-----------------------------------------------------------------------------
Settings(w) ==
  \/ Toggle(w) \/ SuspendOrReactivate(w)
  \/ \E n \in PostsPerWeek : Upsert(w, n)

Researching ==
  \/ \E r \in Research : FindDue(r) \/ MarkDue(r) \/ ResearchDies(r)
  \/ \E r \in Research, w \in Workspace, ok \in BOOLEAN : RequestScan(r, w, ok)
  \/ \E w \in Workspace, i \in Insight : ScanInserts(w, i) \/ CreateManual(w, i)
  \/ \E w \in Workspace : ScanEnds(w)

Generating ==
  \/ \E g \in Generation, w \in Workspace : ReadPipeline(g, w)
  \/ \E g \in Generation : CountRecent(g) \/ MarkConsumed(g) \/ GenerationDies(g)
  \/ \E g \in Generation, found \in SUBSET Insight : FindInsights(g, found)
  \/ \E g \in Generation, i \in Insight : CreatePiece(g, i) \/ ItemFails(g, i)
  \/ \E i \in Insight : HumanUses(i)

Next ==
  \/ \E w \in Workspace : Settings(w) \/ CadencePasses(w)
  \/ \E w \in Workspace : \E n \in 0..recent[w] : DaysPass(w, n)
  \/ Researching \/ Generating

Spec == Init /\ [][Next]_vars

-----------------------------------------------------------------------------
(* The types of the variables.                                             *)
TypeOK ==
  /\ active \in [Workspace -> BOOLEAN] /\ perWeek \in [Workspace -> PostsPerWeek]
  /\ lastRun \in [Workspace -> {"never", "recent", "past"}]
  /\ suspended \subseteq Workspace /\ scans \in [Workspace -> Nat]
  /\ owner \in [Insight -> Workspace \cup {Nil}] /\ consumed \subseteq Insight
  /\ recent \in [Workspace -> Nat]
  /\ research \in [Research -> ResearchState]
  /\ generations \in [Generation -> GenerationState]
  /\ listed \in [Workspace -> Nat] /\ made \in [Insight -> Nat]
  /\ doubled \subseteq Workspace /\ shared \subseteq Insight /\ crowded \subseteq Workspace
  /\ changes \in Nat

(* A workspace is handed to the research at most once in a cadence, unless *)
(* two executions asked at the same moment (spec 033, CA-04).              *)
ResearchedOnce == \A w \in Workspace \ doubled : listed[w] <= 1

(* In no week are there more pieces of the autopilot than posts_per_week,  *)
(* unless two executions generated for the workspace at once or the number *)
(* was lowered (spec 034, CA-03).                                          *)
WithinCadence == \A w \in Workspace \ crowded : recent[w] <= perWeek[w]

(* The autopilot makes at most one piece of an insight, unless two         *)
(* executions found it before either had marked it.                        *)
InsightMakesOnePiece == \A i \in Insight \ shared : made[i] <= 1
=============================================================================
