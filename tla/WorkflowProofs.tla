---------------------------- MODULE WorkflowProofs ---------------------------
(***************************************************************************)
(* Theorems about the workflows of n8n and the endpoints they call:        *)
(* Autopilot, for every set of workspaces, insights and executions,        *)
(* Scheduling, for every calendar, and ImageGeneration, for every set of   *)
(* jobs and calls.                                                         *)
(*                                                                         *)
(* Between the statement that finds and the one that marks, an execution   *)
(* of the autopilot relies on what it found; between its reads and its     *)
(* request, one of the scheduling workflow on the times it read.  The      *)
(* inductive invariants say what is still true of it.                      *)
(***************************************************************************)
EXTENDS Autopilot, Scheduling, ImageGeneration, FiniteSetTheorems, WellFoundedInduction, TLAPS

(* An execution at work has a workspace.                                   *)
TypeInv ==
  /\ TypeOK
  /\ \A g \in Generation : ~At(g, "idle") => generations[g].workspace \in Workspace

(* What an execution is about to mark was not marked in this cadence, and  *)
(* no other execution is about to mark it.                                 *)
Marking(r, w) == research[r].pc = "mark" /\ w \in research[r].due
ResearchInv ==
  /\ \A w \in Workspace : listed[w] = 0 \/ lastRun[w] = "recent"
  /\ \A w \in Workspace \ doubled : listed[w] <= 1
  /\ \A r \in Research, w \in Workspace \ doubled : Marking(r, w) => listed[w] = 0
  /\ \A r, x \in Research, w \in Workspace \ doubled :
       Marking(r, w) /\ Marking(x, w) => r = x

(* An insight with a piece is consumed, so is one that was handed out; one *)
(* that an execution holds has no piece yet and no other execution has it. *)
Holds(g, i) == generations[g].pc \in {"mark", "items"} /\ i \in generations[g].items
InsightInv ==
  /\ \A i \in Insight : made[i] > 0 => i \in consumed
  /\ \A i \in Insight \ shared : made[i] <= 1
  /\ \A g \in Generation, i \in Insight : Holds(g, i) /\ At(g, "items") => i \in consumed
  /\ \A g \in Generation, i \in Insight \ shared : Holds(g, i) => made[i] = 0
  /\ \A g, x \in Generation, i \in Insight \ shared : Holds(g, i) /\ Holds(x, i) => g = x

(* What an execution will still make fits into the week, and it is alone   *)
(* at it.                                                                  *)
Owned == {i \in Insight : owner[i] # Nil}
Fits(g, w) ==
  /\ At(g, "count") => generations[g].remaining <= perWeek[w]
  /\ At(g, "find") => generations[g].remaining + recent[w] <= perWeek[w]
  /\ generations[g].pc \in {"mark", "items"} =>
       Cardinality(generations[g].items) + recent[w] <= perWeek[w]
CadenceInv ==
  /\ IsFiniteSet(Owned)
  /\ \A g \in Generation : IsFiniteSet(generations[g].items)
  /\ \A w \in Workspace \ crowded : recent[w] <= perWeek[w]
  /\ \A g \in Generation, w \in Workspace \ crowded :
       generations[g].workspace = w => Fits(g, w)
  /\ \A g, x \in Generation, w \in Workspace \ crowded :
       BusyFor(g, w) /\ BusyFor(x, w) => g = x

-----------------------------------------------------------------------------
(* Edits of an execution keep its type.                                    *)
LEMMA ExecutionTypes ==
  /\ IdleResearch \in ResearchState /\ IdleGeneration \in GenerationState
  /\ \A due \in SUBSET Workspace : [pc |-> "mark", due |-> due] \in ResearchState
  /\ \A s \in ResearchState :
       /\ [s EXCEPT !.pc = "scan"] \in ResearchState
       /\ \A due \in SUBSET Workspace : [s EXCEPT !.due = due] \in ResearchState
  /\ \A w \in Workspace, n \in Int :
       [IdleGeneration EXCEPT !.pc = "count", !.workspace = w, !.remaining = n]
         \in GenerationState
  /\ \A s \in GenerationState :
       /\ [s EXCEPT !.pc = "items"] \in GenerationState
       /\ \A n \in Int : [s EXCEPT !.pc = "find", !.remaining = n] \in GenerationState
       /\ \A is \in SUBSET Insight : [s EXCEPT !.items = is] \in GenerationState
       /\ \A is \in SUBSET Insight : [s EXCEPT !.pc = "mark", !.items = is] \in GenerationState
<1>1. IdleResearch \in ResearchState
  BY DEF IdleResearch, ResearchState
<1>2. IdleGeneration \in GenerationState
  BY DEF IdleGeneration, GenerationState
<1>3. \A due \in SUBSET Workspace : [pc |-> "mark", due |-> due] \in ResearchState
  BY DEF ResearchState
<1>4. ASSUME NEW s \in ResearchState
      PROVE  /\ [s EXCEPT !.pc = "scan"] \in ResearchState
             /\ \A due \in SUBSET Workspace : [s EXCEPT !.due = due] \in ResearchState
  BY <1>4 DEF ResearchState
<1>5. ASSUME NEW w \in Workspace, NEW n \in Int
      PROVE  [IdleGeneration EXCEPT !.pc = "count", !.workspace = w, !.remaining = n]
               \in GenerationState
  BY <1>5 DEF IdleGeneration, GenerationState
<1>6. ASSUME NEW s \in GenerationState
      PROVE  /\ [s EXCEPT !.pc = "items"] \in GenerationState
             /\ \A n \in Int : [s EXCEPT !.pc = "find", !.remaining = n] \in GenerationState
             /\ \A is \in SUBSET Insight : [s EXCEPT !.items = is] \in GenerationState
             /\ \A is \in SUBSET Insight :
                  [s EXCEPT !.pc = "mark", !.items = is] \in GenerationState
  BY <1>6 DEF GenerationState
<1> QED
  BY <1>1, <1>2, <1>3, <1>4, <1>5, <1>6

(* A step that only writes one execution keeps the types.                  *)
LEMMA ResearchTyped ==
  ASSUME TypeInv, NEW r \in Research, NEW s \in ResearchState,
         research' = [research EXCEPT ![r] = s]
  PROVE  research' \in [Research -> ResearchState]
  BY DEF TypeInv, TypeOK
LEMMA GenerationTyped ==
  ASSUME TypeInv, NEW g \in Generation, NEW s \in GenerationState,
         generations' = [generations EXCEPT ![g] = s]
  PROVE  generations' \in [Generation -> GenerationState]
  BY DEF TypeInv, TypeOK

(* Every step keeps the types.                                             *)
LEMMA TypeStep ==
  ASSUME TypeInv, [Next]_vars PROVE TypeInv'
<1> USE DEF TypeInv
<1>0. TypeInv
  OBVIOUS
<1>0a. ASSUME NEW w \in Workspace PROVE perWeek[w] \in Int /\ recent[w] \in Int
  <2>1. PostsPerWeek \subseteq Nat
    BY AutopilotAssumption DEF AutopilotAssumption
  <2>2. perWeek[w] \in PostsPerWeek /\ recent[w] \in Nat
    BY <1>0 DEF TypeOK
  <2>3. perWeek[w] \in Nat
    BY <2>1, <2>2
  <2> QED
    BY <2>2, <2>3
<1>0b. \A g \in Generation :
         generations[g].remaining \in Int /\ generations[g].items \subseteq Insight
  BY <1>0 DEF TypeOK, GenerationState
<1>1. ASSUME NEW w \in Workspace, Toggle(w)
      PROVE  TypeInv'
  BY <1>0, <1>1
    DEF TypeInv, TypeOK, At, vars, settings, insights, history, Toggle, Change
<1>2. ASSUME NEW w \in Workspace, SuspendOrReactivate(w)
      PROVE  TypeInv'
  BY <1>0, <1>2
    DEF TypeInv, TypeOK, At, vars, settings, insights, history,
        SuspendOrReactivate, Change
<1>3. ASSUME NEW w \in Workspace, NEW n \in PostsPerWeek, Upsert(w, n)
      PROVE  TypeInv'
  BY <1>0, <1>3
    DEF TypeInv, TypeOK, At, vars, settings, insights, history, Upsert, Change
<1>4. ASSUME NEW w \in Workspace, CadencePasses(w)
      PROVE  TypeInv'
  BY <1>0, <1>4
    DEF TypeInv, TypeOK, At, vars, settings, insights, history, CadencePasses,
        Change
<1>5. ASSUME NEW w \in Workspace, NEW n \in 0..recent[w], DaysPass(w, n)
      PROVE  TypeInv'
  BY <1>0, <1>5
    DEF TypeInv, TypeOK, At, vars, settings, insights, history, DaysPass, Change
<1>6. ASSUME NEW r \in Research, FindDue(r)
      PROVE  TypeInv'
  <2>1. research[r] \in ResearchState
    BY <1>0 DEF TypeOK
  <2> DEFINE s == [pc |-> "mark", due |-> {w \in Workspace : Due(w)}]
  <2>2. s \in ResearchState
    BY <1>0, <1>0a, <1>0b, <1>6, <2>1, ExecutionTypes DEF TypeOK, FindDue
  <2>3. research' = [research EXCEPT ![r] = s]
    BY <1>6 DEF FindDue
  <2> HIDE DEF s
  <2>4. research' \in [Research -> ResearchState]
    BY <1>0, <2>2, <2>3, ResearchTyped
  <2>5. TypeOK'
    BY <1>0, <1>0a, <1>0b, <1>6, <2>4
      DEF TypeOK, vars, settings, insights, history, FindDue
  <2> QED
    BY <1>0, <1>6, <2>5 DEF At, FindDue
<1>7. ASSUME NEW r \in Research, MarkDue(r)
      PROVE  TypeInv'
  <2>1. research[r] \in ResearchState
    BY <1>0 DEF TypeOK
  <2> DEFINE s == [research[r] EXCEPT !.pc = "scan"]
  <2>2. s \in ResearchState
    BY <1>0, <1>0a, <1>0b, <1>7, <2>1, ExecutionTypes DEF TypeOK, MarkDue, Lists
  <2>3. research' = [research EXCEPT ![r] = s]
    BY <1>7 DEF MarkDue, Lists
  <2> HIDE DEF s
  <2>4. research' \in [Research -> ResearchState]
    BY <1>0, <2>2, <2>3, ResearchTyped
  <2>5. TypeOK'
    BY <1>0, <1>0a, <1>0b, <1>7, <2>4
      DEF TypeOK, vars, settings, insights, history, MarkDue, Lists
  <2> QED
    BY <1>0, <1>7, <2>5 DEF At, MarkDue, Lists
<1>8. ASSUME NEW r \in Research, ResearchDies(r)
      PROVE  TypeInv'
  <2>1. research[r] \in ResearchState
    BY <1>0 DEF TypeOK
  <2> DEFINE s == IdleResearch
  <2>2. s \in ResearchState
    BY <1>0, <1>0a, <1>0b, <1>8, <2>1, ExecutionTypes DEF TypeOK, ResearchDies
  <2>3. research' = [research EXCEPT ![r] = s]
    BY <1>8 DEF ResearchDies
  <2> HIDE DEF s
  <2>4. research' \in [Research -> ResearchState]
    BY <1>0, <2>2, <2>3, ResearchTyped
  <2>5. TypeOK'
    BY <1>0, <1>0a, <1>0b, <1>8, <2>4
      DEF TypeOK, vars, settings, insights, history, ResearchDies
  <2> QED
    BY <1>0, <1>8, <2>5 DEF At, ResearchDies
<1>9. ASSUME NEW r \in Research, NEW w \in Workspace, NEW ok \in BOOLEAN, RequestScan(r, w, ok)
      PROVE  TypeInv'
  <2>1. research[r] \in ResearchState
    BY <1>0 DEF TypeOK
  <2>2. research' \in [Research -> ResearchState]
    <3>1. CASE research[r].due = {w}
      <4>1. IdleResearch \in ResearchState
        BY ExecutionTypes
      <4>2. research' = [research EXCEPT ![r] = IdleResearch]
        BY <1>9, <3>1 DEF RequestScan
      <4> QED
        BY <1>0, <4>1, <4>2, ResearchTyped
    <3>2. CASE ~(research[r].due = {w})
      <4> DEFINE s == [research[r] EXCEPT !.due = research[r].due \ {w}]
      <4>0. research[r].due \ {w} \in SUBSET Workspace
        BY <2>1 DEF ResearchState
      <4>1. s \in ResearchState
        BY <1>0, <4>0, <1>0a, <1>0b, <1>9, <2>1, ExecutionTypes
          DEF TypeOK, RequestScan
      <4>2. research' = [research EXCEPT ![r] = s]
        BY <1>9, <3>2 DEF RequestScan
      <4> HIDE DEF s
      <4> QED
        BY <1>0, <4>1, <4>2, ResearchTyped
    <3> QED
      BY <3>1, <3>2
  <2>3. TypeOK'
    BY <1>0, <1>0a, <1>0b, <1>9, <2>2
      DEF TypeOK, vars, settings, insights, history, RequestScan
  <2> QED
    BY <1>0, <1>9, <2>3 DEF At, RequestScan
<1>10. ASSUME NEW w \in Workspace, NEW i \in Insight, ScanInserts(w, i)
      PROVE  TypeInv'
  BY <1>0, <1>10
    DEF TypeInv, TypeOK, At, vars, settings, insights, history, ScanInserts,
        NewInsight
<1>11. ASSUME NEW w \in Workspace, NEW i \in Insight, CreateManual(w, i)
      PROVE  TypeInv'
  BY <1>0, <1>11
    DEF TypeInv, TypeOK, At, vars, settings, insights, history, CreateManual,
        NewInsight
<1>12. ASSUME NEW w \in Workspace, ScanEnds(w)
      PROVE  TypeInv'
  BY <1>0, <1>12
    DEF TypeInv, TypeOK, At, vars, settings, insights, history, ScanEnds
<1>13. ASSUME NEW g \in Generation, NEW w \in Workspace, ReadPipeline(g, w)
      PROVE  TypeInv'
  <2>1. generations[g] \in GenerationState
    BY <1>0 DEF TypeOK
  <2> DEFINE s == [IdleGeneration EXCEPT !.pc = "count", !.workspace = w, !.remaining = perWeek[w]]
  <2>2. s \in GenerationState
    BY <1>0, <1>0a, <1>0b, <1>13, <2>1, ExecutionTypes
      DEF TypeOK, ReadPipeline, At
  <2>3. generations' = [generations EXCEPT ![g] = s]
    BY <1>13 DEF ReadPipeline
  <2> HIDE DEF s
  <2>4. generations' \in [Generation -> GenerationState]
    BY <1>0, <2>2, <2>3, GenerationTyped
  <2>5. TypeOK'
    BY <1>0, <1>0a, <1>0b, <1>13, <2>4
      DEF TypeOK, vars, settings, insights, history, ReadPipeline, At
  <2> QED
    BY <1>0, <1>13, <2>5 DEF TypeOK, At, IdleGeneration, ReadPipeline
<1>14. ASSUME NEW g \in Generation, CountRecent(g)
      PROVE  TypeInv'
  <2>1. generations[g] \in GenerationState
    BY <1>0 DEF TypeOK
  <2>2. generations' \in [Generation -> GenerationState]
    <3>1. CASE generations[g].remaining - recent[generations[g].workspace] <= 0
      <4>1. IdleGeneration \in GenerationState
        BY ExecutionTypes
      <4>2. generations' = [generations EXCEPT ![g] = IdleGeneration]
        BY <1>14, <3>1 DEF CountRecent, Counts
      <4> QED
        BY <1>0, <4>1, <4>2, GenerationTyped
    <3>2. CASE ~(generations[g].remaining - recent[generations[g].workspace] <= 0)
      <4> DEFINE s == [generations[g] EXCEPT !.pc = "find",
                  !.remaining = generations[g].remaining - recent[generations[g].workspace]]
      <4>0. generations[g].remaining - recent[generations[g].workspace] \in Int
        BY <1>0, <1>0a, <1>0b, <1>14 DEF CountRecent, Counts, At
      <4>1. s \in GenerationState
        BY <1>0, <4>0, <1>0a, <1>0b, <1>14, <2>1, ExecutionTypes
          DEF TypeOK, CountRecent, Counts, At
      <4>2. generations' = [generations EXCEPT ![g] = s]
        BY <1>14, <3>2 DEF CountRecent, Counts
      <4> HIDE DEF s
      <4> QED
        BY <1>0, <4>1, <4>2, GenerationTyped
    <3> QED
      BY <3>1, <3>2
  <2>3. TypeOK'
    BY <1>0, <1>0a, <1>0b, <1>14, <2>2
      DEF TypeOK, vars, settings, insights, history, CountRecent, Counts, At
  <2> QED
    BY <1>0, <1>14, <2>3 DEF TypeOK, At, IdleGeneration, CountRecent, Counts
<1>15. ASSUME NEW g \in Generation, MarkConsumed(g)
      PROVE  TypeInv'
  <2>1. generations[g] \in GenerationState
    BY <1>0 DEF TypeOK
  <2> DEFINE s == [generations[g] EXCEPT !.pc = "items"]
  <2>2. s \in GenerationState
    BY <1>0, <1>0a, <1>0b, <1>15, <2>1, ExecutionTypes
      DEF TypeOK, MarkConsumed, HandsOut, At
  <2>3. generations' = [generations EXCEPT ![g] = s]
    BY <1>15 DEF MarkConsumed, HandsOut
  <2> HIDE DEF s
  <2>4. generations' \in [Generation -> GenerationState]
    BY <1>0, <2>2, <2>3, GenerationTyped
  <2>5. TypeOK'
    BY <1>0, <1>0a, <1>0b, <1>15, <2>4
      DEF TypeOK, vars, settings, insights, history, MarkConsumed, HandsOut, At
  <2> QED
    BY <1>0, <1>15, <2>5 DEF TypeOK, At, IdleGeneration, MarkConsumed, HandsOut
<1>16. ASSUME NEW g \in Generation, GenerationDies(g)
      PROVE  TypeInv'
  <2>1. generations[g] \in GenerationState
    BY <1>0 DEF TypeOK
  <2> DEFINE s == IdleGeneration
  <2>2. s \in GenerationState
    BY <1>0, <1>0a, <1>0b, <1>16, <2>1, ExecutionTypes
      DEF TypeOK, GenerationDies, At
  <2>3. generations' = [generations EXCEPT ![g] = s]
    BY <1>16 DEF GenerationDies
  <2> HIDE DEF s
  <2>4. generations' \in [Generation -> GenerationState]
    BY <1>0, <2>2, <2>3, GenerationTyped
  <2>5. TypeOK'
    BY <1>0, <1>0a, <1>0b, <1>16, <2>4
      DEF TypeOK, vars, settings, insights, history, GenerationDies, At
  <2> QED
    BY <1>0, <1>16, <2>5 DEF TypeOK, At, IdleGeneration, GenerationDies
<1>17. ASSUME NEW g \in Generation, NEW found \in SUBSET Insight, FindInsights(g, found)
      PROVE  TypeInv'
  <2>1. generations[g] \in GenerationState
    BY <1>0 DEF TypeOK
  <2> DEFINE s == (IF found = {} THEN IdleGeneration
          ELSE [generations[g] EXCEPT !.pc = "mark", !.items = found])
  <2>2. s \in GenerationState
    BY <1>0, <1>0a, <1>0b, <1>17, <2>1, ExecutionTypes
      DEF TypeOK, FindInsights, At
  <2>3. generations' = [generations EXCEPT ![g] = s]
    BY <1>17 DEF FindInsights
  <2> HIDE DEF s
  <2>4. generations' \in [Generation -> GenerationState]
    BY <1>0, <2>2, <2>3, GenerationTyped
  <2>5. TypeOK'
    BY <1>0, <1>0a, <1>0b, <1>17, <2>4
      DEF TypeOK, vars, settings, insights, history, FindInsights, At
  <2> QED
    BY <1>0, <1>17, <2>5 DEF TypeOK, At, IdleGeneration, FindInsights
<1>18. ASSUME NEW g \in Generation, NEW i \in Insight, CreatePiece(g, i)
      PROVE  TypeInv'
  <2>1. generations[g] \in GenerationState
    BY <1>0 DEF TypeOK
  <2>2. generations' \in [Generation -> GenerationState]
    <3>1. CASE generations[g].items = {i}
      <4>1. IdleGeneration \in GenerationState
        BY ExecutionTypes
      <4>2. generations' = [generations EXCEPT ![g] = IdleGeneration]
        BY <1>18, <3>1 DEF CreatePiece, NextItem
      <4> QED
        BY <1>0, <4>1, <4>2, GenerationTyped
    <3>2. CASE ~(generations[g].items = {i})
      <4> DEFINE s == [generations[g] EXCEPT !.items = generations[g].items \ {i}]
      <4>1. s \in GenerationState
        BY <1>0, <1>0a, <1>0b, <1>18, <2>1, ExecutionTypes
          DEF TypeOK, CreatePiece, NextItem, At
      <4>2. generations' = [generations EXCEPT ![g] = s]
        BY <1>18, <3>2 DEF CreatePiece, NextItem
      <4> HIDE DEF s
      <4> QED
        BY <1>0, <4>1, <4>2, GenerationTyped
    <3> QED
      BY <3>1, <3>2
  <2>3. TypeOK'
    BY <1>0, <1>0a, <1>0b, <1>18, <2>2
      DEF TypeOK, vars, settings, insights, history, CreatePiece, NextItem, At
  <2> QED
    BY <1>0, <1>18, <2>3 DEF TypeOK, At, IdleGeneration, CreatePiece, NextItem
<1>19. ASSUME NEW g \in Generation, NEW i \in Insight, ItemFails(g, i)
      PROVE  TypeInv'
  <2>1. generations[g] \in GenerationState
    BY <1>0 DEF TypeOK
  <2>2. generations' \in [Generation -> GenerationState]
    <3>1. CASE generations[g].items = {i}
      <4>1. IdleGeneration \in GenerationState
        BY ExecutionTypes
      <4>2. generations' = [generations EXCEPT ![g] = IdleGeneration]
        BY <1>19, <3>1 DEF ItemFails, NextItem
      <4> QED
        BY <1>0, <4>1, <4>2, GenerationTyped
    <3>2. CASE ~(generations[g].items = {i})
      <4> DEFINE s == [generations[g] EXCEPT !.items = generations[g].items \ {i}]
      <4>1. s \in GenerationState
        BY <1>0, <1>0a, <1>0b, <1>19, <2>1, ExecutionTypes
          DEF TypeOK, ItemFails, NextItem, At
      <4>2. generations' = [generations EXCEPT ![g] = s]
        BY <1>19, <3>2 DEF ItemFails, NextItem
      <4> HIDE DEF s
      <4> QED
        BY <1>0, <4>1, <4>2, GenerationTyped
    <3> QED
      BY <3>1, <3>2
  <2>3. TypeOK'
    BY <1>0, <1>0a, <1>0b, <1>19, <2>2
      DEF TypeOK, vars, settings, insights, history, ItemFails, NextItem, At
  <2> QED
    BY <1>0, <1>19, <2>3 DEF TypeOK, At, IdleGeneration, ItemFails, NextItem
<1>20. ASSUME NEW i \in Insight, HumanUses(i)
      PROVE  TypeInv'
  BY <1>0, <1>20
    DEF TypeInv, TypeOK, At, vars, settings, insights, history, HumanUses
<1>21. CASE UNCHANGED vars
  BY <1>21 DEF TypeInv, TypeOK, At, vars, settings, insights, history
<1> QED
  BY <1>1, <1>2, <1>3, <1>4, <1>5, <1>6, <1>7, <1>8, <1>9, <1>10, <1>11,
     <1>12, <1>13, <1>14, <1>15, <1>16, <1>17, <1>18, <1>19, <1>20, <1>21
  DEF Next, Settings, Researching, Generating

-----------------------------------------------------------------------------
(* Where nothing is marked and nothing more is about to be, nothing breaks.*)
LEMMA ResearchFrame ==
  ASSUME ResearchInv, UNCHANGED <<listed, lastRun, doubled>>,
         \A r \in Research, w \in Workspace : Marking(r, w)' => Marking(r, w)
  PROVE  ResearchInv'
  BY DEF ResearchInv

(* Every step keeps it.                                                    *)
LEMMA ResearchStep ==
  ASSUME TypeInv, ResearchInv, [Next]_vars PROVE ResearchInv'
<1>0. TypeInv /\ ResearchInv
  OBVIOUS
<1>1. ASSUME NEW w \in Workspace, Toggle(w)
      PROVE  ResearchInv'
  BY <1>0, <1>1, ResearchFrame
    DEF Marking, vars, settings, insights, history, Toggle, Change
<1>2. ASSUME NEW w \in Workspace, SuspendOrReactivate(w)
      PROVE  ResearchInv'
  BY <1>0, <1>2, ResearchFrame
    DEF Marking, vars, settings, insights, history, SuspendOrReactivate, Change
<1>3. ASSUME NEW w \in Workspace, NEW n \in PostsPerWeek, Upsert(w, n)
      PROVE  ResearchInv'
  BY <1>0, <1>3, ResearchFrame
    DEF Marking, vars, settings, insights, history, Upsert, Change
<1>4. ASSUME NEW w \in Workspace, CadencePasses(w)
      PROVE  ResearchInv'
  <2>1. \A v \in Workspace : listed'[v] = 0 \/ lastRun'[v] = "recent"
    BY <1>0, <1>4
      DEF ResearchInv, TypeInv, TypeOK, Marking, vars, settings, insights,
          history, CadencePasses, Change
  <2>2. \A v \in Workspace \ doubled' : listed'[v] <= 1
    BY <1>0, <1>4
      DEF ResearchInv, TypeInv, TypeOK, Marking, vars, settings, insights,
          history, CadencePasses, Change
  <2>3. ASSUME NEW x \in Research, NEW v \in Workspace \ doubled', Marking(x, v)'
        PROVE  listed'[v] = 0
    BY <1>0, <1>4, <2>3
      DEF ResearchInv, TypeInv, TypeOK, ResearchState, Marking, Due, vars,
          settings, insights, history, CadencePasses, Change
  <2>4. ASSUME NEW x \in Research, NEW y \in Research, NEW v \in Workspace \ doubled',
               Marking(x, v)', Marking(y, v)'
        PROVE  x = y
    BY <1>0, <1>4, <2>4
      DEF ResearchInv, TypeInv, TypeOK, ResearchState, Marking, vars, settings,
          insights, history, CadencePasses, Change
  <2> QED
    BY <2>1, <2>2, <2>3, <2>4 DEF ResearchInv
<1>5. ASSUME NEW w \in Workspace, NEW n \in 0..recent[w], DaysPass(w, n)
      PROVE  ResearchInv'
  BY <1>0, <1>5, ResearchFrame
    DEF Marking, vars, settings, insights, history, DaysPass, Change
<1>6. ASSUME NEW r \in Research, FindDue(r)
      PROVE  ResearchInv'
  <2>1. \A v \in Workspace : listed'[v] = 0 \/ lastRun'[v] = "recent"
    BY <1>0, <1>6
      DEF ResearchInv, TypeInv, TypeOK, Marking, vars, settings, insights,
          history, FindDue
  <2>2. \A v \in Workspace \ doubled' : listed'[v] <= 1
    BY <1>0, <1>6
      DEF ResearchInv, TypeInv, TypeOK, Marking, vars, settings, insights,
          history, FindDue
  <2>3. ASSUME NEW x \in Research, NEW v \in Workspace \ doubled', Marking(x, v)'
        PROVE  listed'[v] = 0
    BY <1>0, <1>6, <2>3
      DEF ResearchInv, TypeInv, TypeOK, ResearchState, Marking, Due, vars,
          settings, insights, history, FindDue
  <2>4. ASSUME NEW x \in Research, NEW y \in Research, NEW v \in Workspace \ doubled',
               Marking(x, v)', Marking(y, v)'
        PROVE  x = y
    BY <1>0, <1>6, <2>4
      DEF ResearchInv, TypeInv, TypeOK, ResearchState, Marking, vars, settings,
          insights, history, FindDue
  <2> QED
    BY <2>1, <2>2, <2>3, <2>4 DEF ResearchInv
<1>7. ASSUME NEW r \in Research, MarkDue(r)
      PROVE  ResearchInv'
  <2>1. \A v \in Workspace : listed'[v] = 0 \/ lastRun'[v] = "recent"
    BY <1>0, <1>7
      DEF ResearchInv, TypeInv, TypeOK, Marking, vars, settings, insights,
          history, MarkDue, Lists
  <2>2. \A v \in Workspace \ doubled' : listed'[v] <= 1
    BY <1>0, <1>7
      DEF ResearchInv, TypeInv, TypeOK, Marking, vars, settings, insights,
          history, MarkDue, Lists
  <2>3. ASSUME NEW x \in Research, NEW v \in Workspace \ doubled', Marking(x, v)'
        PROVE  listed'[v] = 0
    BY <1>0, <1>7, <2>3
      DEF ResearchInv, TypeInv, TypeOK, ResearchState, Marking, Due, vars,
          settings, insights, history, MarkDue, Lists
  <2>4. ASSUME NEW x \in Research, NEW y \in Research, NEW v \in Workspace \ doubled',
               Marking(x, v)', Marking(y, v)'
        PROVE  x = y
    BY <1>0, <1>7, <2>4
      DEF ResearchInv, TypeInv, TypeOK, ResearchState, Marking, vars, settings,
          insights, history, MarkDue, Lists
  <2> QED
    BY <2>1, <2>2, <2>3, <2>4 DEF ResearchInv
<1>8. ASSUME NEW r \in Research, ResearchDies(r)
      PROVE  ResearchInv'
  <2>1. \A x \in Research, v \in Workspace : Marking(x, v)' => Marking(x, v)
    BY <1>0, <1>8 DEF TypeInv, TypeOK, Marking, IdleResearch, ResearchDies
  <2> QED
    BY <1>0, <1>8, <2>1, ResearchFrame
      DEF vars, settings, insights, history, ResearchDies
<1>9. ASSUME NEW r \in Research, NEW w \in Workspace, NEW ok \in BOOLEAN, RequestScan(r, w, ok)
      PROVE  ResearchInv'
  <2>1. \A x \in Research, v \in Workspace : Marking(x, v)' => Marking(x, v)
    BY <1>0, <1>9 DEF TypeInv, TypeOK, Marking, IdleResearch, RequestScan
  <2> QED
    BY <1>0, <1>9, <2>1, ResearchFrame
      DEF vars, settings, insights, history, RequestScan
<1>10. ASSUME NEW w \in Workspace, NEW i \in Insight, ScanInserts(w, i)
      PROVE  ResearchInv'
  BY <1>0, <1>10, ResearchFrame
    DEF Marking, vars, settings, insights, history, ScanInserts, NewInsight
<1>11. ASSUME NEW w \in Workspace, NEW i \in Insight, CreateManual(w, i)
      PROVE  ResearchInv'
  BY <1>0, <1>11, ResearchFrame
    DEF Marking, vars, settings, insights, history, CreateManual, NewInsight
<1>12. ASSUME NEW w \in Workspace, ScanEnds(w)
      PROVE  ResearchInv'
  BY <1>0, <1>12, ResearchFrame
    DEF Marking, vars, settings, insights, history, ScanEnds
<1>13. ASSUME NEW g \in Generation, NEW w \in Workspace, ReadPipeline(g, w)
      PROVE  ResearchInv'
  BY <1>0, <1>13, ResearchFrame
    DEF Marking, vars, settings, insights, history, ReadPipeline
<1>14. ASSUME NEW g \in Generation, CountRecent(g)
      PROVE  ResearchInv'
  BY <1>0, <1>14, ResearchFrame
    DEF Marking, vars, settings, insights, history, CountRecent, Counts
<1>15. ASSUME NEW g \in Generation, MarkConsumed(g)
      PROVE  ResearchInv'
  BY <1>0, <1>15, ResearchFrame
    DEF Marking, vars, settings, insights, history, MarkConsumed, HandsOut
<1>16. ASSUME NEW g \in Generation, GenerationDies(g)
      PROVE  ResearchInv'
  BY <1>0, <1>16, ResearchFrame
    DEF Marking, vars, settings, insights, history, GenerationDies
<1>17. ASSUME NEW g \in Generation, NEW found \in SUBSET Insight, FindInsights(g, found)
      PROVE  ResearchInv'
  BY <1>0, <1>17, ResearchFrame
    DEF Marking, vars, settings, insights, history, FindInsights
<1>18. ASSUME NEW g \in Generation, NEW i \in Insight, CreatePiece(g, i)
      PROVE  ResearchInv'
  BY <1>0, <1>18, ResearchFrame
    DEF Marking, vars, settings, insights, history, CreatePiece, NextItem
<1>19. ASSUME NEW g \in Generation, NEW i \in Insight, ItemFails(g, i)
      PROVE  ResearchInv'
  BY <1>0, <1>19, ResearchFrame
    DEF Marking, vars, settings, insights, history, ItemFails, NextItem
<1>20. ASSUME NEW i \in Insight, HumanUses(i)
      PROVE  ResearchInv'
  BY <1>0, <1>20, ResearchFrame
    DEF Marking, vars, settings, insights, history, HumanUses
<1>21. CASE UNCHANGED vars
  BY <1>0, <1>21, ResearchFrame DEF Marking, vars, settings, insights, history
<1> QED
  BY <1>1, <1>2, <1>3, <1>4, <1>5, <1>6, <1>7, <1>8, <1>9, <1>10, <1>11,
     <1>12, <1>13, <1>14, <1>15, <1>16, <1>17, <1>18, <1>19, <1>20, <1>21
  DEF Next, Settings, Researching, Generating

-----------------------------------------------------------------------------
(* Where no piece is made and nobody takes another insight, nothing breaks.*)
LEMMA InsightFrame ==
  ASSUME InsightInv, UNCHANGED <<made, shared>>, consumed \subseteq consumed',
         \A g \in Generation, i \in Insight :
           Holds(g, i)' => Holds(g, i) /\ (At(g, "items")' => At(g, "items") \/ i \in consumed')
  PROVE  InsightInv'
  BY DEF InsightInv

(* Every step keeps it.                                                    *)
LEMMA InsightStep ==
  ASSUME TypeInv, InsightInv, [Next]_vars PROVE InsightInv'
<1>0. TypeInv /\ InsightInv
  OBVIOUS
<1>1. ASSUME NEW w \in Workspace, Toggle(w)
      PROVE  InsightInv'
  BY <1>0, <1>1, InsightFrame
    DEF Holds, At, vars, settings, insights, history, Toggle, Change
<1>2. ASSUME NEW w \in Workspace, SuspendOrReactivate(w)
      PROVE  InsightInv'
  BY <1>0, <1>2, InsightFrame
    DEF Holds, At, vars, settings, insights, history, SuspendOrReactivate,
        Change
<1>3. ASSUME NEW w \in Workspace, NEW n \in PostsPerWeek, Upsert(w, n)
      PROVE  InsightInv'
  BY <1>0, <1>3, InsightFrame
    DEF Holds, At, vars, settings, insights, history, Upsert, Change
<1>4. ASSUME NEW w \in Workspace, CadencePasses(w)
      PROVE  InsightInv'
  BY <1>0, <1>4, InsightFrame
    DEF Holds, At, vars, settings, insights, history, CadencePasses, Change
<1>5. ASSUME NEW w \in Workspace, NEW n \in 0..recent[w], DaysPass(w, n)
      PROVE  InsightInv'
  BY <1>0, <1>5, InsightFrame
    DEF Holds, At, vars, settings, insights, history, DaysPass, Change
<1>6. ASSUME NEW r \in Research, FindDue(r)
      PROVE  InsightInv'
  BY <1>0, <1>6, InsightFrame
    DEF Holds, At, vars, settings, insights, history, FindDue
<1>7. ASSUME NEW r \in Research, MarkDue(r)
      PROVE  InsightInv'
  BY <1>0, <1>7, InsightFrame
    DEF Holds, At, vars, settings, insights, history, MarkDue, Lists
<1>8. ASSUME NEW r \in Research, ResearchDies(r)
      PROVE  InsightInv'
  BY <1>0, <1>8, InsightFrame
    DEF Holds, At, vars, settings, insights, history, ResearchDies
<1>9. ASSUME NEW r \in Research, NEW w \in Workspace, NEW ok \in BOOLEAN, RequestScan(r, w, ok)
      PROVE  InsightInv'
  BY <1>0, <1>9, InsightFrame
    DEF Holds, At, vars, settings, insights, history, RequestScan
<1>10. ASSUME NEW w \in Workspace, NEW i \in Insight, ScanInserts(w, i)
      PROVE  InsightInv'
  BY <1>0, <1>10, InsightFrame
    DEF Holds, At, vars, settings, insights, history, ScanInserts, NewInsight
<1>11. ASSUME NEW w \in Workspace, NEW i \in Insight, CreateManual(w, i)
      PROVE  InsightInv'
  BY <1>0, <1>11, InsightFrame
    DEF Holds, At, vars, settings, insights, history, CreateManual, NewInsight
<1>12. ASSUME NEW w \in Workspace, ScanEnds(w)
      PROVE  InsightInv'
  BY <1>0, <1>12, InsightFrame
    DEF Holds, At, vars, settings, insights, history, ScanEnds
<1>13. ASSUME NEW g \in Generation, NEW w \in Workspace, ReadPipeline(g, w)
      PROVE  InsightInv'
  <2>1. \A x \in Generation, j \in Insight :
          Holds(x, j)' => Holds(x, j) /\ (At(x, "items")' => At(x, "items") \/ j \in consumed')
    BY <1>0, <1>13
      DEF TypeInv, TypeOK, GenerationState, Holds, At, IdleGeneration,
          ReadPipeline
  <2> QED
    BY <1>0, <1>13, <2>1, InsightFrame
      DEF vars, settings, insights, history, ReadPipeline
<1>14. ASSUME NEW g \in Generation, CountRecent(g)
      PROVE  InsightInv'
  <2>1. \A x \in Generation, j \in Insight :
          Holds(x, j)' => Holds(x, j) /\ (At(x, "items")' => At(x, "items") \/ j \in consumed')
    BY <1>0, <1>14
      DEF TypeInv, TypeOK, GenerationState, Holds, At, IdleGeneration,
          CountRecent, Counts
  <2> QED
    BY <1>0, <1>14, <2>1, InsightFrame
      DEF vars, settings, insights, history, CountRecent, Counts
<1>15. ASSUME NEW g \in Generation, MarkConsumed(g)
      PROVE  InsightInv'
  <2>1. \A x \in Generation, j \in Insight :
          Holds(x, j)' => Holds(x, j) /\ (At(x, "items")' => At(x, "items") \/ j \in consumed')
    BY <1>0, <1>15
      DEF TypeInv, TypeOK, GenerationState, Holds, At, IdleGeneration,
          MarkConsumed, HandsOut
  <2> QED
    BY <1>0, <1>15, <2>1, InsightFrame
      DEF vars, settings, insights, history, MarkConsumed, HandsOut
<1>16. ASSUME NEW g \in Generation, GenerationDies(g)
      PROVE  InsightInv'
  <2>1. \A x \in Generation, j \in Insight :
          Holds(x, j)' => Holds(x, j) /\ (At(x, "items")' => At(x, "items") \/ j \in consumed')
    BY <1>0, <1>16
      DEF TypeInv, TypeOK, GenerationState, Holds, At, IdleGeneration,
          GenerationDies
  <2> QED
    BY <1>0, <1>16, <2>1, InsightFrame
      DEF vars, settings, insights, history, GenerationDies
<1>17. ASSUME NEW g \in Generation, NEW found \in SUBSET Insight, FindInsights(g, found)
      PROVE  InsightInv'
  <2>0. \A x \in Generation, j \in Insight :
          /\ Holds(x, j)' => IF x = g THEN j \in found /\ j \notin consumed
                             ELSE Holds(x, j)
          /\ Holds(x, j)' /\ At(x, "items")' => Holds(x, j) /\ At(x, "items")
    BY <1>0, <1>17
      DEF TypeInv, TypeOK, GenerationState, Holds, At, IdleGeneration,
          FindInsights
  <2>1. \A j \in Insight : made'[j] > 0 => j \in consumed'
    BY <1>0, <1>17
      DEF InsightInv, TypeInv, TypeOK, Holds, At, vars, settings, insights,
          history, FindInsights
  <2>2. \A j \in Insight \ shared' : made'[j] <= 1
    BY <1>0, <1>17
      DEF InsightInv, TypeInv, TypeOK, Holds, At, vars, settings, insights,
          history, FindInsights
  <2>3. ASSUME NEW x \in Generation, NEW j \in Insight, Holds(x, j)', At(x, "items")'
        PROVE  j \in consumed'
    BY <1>0, <1>17, <2>0, <2>3
      DEF InsightInv, vars, settings, insights, history, FindInsights
  <2>4. ASSUME NEW x \in Generation, NEW j \in Insight \ shared', Holds(x, j)'
        PROVE  made'[j] = 0
    BY <1>0, <1>17, <2>0, <2>4
      DEF InsightInv, TypeInv, TypeOK, Holds, At, vars, settings, insights,
          history, FindInsights
  <2>5. ASSUME NEW x \in Generation, NEW y \in Generation, NEW j \in Insight \ shared',
               Holds(x, j)', Holds(y, j)'
        PROVE  x = y
    BY <1>0, <1>17, <2>0, <2>5
      DEF InsightInv, TypeInv, TypeOK, Holds, At, vars, settings, insights,
          history, FindInsights
  <2> QED
    BY <2>1, <2>2, <2>3, <2>4, <2>5 DEF InsightInv
<1>18. ASSUME NEW g \in Generation, NEW i \in Insight, CreatePiece(g, i)
      PROVE  InsightInv'
  <2>0. \A x \in Generation, j \in Insight :
          /\ Holds(x, j)' => IF x = g THEN Holds(x, j) /\ ~(j = i)
                             ELSE Holds(x, j)
          /\ Holds(x, j)' /\ At(x, "items")' => Holds(x, j) /\ At(x, "items")
    BY <1>0, <1>18
      DEF TypeInv, TypeOK, GenerationState, Holds, At, IdleGeneration,
          CreatePiece, NextItem
  <2>1. \A j \in Insight : made'[j] > 0 => j \in consumed'
    BY <1>0, <1>18
      DEF InsightInv, TypeInv, TypeOK, Holds, At, vars, settings, insights,
          history, CreatePiece, NextItem
  <2>2. \A j \in Insight \ shared' : made'[j] <= 1
    BY <1>0, <1>18
      DEF InsightInv, TypeInv, TypeOK, Holds, At, vars, settings, insights,
          history, CreatePiece, NextItem
  <2>3. ASSUME NEW x \in Generation, NEW j \in Insight, Holds(x, j)', At(x, "items")'
        PROVE  j \in consumed'
    BY <1>0, <1>18, <2>0, <2>3
      DEF InsightInv, vars, settings, insights, history, CreatePiece, NextItem
  <2>4. ASSUME NEW x \in Generation, NEW j \in Insight \ shared', Holds(x, j)'
        PROVE  made'[j] = 0
    BY <1>0, <1>18, <2>0, <2>4
      DEF InsightInv, TypeInv, TypeOK, Holds, At, vars, settings, insights,
          history, CreatePiece, NextItem
  <2>5. ASSUME NEW x \in Generation, NEW y \in Generation, NEW j \in Insight \ shared',
               Holds(x, j)', Holds(y, j)'
        PROVE  x = y
    BY <1>0, <1>18, <2>0, <2>5
      DEF InsightInv, TypeInv, TypeOK, Holds, At, vars, settings, insights,
          history, CreatePiece, NextItem
  <2> QED
    BY <2>1, <2>2, <2>3, <2>4, <2>5 DEF InsightInv
<1>19. ASSUME NEW g \in Generation, NEW i \in Insight, ItemFails(g, i)
      PROVE  InsightInv'
  <2>1. \A x \in Generation, j \in Insight :
          Holds(x, j)' => Holds(x, j) /\ (At(x, "items")' => At(x, "items") \/ j \in consumed')
    BY <1>0, <1>19
      DEF TypeInv, TypeOK, GenerationState, Holds, At, IdleGeneration,
          ItemFails, NextItem
  <2> QED
    BY <1>0, <1>19, <2>1, InsightFrame
      DEF vars, settings, insights, history, ItemFails, NextItem
<1>20. ASSUME NEW i \in Insight, HumanUses(i)
      PROVE  InsightInv'
  BY <1>0, <1>20, InsightFrame
    DEF Holds, At, vars, settings, insights, history, HumanUses
<1>21. CASE UNCHANGED vars
  BY <1>0, <1>21, InsightFrame DEF Holds, At, vars, settings, insights, history
<1> QED
  BY <1>1, <1>2, <1>3, <1>4, <1>5, <1>6, <1>7, <1>8, <1>9, <1>10, <1>11,
     <1>12, <1>13, <1>14, <1>15, <1>16, <1>17, <1>18, <1>19, <1>20, <1>21
  DEF Next, Settings, Researching, Generating
-----------------------------------------------------------------------------
(* The numbers are numbers.                                                *)
LEMMA Numbers ==
  ASSUME TypeInv, NEW w \in Workspace
  PROVE  recent[w] \in Nat /\ perWeek[w] \in Nat
<1>1. PostsPerWeek \subseteq Nat
  BY AutopilotAssumption DEF AutopilotAssumption
<1>2. perWeek[w] \in PostsPerWeek /\ recent[w] \in Nat
  BY DEF TypeInv, TypeOK
<1>3. perWeek[w] \in Nat
  BY <1>1, <1>2
<1> QED
  BY <1>2, <1>3

-----------------------------------------------------------------------------
(* Where executions only stop, no week gets fuller and no number smaller,  *)
(* nothing breaks.                                                         *)
LEMMA CadenceFrame ==
  ASSUME TypeInv, TypeInv', CadenceInv, IsFiniteSet(Owned'), crowded \subseteq crowded',
         \A w \in Workspace \ crowded' : recent'[w] <= recent[w] /\ perWeek[w] <= perWeek'[w],
         \A g \in Generation :
           generations'[g] = generations[g] \/ generations'[g] = IdleGeneration
  PROVE  CadenceInv'
<1>1. ASSUME NEW w \in Workspace
      PROVE  /\ recent[w] \in Int /\ recent'[w] \in Int
             /\ perWeek[w] \in Int /\ perWeek'[w] \in Int
  <2>1. recent'[w] \in Nat /\ perWeek'[w] \in PostsPerWeek
    BY DEF TypeInv, TypeOK
  <2>2. PostsPerWeek \subseteq Nat
    BY AutopilotAssumption DEF AutopilotAssumption
  <2>3. perWeek'[w] \in Nat
    BY <2>1, <2>2
  <2> QED
    BY <2>1, <2>3, Numbers
<1>2. \A g \in Generation : IsFiniteSet(generations[g].items)
  BY DEF CadenceInv
<1>3. \A g \in Generation :
        Cardinality(generations[g].items) \in Int /\ generations[g].remaining \in Int
  BY <1>2, FS_CardinalityType DEF TypeInv, TypeOK, GenerationState
<1>4. IsFiniteSet(IdleGeneration.items) /\ IdleGeneration.pc = "idle"
      /\ IdleGeneration.workspace \notin Workspace
  BY FS_EmptySet, AutopilotAssumption DEF IdleGeneration, AutopilotAssumption
<1>5. \A g \in Generation : IsFiniteSet(generations'[g].items)
  BY <1>2, <1>4
<1>6. \A w \in Workspace \ crowded' : recent'[w] <= perWeek'[w]
  BY <1>1 DEF CadenceInv
<1>7. ASSUME NEW g \in Generation, NEW w \in Workspace \ crowded',
             generations'[g].workspace = w
      PROVE  Fits(g, w)'
  <2>1. generations'[g] = generations[g] /\ Fits(g, w)
    BY <1>4, <1>7 DEF CadenceInv
  <2>2. recent'[w] <= recent[w] /\ perWeek[w] <= perWeek'[w]
    BY <1>7
  <2> QED
    BY <1>1, <1>3, <2>1, <2>2 DEF Fits, At
<1>8. ASSUME NEW g \in Generation, NEW x \in Generation, NEW w \in Workspace \ crowded',
             BusyFor(g, w)', BusyFor(x, w)'
      PROVE  g = x
  BY <1>4, <1>8 DEF CadenceInv, BusyFor, At
<1> QED
  BY <1>5, <1>6, <1>7, <1>8 DEF CadenceInv

(* Where one execution goes on with its own workspace, that is all there   *)
(* is to see to.                                                           *)
LEMMA CadenceOfOne ==
  ASSUME TypeInv, TypeInv', CadenceInv, NEW g \in Generation,
         UNCHANGED <<owner, perWeek>>, crowded \subseteq crowded',
         \A x \in Generation \ {g} : generations'[x] = generations[x],
         IsFiniteSet(generations'[g].items),
         \A w \in Workspace \ crowded' :
           /\ \/ recent'[w] = recent[w]
              \/ BusyFor(g, w) /\ recent'[w] <= perWeek[w]
           /\ generations'[g].workspace = w => Fits(g, w)'
           /\ BusyFor(g, w)' => \A x \in Generation \ {g} : ~BusyFor(x, w)
  PROVE  CadenceInv'
<1>1. IsFiniteSet(Owned)'
  BY DEF CadenceInv, Owned
<1>2. \A x \in Generation : IsFiniteSet(generations'[x].items)
  BY DEF CadenceInv
<1>3. \A w \in Workspace \ crowded' : recent'[w] <= perWeek'[w]
  BY DEF CadenceInv
<1>4. ASSUME NEW x \in Generation, NEW w \in Workspace \ crowded',
             generations'[x].workspace = w
      PROVE  Fits(x, w)'
  <2>1. CASE x = g
    BY <1>4, <2>1
  <2>2. CASE x # g
    <3>1. generations'[x] = generations[x] /\ Fits(x, w)
      BY <1>4, <2>2 DEF CadenceInv
    <3>2. recent'[w] = recent[w] \/ At(x, "count")
      BY <1>4, <2>2, <3>1 DEF CadenceInv, BusyFor
    <3> QED
      BY <3>1, <3>2 DEF Fits, At
  <2> QED
    BY <2>1, <2>2
<1>5. ASSUME NEW x \in Generation, NEW y \in Generation, NEW w \in Workspace \ crowded',
             BusyFor(x, w)', BusyFor(y, w)'
      PROVE  x = y
  <2>1. \A z \in Generation \ {g} : BusyFor(z, w)' => BusyFor(z, w)
    BY DEF BusyFor, At
  <2>2. x # g /\ y # g => x = y
    BY <1>5, <2>1 DEF CadenceInv
  <2> QED
    BY <1>5, <2>1, <2>2
<1> QED
  BY <1>1, <1>2, <1>3, <1>4, <1>5 DEF CadenceInv

(* Every step keeps it.                                                    *)
LEMMA CadenceStep ==
  ASSUME TypeInv, CadenceInv, [Next]_vars PROVE CadenceInv'
<1>0. TypeInv /\ CadenceInv /\ TypeInv'
  BY TypeStep
<1>0a. \A v \in Workspace : recent[v] \in Int /\ perWeek[v] \in Int
  BY <1>0, Numbers
<1>1. ASSUME NEW w \in Workspace, Toggle(w)
      PROVE  CadenceInv'
  <2>1. IsFiniteSet(Owned')
    BY <1>0, <1>1
      DEF CadenceInv, Owned, vars, settings, insights, history, Toggle, Change
  <2>2. \A v \in Workspace \ crowded' : recent'[v] <= recent[v] /\ perWeek[v] <= perWeek'[v]
    BY <1>0, <1>0a, <1>1
      DEF TypeInv, TypeOK, vars, settings, insights, history, Toggle, Change
  <2> QED
    BY <1>0, <1>1, <2>1, <2>2, CadenceFrame
      DEF vars, settings, insights, history, Toggle, Change
<1>2. ASSUME NEW w \in Workspace, SuspendOrReactivate(w)
      PROVE  CadenceInv'
  <2>1. IsFiniteSet(Owned')
    BY <1>0, <1>2
      DEF CadenceInv, Owned, vars, settings, insights, history,
          SuspendOrReactivate, Change
  <2>2. \A v \in Workspace \ crowded' : recent'[v] <= recent[v] /\ perWeek[v] <= perWeek'[v]
    BY <1>0, <1>0a, <1>2
      DEF TypeInv, TypeOK, vars, settings, insights, history,
          SuspendOrReactivate, Change
  <2> QED
    BY <1>0, <1>2, <2>1, <2>2, CadenceFrame
      DEF vars, settings, insights, history, SuspendOrReactivate, Change
<1>3. ASSUME NEW w \in Workspace, NEW n \in PostsPerWeek, Upsert(w, n)
      PROVE  CadenceInv'
  <2>1. IsFiniteSet(Owned')
    BY <1>0, <1>3
      DEF CadenceInv, Owned, vars, settings, insights, history, Upsert
  <2>2. n \in Nat
    BY AutopilotAssumption DEF AutopilotAssumption
  <2>3. ASSUME NEW v \in Workspace \ crowded'
        PROVE  recent'[v] <= recent[v] /\ perWeek[v] <= perWeek'[v]
    <3>1. recent'[v] = recent[v] 
          /\ recent[v] \in Int /\ perWeek[v] \in Int
      BY <1>0a, <1>3 DEF vars, settings, insights, history, Upsert
    <3>2. CASE v = w
      <4>1. perWeek'[v] = n /\ ~(n < perWeek[v])
        BY <1>0, <1>3, <3>2 DEF TypeInv, TypeOK, Upsert
      <4> QED
        BY <2>2, <3>1, <4>1
    <3>3. CASE ~(v = w)
      <4>1. perWeek'[v] = perWeek[v]
        BY <1>0, <1>3, <3>3 DEF TypeInv, TypeOK, Upsert
      <4> QED
        BY <3>1, <4>1
    <3> QED
      BY <3>2, <3>3
  <2> QED
    BY <1>0, <1>3, <2>1, <2>3, CadenceFrame
      DEF vars, settings, insights, history, Upsert
<1>4. ASSUME NEW w \in Workspace, CadencePasses(w)
      PROVE  CadenceInv'
  <2>1. IsFiniteSet(Owned')
    BY <1>0, <1>4
      DEF CadenceInv, Owned, vars, settings, insights, history, CadencePasses,
          Change
  <2>2. \A v \in Workspace \ crowded' : recent'[v] <= recent[v] /\ perWeek[v] <= perWeek'[v]
    BY <1>0, <1>0a, <1>4
      DEF TypeInv, TypeOK, vars, settings, insights, history, CadencePasses,
          Change
  <2> QED
    BY <1>0, <1>4, <2>1, <2>2, CadenceFrame
      DEF vars, settings, insights, history, CadencePasses, Change
<1>5. ASSUME NEW w \in Workspace, NEW n \in 0..recent[w], DaysPass(w, n)
      PROVE  CadenceInv'
  <2>1. IsFiniteSet(Owned')
    BY <1>0, <1>5
      DEF CadenceInv, Owned, vars, settings, insights, history, DaysPass, Change
  <2>2. \A v \in Workspace \ crowded' : recent'[v] <= recent[v] /\ perWeek[v] <= perWeek'[v]
    BY <1>0, <1>0a, <1>5
      DEF TypeInv, TypeOK, vars, settings, insights, history, DaysPass, Change
  <2> QED
    BY <1>0, <1>5, <2>1, <2>2, CadenceFrame
      DEF vars, settings, insights, history, DaysPass, Change
<1>6. ASSUME NEW r \in Research, FindDue(r)
      PROVE  CadenceInv'
  <2>1. IsFiniteSet(Owned')
    BY <1>0, <1>6
      DEF CadenceInv, Owned, vars, settings, insights, history, FindDue
  <2>2. \A v \in Workspace \ crowded' : recent'[v] <= recent[v] /\ perWeek[v] <= perWeek'[v]
    BY <1>0, <1>0a, <1>6
      DEF TypeInv, TypeOK, vars, settings, insights, history, FindDue
  <2> QED
    BY <1>0, <1>6, <2>1, <2>2, CadenceFrame
      DEF vars, settings, insights, history, FindDue
<1>7. ASSUME NEW r \in Research, MarkDue(r)
      PROVE  CadenceInv'
  <2>1. IsFiniteSet(Owned')
    BY <1>0, <1>7
      DEF CadenceInv, Owned, vars, settings, insights, history, MarkDue, Lists
  <2>2. \A v \in Workspace \ crowded' : recent'[v] <= recent[v] /\ perWeek[v] <= perWeek'[v]
    BY <1>0, <1>0a, <1>7
      DEF TypeInv, TypeOK, vars, settings, insights, history, MarkDue, Lists
  <2> QED
    BY <1>0, <1>7, <2>1, <2>2, CadenceFrame
      DEF vars, settings, insights, history, MarkDue, Lists
<1>8. ASSUME NEW r \in Research, ResearchDies(r)
      PROVE  CadenceInv'
  <2>1. IsFiniteSet(Owned')
    BY <1>0, <1>8
      DEF CadenceInv, Owned, vars, settings, insights, history, ResearchDies
  <2>2. \A v \in Workspace \ crowded' : recent'[v] <= recent[v] /\ perWeek[v] <= perWeek'[v]
    BY <1>0, <1>0a, <1>8
      DEF TypeInv, TypeOK, vars, settings, insights, history, ResearchDies
  <2> QED
    BY <1>0, <1>8, <2>1, <2>2, CadenceFrame
      DEF vars, settings, insights, history, ResearchDies
<1>9. ASSUME NEW r \in Research, NEW w \in Workspace, NEW ok \in BOOLEAN, RequestScan(r, w, ok)
      PROVE  CadenceInv'
  <2>1. IsFiniteSet(Owned')
    BY <1>0, <1>9
      DEF CadenceInv, Owned, vars, settings, insights, history, RequestScan
  <2>2. \A v \in Workspace \ crowded' : recent'[v] <= recent[v] /\ perWeek[v] <= perWeek'[v]
    BY <1>0, <1>0a, <1>9
      DEF TypeInv, TypeOK, vars, settings, insights, history, RequestScan
  <2> QED
    BY <1>0, <1>9, <2>1, <2>2, CadenceFrame
      DEF vars, settings, insights, history, RequestScan
<1>10. ASSUME NEW w \in Workspace, NEW i \in Insight, ScanInserts(w, i)
      PROVE  CadenceInv'
  <2>1. Owned' = Owned \cup {i}
    BY <1>0, <1>10, AutopilotAssumption
      DEF Owned, TypeInv, TypeOK, vars, settings, insights, history,
          ScanInserts, NewInsight, AutopilotAssumption
  <2>2. IsFiniteSet(Owned')
    BY <1>0, <2>1, FS_AddElement DEF CadenceInv
  <2>3. \A v \in Workspace \ crowded' : recent'[v] <= recent[v] /\ perWeek[v] <= perWeek'[v]
    BY <1>0, <1>0a, <1>10
      DEF vars, settings, insights, history, ScanInserts, NewInsight
  <2> QED
    BY <1>0, <1>10, <2>2, <2>3, CadenceFrame
      DEF vars, settings, insights, history, ScanInserts, NewInsight
<1>11. ASSUME NEW w \in Workspace, NEW i \in Insight, CreateManual(w, i)
      PROVE  CadenceInv'
  <2>1. Owned' = Owned \cup {i}
    BY <1>0, <1>11, AutopilotAssumption
      DEF Owned, TypeInv, TypeOK, vars, settings, insights, history,
          CreateManual, NewInsight, AutopilotAssumption
  <2>2. IsFiniteSet(Owned')
    BY <1>0, <2>1, FS_AddElement DEF CadenceInv
  <2>3. \A v \in Workspace \ crowded' : recent'[v] <= recent[v] /\ perWeek[v] <= perWeek'[v]
    BY <1>0, <1>0a, <1>11
      DEF vars, settings, insights, history, CreateManual, NewInsight
  <2> QED
    BY <1>0, <1>11, <2>2, <2>3, CadenceFrame
      DEF vars, settings, insights, history, CreateManual, NewInsight
<1>12. ASSUME NEW w \in Workspace, ScanEnds(w)
      PROVE  CadenceInv'
  <2>1. IsFiniteSet(Owned')
    BY <1>0, <1>12
      DEF CadenceInv, Owned, vars, settings, insights, history, ScanEnds
  <2>2. \A v \in Workspace \ crowded' : recent'[v] <= recent[v] /\ perWeek[v] <= perWeek'[v]
    BY <1>0, <1>0a, <1>12
      DEF TypeInv, TypeOK, vars, settings, insights, history, ScanEnds
  <2> QED
    BY <1>0, <1>12, <2>1, <2>2, CadenceFrame
      DEF vars, settings, insights, history, ScanEnds
<1>13. ASSUME NEW g \in Generation, NEW w \in Workspace, ReadPipeline(g, w)
      PROVE  CadenceInv'
  <2>1. /\ generations'[g] = [IdleGeneration EXCEPT !.pc = "count", !.workspace = w,
                                                !.remaining = perWeek[w]]
        /\ \A x \in Generation \ {g} : generations'[x] = generations[x]
    BY <1>0, <1>13 DEF TypeInv, TypeOK, ReadPipeline
  <2>5. IsFiniteSet(generations'[g].items)
    BY <2>1, FS_EmptySet DEF IdleGeneration
  <2>6. ASSUME NEW v \in Workspace \ crowded'
        PROVE  /\ \/ recent'[v] = recent[v]
                  \/ BusyFor(g, v) /\ recent'[v] <= perWeek[v]
               /\ generations'[g].workspace = v => Fits(g, v)'
               /\ BusyFor(g, v)' => \A x \in Generation \ {g} : ~BusyFor(x, v)
    <3>1. recent'[v] = recent[v]
      BY <1>13 DEF vars, settings, insights, history, ReadPipeline
    <3>2. generations'[g].workspace = v => Fits(g, v)'
      BY <1>0, <1>0a, <1>13, <2>1
        DEF IdleGeneration, Fits, At, vars, settings, insights, history,
            ReadPipeline
    <3>3. ~BusyFor(g, v)'
      BY <2>1 DEF BusyFor, At, IdleGeneration
    <3> QED
      BY <3>1, <3>2, <3>3
  <2> QED
    BY <1>0, <1>13, <2>1, <2>5, <2>6, CadenceOfOne
      DEF vars, settings, insights, history, ReadPipeline
<1>14. ASSUME NEW g \in Generation, CountRecent(g)
      PROVE  CadenceInv'
  <2> DEFINE left == generations[g].remaining - recent[generations[g].workspace]
  <2>0. generations[g] \in GenerationState /\ generations[g].workspace \in Workspace
        /\ left \in Int
    BY <1>0, <1>0a, <1>14
      DEF TypeInv, TypeOK, GenerationState, At, CountRecent, Counts
  <2>1. /\ \A x \in Generation \ {g} : generations'[x] = generations[x]
        /\ \/ generations'[g] = IdleGeneration
           \/ generations'[g] = [generations[g] EXCEPT !.pc = "find", !.remaining = left]
    BY <1>0, <1>14 DEF TypeInv, TypeOK, CountRecent, Counts
  <2>2. \/ generations'[g] = IdleGeneration
        \/ /\ generations'[g].pc = "find" /\ generations'[g].remaining = left
           /\ generations'[g].workspace = generations[g].workspace
           /\ generations'[g].items = generations[g].items
    BY <2>0, <2>1 DEF GenerationState
  <2> HIDE DEF left
  <2>5. IsFiniteSet(generations'[g].items)
    <3>1. IsFiniteSet(generations[g].items) /\ IdleGeneration.items = {}
      BY <1>0 DEF CadenceInv, IdleGeneration
    <3> QED
      BY ONLY <2>2, <3>1, FS_EmptySet
  <2>6. ASSUME NEW v \in Workspace \ crowded'
        PROVE  /\ recent'[v] = recent[v]
               /\ generations'[g].workspace = v => Fits(g, v)'
               /\ BusyFor(g, v)' => \A x \in Generation \ {g} : ~BusyFor(x, v)
    <3>1. recent'[v] = recent[v] /\ perWeek'[v] = perWeek[v] /\ v \notin crowded
      BY <1>14 DEF vars, settings, insights, history, CountRecent, Counts
    <3>2. ASSUME generations'[g].workspace = v PROVE Fits(g, v)'
      <4>1. /\ generations'[g].pc = "find" /\ generations'[g].remaining = left
            /\ generations[g].workspace = v
        BY <2>2, <3>2, AutopilotAssumption
          DEF IdleGeneration, AutopilotAssumption
      <4>2. left = generations[g].remaining - recent[v] /\ generations[g].remaining <= perWeek[v]
        BY <1>0, <1>14, <3>1, <4>1
          DEF left, CadenceInv, Fits, CountRecent, Counts
      <4>3. recent[v] \in Int /\ perWeek[v] \in Int /\ generations[g].remaining \in Int
        BY <1>0a, <2>0 DEF GenerationState
      <4> QED
        BY <3>1, <4>1, <4>2, <4>3 DEF Fits, At
    <3>3. ASSUME BusyFor(g, v)' PROVE \A x \in Generation \ {g} : ~BusyFor(x, v)
      <4>1. generations[g].workspace = v
        BY <2>2, <3>3, AutopilotAssumption
          DEF BusyFor, IdleGeneration, AutopilotAssumption
      <4> QED
        BY <1>14, <4>1 DEF CountRecent, Counts
    <3> QED
      BY <3>1, <3>2, <3>3
  <2> QED
    BY <1>0, <1>14, <2>1, <2>5, <2>6, CadenceOfOne
      DEF vars, settings, insights, history, CountRecent, Counts
<1>15. ASSUME NEW g \in Generation, MarkConsumed(g)
      PROVE  CadenceInv'
  <2>1. /\ \A x \in Generation \ {g} : generations'[x] = generations[x]
        /\ generations'[g].pc = "items"
        /\ generations'[g].workspace = generations[g].workspace
        /\ generations'[g].items = generations[g].items
    BY <1>0, <1>15 DEF TypeInv, TypeOK, GenerationState, MarkConsumed, HandsOut
  <2>5. IsFiniteSet(generations'[g].items)
    BY <1>0, <2>1 DEF CadenceInv
  <2>6. ASSUME NEW v \in Workspace \ crowded'
        PROVE  /\ recent'[v] = recent[v]
               /\ generations'[g].workspace = v => Fits(g, v)'
               /\ BusyFor(g, v)' => \A x \in Generation \ {g} : ~BusyFor(x, v)
    <3>1. recent'[v] = recent[v] /\ perWeek'[v] = perWeek[v] /\ v \notin crowded
      BY <1>15 DEF vars, settings, insights, history, MarkConsumed, HandsOut
    <3>2. ASSUME generations'[g].workspace = v PROVE Fits(g, v)'
      BY <1>0, <1>15, <2>1, <3>1, <3>2
        DEF CadenceInv, Fits, At, MarkConsumed, HandsOut
    <3>3. BusyFor(g, v)' => BusyFor(g, v)
      BY <1>15, <2>1 DEF BusyFor, At, MarkConsumed, HandsOut
    <3> QED
      BY <1>0, <3>1, <3>2, <3>3 DEF CadenceInv
  <2> QED
    BY <1>0, <1>15, <2>1, <2>5, <2>6, CadenceOfOne
      DEF vars, settings, insights, history, MarkConsumed, HandsOut
<1>16. ASSUME NEW g \in Generation, GenerationDies(g)
      PROVE  CadenceInv'
  <2>1. IsFiniteSet(Owned')
    BY <1>0, <1>16
      DEF CadenceInv, Owned, vars, settings, insights, history, GenerationDies
  <2>2. \A v \in Workspace \ crowded' : recent'[v] <= recent[v] /\ perWeek[v] <= perWeek'[v]
    BY <1>0, <1>0a, <1>16 DEF vars, settings, insights, history, GenerationDies
  <2>3. \A x \in Generation :
          generations'[x] = generations[x] \/ generations'[x] = IdleGeneration
    BY <1>0, <1>16 DEF TypeInv, TypeOK, GenerationDies
  <2> QED
    BY <1>0, <1>16, <2>1, <2>2, <2>3, CadenceFrame
      DEF vars, settings, insights, history, GenerationDies
<1>17. ASSUME NEW g \in Generation, NEW found \in SUBSET Insight, FindInsights(g, found)
      PROVE  CadenceInv'
  <2>0. generations[g] \in GenerationState /\ generations[g].remaining \in Int
    BY <1>0 DEF TypeInv, TypeOK, GenerationState
  <2>1. /\ \A x \in Generation \ {g} : generations'[x] = generations[x]
        /\ \/ generations'[g] = IdleGeneration
           \/ generations'[g] = [generations[g] EXCEPT !.pc = "mark", !.items = found]
    BY <1>0, <1>17 DEF TypeInv, TypeOK, FindInsights
  <2>2. \/ generations'[g] = IdleGeneration
        \/ /\ generations'[g].pc = "mark" /\ generations'[g].items = found
           /\ generations'[g].workspace = generations[g].workspace
    BY <2>0, <2>1 DEF GenerationState
  <2>3. generations[g].workspace \in Workspace
    BY <1>0, <1>17 DEF TypeInv, At, FindInsights
  <2>4. found \subseteq Owned
    BY <1>17, <2>3, AutopilotAssumption
      DEF Owned, AutopilotAssumption, FindInsights
  <2>4a. IsFiniteSet(found) /\ Cardinality(found) \in Int
    BY <1>0, <2>4, FS_Subset, FS_CardinalityType DEF CadenceInv
  <2>5. IsFiniteSet(generations'[g].items)
    BY <2>2, <2>4a, FS_EmptySet DEF IdleGeneration
  <2>6. ASSUME NEW v \in Workspace \ crowded'
        PROVE  /\ recent'[v] = recent[v]
               /\ generations'[g].workspace = v => Fits(g, v)'
               /\ BusyFor(g, v)' => \A x \in Generation \ {g} : ~BusyFor(x, v)
    <3>1. recent'[v] = recent[v] /\ perWeek'[v] = perWeek[v] /\ v \notin crowded
      BY <1>17 DEF vars, settings, insights, history, FindInsights
    <3>2. ASSUME generations'[g].workspace = v
          PROVE  Fits(g, v)' /\ BusyFor(g, v)
      <4>1. /\ generations'[g].pc = "mark" /\ generations'[g].items = found
            /\ generations[g].workspace = v
        BY <2>2, <3>2, AutopilotAssumption
          DEF IdleGeneration, AutopilotAssumption
      <4>2. /\ generations[g].remaining + recent[v] <= perWeek[v]
            /\ Cardinality(found) <= generations[g].remaining /\ BusyFor(g, v)
        BY <1>0, <1>17, <2>0, <2>4a, <3>1, <4>1
          DEF CadenceInv, Fits, At, BusyFor, FindInsights
      <4>3. recent[v] \in Int /\ perWeek[v] \in Int
        BY <1>0a
      <4> QED
        BY <2>0, <2>4a, <3>1, <4>1, <4>2, <4>3 DEF Fits, At
    <3>3. BusyFor(g, v)' => BusyFor(g, v)
      BY <3>2 DEF BusyFor
    <3> QED
      BY <1>0, <3>1, <3>2, <3>3 DEF CadenceInv
  <2> QED
    BY <1>0, <1>17, <2>1, <2>5, <2>6, CadenceOfOne
      DEF vars, settings, insights, history, FindInsights
<1>18. ASSUME NEW g \in Generation, NEW i \in Insight, CreatePiece(g, i)
      PROVE  CadenceInv'
  <2>0. generations[g] \in GenerationState /\ generations[g].pc = "items"
        /\ i \in generations[g].items /\ generations[g].workspace \in Workspace
    BY <1>0, <1>18 DEF TypeInv, TypeOK, At, CreatePiece, NextItem
  <2>1. /\ \A x \in Generation \ {g} : generations'[x] = generations[x]
        /\ \/ generations'[g] = IdleGeneration
           \/ generations'[g] = [generations[g] EXCEPT !.items = generations[g].items \ {i}]
    BY <1>0, <1>18 DEF TypeInv, TypeOK, CreatePiece, NextItem
  <2>2. \/ generations'[g] = IdleGeneration
        \/ /\ generations'[g].pc = "items"
           /\ generations'[g].workspace = generations[g].workspace
           /\ generations'[g].items = generations[g].items \ {i}
    BY <2>0, <2>1 DEF GenerationState
  <2>3. IsFiniteSet(generations[g].items)
    BY <1>0 DEF CadenceInv
  <2>4. /\ IsFiniteSet(generations[g].items \ {i})
        /\ Cardinality(generations[g].items \ {i}) = Cardinality(generations[g].items) - 1
        /\ Cardinality(generations[g].items) \in Nat
        /\ Cardinality(generations[g].items \ {i}) \in Nat
    BY <2>0, <2>3, FS_RemoveElement, FS_CardinalityType
  <2>5. IsFiniteSet(generations'[g].items)
    <3>1. IdleGeneration.items = {}
      BY DEF IdleGeneration
    <3> QED
      BY ONLY <2>2, <2>4, <3>1, FS_EmptySet
  <2>6. ASSUME NEW v \in Workspace \ crowded'
        PROVE  /\ \/ recent'[v] = recent[v]
                  \/ BusyFor(g, v) /\ recent'[v] <= perWeek[v]
               /\ generations'[g].workspace = v => Fits(g, v)'
               /\ BusyFor(g, v)' => \A x \in Generation \ {g} : ~BusyFor(x, v)
    <3>0. perWeek'[v] = perWeek[v] /\ v \notin crowded
          /\ recent[v] \in Int /\ perWeek[v] \in Int
      BY <1>0a, <1>18
        DEF vars, settings, insights, history, CreatePiece, NextItem
    <3>1. CASE ~(generations[g].workspace = v)
      <4>1. recent'[v] = recent[v]
        BY <1>0, <1>18, <3>1
          DEF TypeInv, TypeOK, vars, settings, insights, history, CreatePiece,
              NextItem
      <4>2. ~(generations'[g].workspace = v)
        BY <2>2, <3>1, AutopilotAssumption
          DEF IdleGeneration, AutopilotAssumption
      <4> QED
        BY <4>1, <4>2 DEF BusyFor
    <3>2. CASE generations[g].workspace = v
      <4>1. BusyFor(g, v) /\ Cardinality(generations[g].items) + recent[v] <= perWeek[v]
        BY <1>0, <2>0, <3>0, <3>2 DEF CadenceInv, Fits, BusyFor, At
      <4>2. recent'[v] = recent[v] + 1
        BY <1>0, <1>18, <3>2
          DEF TypeInv, TypeOK, vars, settings, insights, history, CreatePiece,
              NextItem
      <4>3. Cardinality(generations[g].items \ {i}) + recent'[v] <= perWeek[v]
            /\ recent'[v] <= perWeek[v]
        BY <2>4, <3>0, <4>1, <4>2
      <4>4. generations'[g].workspace = v => Fits(g, v)'
        <5>1. CASE generations'[g] = IdleGeneration
          BY <5>1, AutopilotAssumption DEF IdleGeneration, AutopilotAssumption
        <5>2. CASE /\ generations'[g].pc = "items"
                   /\ generations'[g].items = generations[g].items \ {i}
          BY <3>0, <4>3, <5>2 DEF Fits, At
        <5> QED
          BY <2>2, <5>1, <5>2
      <4>5. \A x \in Generation \ {g} : ~BusyFor(x, v)
        BY <1>0, <3>0, <4>1 DEF CadenceInv
      <4> QED
        BY <4>1, <4>3, <4>4, <4>5
    <3> QED
      BY <3>1, <3>2
  <2> QED
    BY <1>0, <1>18, <2>1, <2>5, <2>6, CadenceOfOne
      DEF vars, settings, insights, history, CreatePiece, NextItem
<1>19. ASSUME NEW g \in Generation, NEW i \in Insight, ItemFails(g, i)
      PROVE  CadenceInv'
  <2>0. generations[g] \in GenerationState /\ generations[g].pc = "items"
        /\ i \in generations[g].items /\ generations[g].workspace \in Workspace
    BY <1>0, <1>19 DEF TypeInv, TypeOK, At, ItemFails, NextItem
  <2>1. /\ \A x \in Generation \ {g} : generations'[x] = generations[x]
        /\ \/ generations'[g] = IdleGeneration
           \/ generations'[g] = [generations[g] EXCEPT !.items = generations[g].items \ {i}]
    BY <1>0, <1>19 DEF TypeInv, TypeOK, ItemFails, NextItem
  <2>2. \/ generations'[g] = IdleGeneration
        \/ /\ generations'[g].pc = "items"
           /\ generations'[g].workspace = generations[g].workspace
           /\ generations'[g].items = generations[g].items \ {i}
    BY <2>0, <2>1 DEF GenerationState
  <2>3. IsFiniteSet(generations[g].items)
    BY <1>0 DEF CadenceInv
  <2>4. /\ IsFiniteSet(generations[g].items \ {i})
        /\ Cardinality(generations[g].items \ {i}) = Cardinality(generations[g].items) - 1
        /\ Cardinality(generations[g].items) \in Nat
        /\ Cardinality(generations[g].items \ {i}) \in Nat
    BY <2>0, <2>3, FS_RemoveElement, FS_CardinalityType
  <2>5. IsFiniteSet(generations'[g].items)
    <3>1. IdleGeneration.items = {}
      BY DEF IdleGeneration
    <3> QED
      BY ONLY <2>2, <2>4, <3>1, FS_EmptySet
  <2>6. ASSUME NEW v \in Workspace \ crowded'
        PROVE  /\ \/ recent'[v] = recent[v]
                  \/ BusyFor(g, v) /\ recent'[v] <= perWeek[v]
               /\ generations'[g].workspace = v => Fits(g, v)'
               /\ BusyFor(g, v)' => \A x \in Generation \ {g} : ~BusyFor(x, v)
    <3>0. perWeek'[v] = perWeek[v] /\ v \notin crowded
          /\ recent[v] \in Int /\ perWeek[v] \in Int
      BY <1>0a, <1>19 DEF vars, settings, insights, history, ItemFails, NextItem
    <3>1. CASE ~(generations[g].workspace = v)
      <4>1. recent'[v] = recent[v]
        BY <1>0, <1>19, <3>1
          DEF TypeInv, TypeOK, vars, settings, insights, history, ItemFails,
              NextItem
      <4>2. ~(generations'[g].workspace = v)
        BY <2>2, <3>1, AutopilotAssumption
          DEF IdleGeneration, AutopilotAssumption
      <4> QED
        BY <4>1, <4>2 DEF BusyFor
    <3>2. CASE generations[g].workspace = v
      <4>1. BusyFor(g, v) /\ Cardinality(generations[g].items) + recent[v] <= perWeek[v]
        BY <1>0, <2>0, <3>0, <3>2 DEF CadenceInv, Fits, BusyFor, At
      <4>2. recent'[v] = recent[v]
        BY <1>0, <1>19, <3>2
          DEF TypeInv, TypeOK, vars, settings, insights, history, ItemFails,
              NextItem
      <4>3. Cardinality(generations[g].items \ {i}) + recent'[v] <= perWeek[v]
            /\ recent'[v] <= perWeek[v]
        BY <2>4, <3>0, <4>1, <4>2
      <4>4. generations'[g].workspace = v => Fits(g, v)'
        <5>1. CASE generations'[g] = IdleGeneration
          BY <5>1, AutopilotAssumption DEF IdleGeneration, AutopilotAssumption
        <5>2. CASE /\ generations'[g].pc = "items"
                   /\ generations'[g].items = generations[g].items \ {i}
          BY <3>0, <4>3, <5>2 DEF Fits, At
        <5> QED
          BY <2>2, <5>1, <5>2
      <4>5. \A x \in Generation \ {g} : ~BusyFor(x, v)
        BY <1>0, <3>0, <4>1 DEF CadenceInv
      <4> QED
        BY <4>1, <4>3, <4>4, <4>5
    <3> QED
      BY <3>1, <3>2
  <2> QED
    BY <1>0, <1>19, <2>1, <2>5, <2>6, CadenceOfOne
      DEF vars, settings, insights, history, ItemFails, NextItem
<1>20. ASSUME NEW i \in Insight, HumanUses(i)
      PROVE  CadenceInv'
  <2>1. IsFiniteSet(Owned')
    BY <1>0, <1>20
      DEF CadenceInv, Owned, vars, settings, insights, history, HumanUses
  <2>2. \A v \in Workspace \ crowded' : recent'[v] <= recent[v] /\ perWeek[v] <= perWeek'[v]
    BY <1>0, <1>0a, <1>20
      DEF TypeInv, TypeOK, vars, settings, insights, history, HumanUses
  <2> QED
    BY <1>0, <1>20, <2>1, <2>2, CadenceFrame
      DEF vars, settings, insights, history, HumanUses
<1>21. CASE UNCHANGED vars
  <2>1. IsFiniteSet(Owned')
    BY <1>0, <1>21 DEF CadenceInv, Owned, vars, settings, insights, history
  <2>2. \A v \in Workspace \ crowded' : recent'[v] <= recent[v] /\ perWeek[v] <= perWeek'[v]
    BY <1>0, <1>0a, <1>21 DEF TypeInv, TypeOK, vars, settings, insights, history
  <2> QED
    BY <1>0, <1>21, <2>1, <2>2, CadenceFrame
      DEF vars, settings, insights, history
<1> QED
  BY <1>1, <1>2, <1>3, <1>4, <1>5, <1>6, <1>7, <1>8, <1>9, <1>10, <1>11,
     <1>12, <1>13, <1>14, <1>15, <1>16, <1>17, <1>18, <1>19, <1>20, <1>21
  DEF Next, Settings, Researching, Generating

-----------------------------------------------------------------------------
(* The inductive invariant.                                                *)
IInv == TypeInv /\ ResearchInv /\ InsightInv /\ CadenceInv

LEMMA Inductive == Spec => []IInv
<1>1. Init => IInv
  <2> SUFFICES ASSUME Init PROVE IInv
    OBVIOUS
  <2>0. Init
    OBVIOUS
  <2>1. PostsPerWeek \subseteq Nat
    BY AutopilotAssumption DEF AutopilotAssumption
  <2>2. TypeOK
    <3>1. research \in [Research -> ResearchState] /\ generations \in [Generation -> GenerationState]
      BY <2>0, ExecutionTypes DEF Init
    <3>2. /\ listed \in [Workspace -> Nat] /\ made \in [Insight -> Nat]
          /\ recent \in [Workspace -> Nat] /\ scans \in [Workspace -> Nat]
      BY <2>0 DEF Init, history
    <3> QED
      BY <2>0, <3>1, <3>2 DEF Init, TypeOK
  <2>3. TypeInv
    BY <2>0, <2>2 DEF TypeInv, Init, At, IdleGeneration
  <2>4. ResearchInv
    BY <2>0 DEF ResearchInv, Init, Marking, IdleResearch
  <2>5. InsightInv
    BY <2>0 DEF InsightInv, Init, Holds, At, IdleGeneration
  <2>6. Owned = {}
    BY <2>0 DEF Owned, Init
  <2>7. \A w \in Workspace : recent[w] = 0 /\ perWeek[w] \in Nat
    BY <2>0, <2>3, Numbers DEF Init
  <2>8. \A g \in Generation : generations[g].items = {} /\ generations[g].pc = "idle"
                              /\ generations[g].workspace = Nil
    BY <2>0 DEF Init, IdleGeneration
  <2>9. \A g \in Generation, w \in Workspace : generations[g].workspace # w
    BY <2>8, AutopilotAssumption DEF AutopilotAssumption
  <2>10. CadenceInv
    BY <2>6, <2>7, <2>8, <2>9, FS_EmptySet DEF CadenceInv, BusyFor
  <2> QED
    BY <2>3, <2>4, <2>5, <2>10 DEF IInv
<1>2. IInv /\ [Next]_vars => IInv'
  <2> SUFFICES ASSUME IInv, [Next]_vars PROVE IInv'
    OBVIOUS
  <2>1. TypeInv'
    BY TypeStep DEF IInv
  <2>2. ResearchInv'
    BY ResearchStep DEF IInv
  <2>3. InsightInv'
    BY InsightStep DEF IInv
  <2>4. CadenceInv'
    BY CadenceStep DEF IInv
  <2> QED
    BY <2>1, <2>2, <2>3, <2>4 DEF IInv
<1> QED
  BY <1>1, <1>2, PTL DEF Spec

-----------------------------------------------------------------------------
(* The variables keep their types.                                         *)
THEOREM AutopilotTypes == Spec => []TypeOK
<1>1. IInv => TypeOK
  BY DEF IInv, TypeInv
<1> QED
  BY Inductive, <1>1, PTL

(* A workspace two executions did not find at once is handed to the        *)
(* research at most once in a cadence, whatever else runs                  *)
(* (listAndMarkActiveWorkspaces).                                          *)
THEOREM OneResearchPerCadence == Spec => []ResearchedOnce
<1>1. IInv => ResearchedOnce
  BY DEF IInv, ResearchInv, ResearchedOnce
<1> QED
  BY Inductive, <1>1, PTL

(* A workspace two executions did not generate for at once, and whose      *)
(* posts_per_week was not lowered, never has more pieces of the autopilot  *)
(* in a week than that (nextInsightsAndMark and the pipeline that makes    *)
(* the pieces).                                                            *)
THEOREM CadenceIsKept == Spec => []WithinCadence
<1>1. IInv => WithinCadence
  BY DEF IInv, CadenceInv, WithinCadence
<1> QED
  BY Inductive, <1>1, PTL

(* An insight no two executions found at once gets at most one piece from  *)
(* the autopilot, even though pieces are made long after the mark.         *)
THEOREM OnePiecePerInsight == Spec => []InsightMakesOnePiece
<1>1. IInv => InsightMakesOnePiece
  BY DEF IInv, InsightInv, InsightMakesOnePiece
<1> QED
  BY Inductive, <1>1, PTL

-----------------------------------------------------------------------------
(* The scheduling workflow.  What its constants are.                       *)
LEMMA CalendarNumbers ==
  /\ Day \in Nat /\ Day > 0 /\ SearchDays \in Nat /\ MinSpacing \in Nat
  /\ Moment \subseteq Nat
  /\ PreferredTimes \subseteq Seq(0..Day - 1)
  BY SchedulingAssumption DEF SchedulingAssumption

(* The loops of the workflow meet their candidates one after the other:    *)
(* any that there are have a first.                                        *)
LEMMA FirstCandidate ==
  ASSUME NEW C, C \subseteq Nat \X Nat, C # {}
  PROVE  \E c \in C : \A d \in C \ {c} : Before(c, d)
<1> DEFINE Less == OpToRel(<, Nat)
           Lex == LexPairOrdering(Less, Less, Nat, Nat)
<1>1. IsWellFoundedOn(Lex, Nat \X Nat)
  BY NatLessThanWellFounded, WFLexPairOrdering
<1>2. ASSUME NEW c \in Nat \X Nat, NEW d \in Nat \X Nat, d # c, ~(<<d, c>> \in Lex)
      PROVE  Before(c, d)
  <2>1. ~(d[1] < c[1]) /\ ~(d[1] = c[1] /\ d[2] < c[2])
    BY <1>2 DEF LexPairOrdering, OpToRel
  <2>2. c[1] \in Nat /\ c[2] \in Nat /\ d[1] \in Nat /\ d[2] \in Nat
    OBVIOUS
  <2>3. c[1] # d[1] \/ c[2] # d[2]
    <3>1. c = <<c[1], c[2]>> /\ d = <<d[1], d[2]>>
      OBVIOUS
    <3> QED
      BY <1>2, <3>1
  <2> QED
    BY <2>1, <2>2, <2>3 DEF Before
<1> HIDE DEF Less, Lex
<1>3. PICK c \in C : \A d \in C : ~(<<d, c>> \in Lex)
  BY <1>1, WFMin
<1> QED
  BY <1>2, <1>3

(* The time that is chosen is one of those that are free.                  *)
LEMMA ChosenIsFree ==
  ASSUME NEW times \in PreferredTimes \cup {<<>>}, NEW upcoming \in SUBSET Nat, now \in Nat,
         Free(times, upcoming) # {}
  PROVE  /\ Chosen(times, upcoming) \in Nat
         /\ \A s \in upcoming : Distance(s, Chosen(times, upcoming)) >= MinSpacing
<1> DEFINE free == Free(times, upcoming)
           c == CHOOSE d \in free : \A e \in free \ {d} : Before(d, e)
<1>1. times \in Seq(0..Day - 1)
  <2>1. <<>> \in Seq(0..Day - 1)
    OBVIOUS
  <2> QED
    BY <2>1, CalendarNumbers
<1>2. DOMAIN times \subseteq Nat /\ \A k \in DOMAIN times : times[k] \in Nat
  <2>1. DOMAIN times = 1..Len(times) /\ Len(times) \in Nat
    BY <1>1
  <2> DEFINE Z == 0..Day - 1
  <2> HIDE DEF Z
  <2>4. times \in Seq(Z)
    BY <1>1 DEF Z
  <2>2. \A k \in 1..Len(times) : times[k] \in Z
    BY <2>4
  <2>3. \A t \in Z : t \in Nat
    BY CalendarNumbers DEF Z
  <2> QED
    BY <2>1, <2>2, <2>3
<1>3. free \subseteq Nat \X Nat
  BY <1>2, CalendarNumbers DEF Free, Candidates
<1> HIDE DEF free
<1>4. c \in free
  BY <1>3, FirstCandidate DEF free
<1>5. Chosen(times, upcoming) = TimeOf(times, c)
  BY DEF Chosen, free
<1> HIDE DEF c
<1>6. /\ TimeOf(times, c) > now /\ c[1] \in Nat /\ c[2] \in DOMAIN times
      /\ ~Collides(TimeOf(times, c), upcoming)
  BY <1>4, <1>3, CalendarNumbers DEF free, Free, Candidates
<1>7. TimeOf(times, c) \in Int
  <2>1. now \div Day \in Int
    BY CalendarNumbers
  <2> DEFINE d == now \div Day
  <2> HIDE DEF d
  <2>2. d + c[1] \in Int /\ times[c[2]] \in Int
    BY <1>2, <1>6, <2>1 DEF d
  <2>3. \A n \in Int : n * Day \in Int
    BY CalendarNumbers
  <2>4. TimeOf(times, c) = (d + c[1]) * Day + times[c[2]]
    BY DEF TimeOf, d
  <2>5. (d + c[1]) * Day \in Int
    BY <2>2, <2>3
  <2> QED
    BY <2>2, <2>4, <2>5
<1>8. \A s \in upcoming : Distance(s, TimeOf(times, c)) \in Int
  BY <1>7 DEF Distance
<1> QED
  BY <1>5, <1>6, <1>7, <1>8, CalendarNumbers DEF Collides

(* A publication to come was put where it is behind the back of an         *)
(* execution, or that has its time among those it will look at, and later  *)
(* the time it chose keeps its distance.                                   *)
Keeps(e) ==
  \A q \in Upcoming \ e.behind :
    /\ e.pc = "choose" => publications[q].at \in e.upcoming
    /\ e.pc = "schedule" => Distance(e.at, publications[q].at) >= MinSpacing
KeptInv == \A x \in Execution : Keeps(executions[x])
CalendarInv == CalendarTypeOK /\ KeptInv

-----------------------------------------------------------------------------
LEMMA IdleType == Idle \in ExecutionState /\ Idle.pc = "idle"
  BY DEF Idle, ExecutionState

LEMMA IdleKeeps == Keeps(Idle) /\ Keeps(Idle)'
  BY IdleType DEF Keeps, Idle

LEMMA ExecutionFields ==
  ASSUME NEW s \in ExecutionState
  PROVE  /\ s.at \in Nat /\ s.upcoming \in SUBSET Nat /\ s.behind \in SUBSET PublicationId
         /\ s.times \in PreferredTimes \cup {<<>>} /\ s.account \in BOOLEAN
  BY DEF ExecutionState

LEMMA ExecutionMoves ==
  ASSUME CalendarTypeOK, KeptInv, NEW x \in Execution, NEW e \in ExecutionState, Keeps(e),
         executions' = [executions EXCEPT ![x] = e], Rest
  PROVE  CalendarInv'
<1>1. executions' \in [Execution -> ExecutionState]
  BY DEF CalendarTypeOK
<1>2. CalendarTypeOK'
  BY <1>1 DEF CalendarTypeOK, Rest
<1>3. KeptInv'
  <2> SUFFICES ASSUME NEW y \in Execution PROVE Keeps(executions[y])'
    BY DEF KeptInv
  <2>1. Keeps(executions[y])
    BY DEF KeptInv
  <2>2. executions'[y] = e \/ executions'[y] = executions[y]
    BY DEF CalendarTypeOK
  <2> QED
    BY <2>1, <2>2 DEF Keeps, Upcoming, Rest
<1> QED
  BY <1>2, <1>3 DEF CalendarInv

LEMMA ExecutionSteps ==
  ASSUME CalendarTypeOK, KeptInv, NEW x \in Execution,
         \/ Approved(x) \/ ReadConfig(x) \/ ReadAccounts(x) \/ ReadUpcoming(x) \/ ChooseTime(x)
         \/ ExecutionFails(x)
  PROVE  CalendarInv'
<1> DEFINE ex == executions[x]
<1>0. ex \in ExecutionState /\ Keeps(ex)
  BY DEF CalendarTypeOK, KeptInv
<1>1. CASE Approved(x)
  <2> DEFINE e == [ex EXCEPT !.pc = "config"]
  <2>1. executions' = [executions EXCEPT ![x] = e] /\ Rest
    BY <1>1 DEF Approved, CalendarTypeOK
  <2>2. e \in ExecutionState /\ e.pc = "config"
    BY <1>0 DEF ExecutionState
  <2> HIDE DEF e
  <2>3. Keeps(e)
    BY <2>2 DEF Keeps
  <2> QED
    BY <2>1, <2>2, <2>3, ExecutionMoves
<1>2. CASE ReadConfig(x)
  <2> DEFINE e == [ex EXCEPT !.pc = "accounts", !.times = preferred]
  <2>1. executions' = [executions EXCEPT ![x] = e] /\ Rest /\ preferred \in PreferredTimes
    BY <1>2 DEF ReadConfig, CalendarTypeOK
  <2>2. e \in ExecutionState /\ e.pc = "accounts"
    BY <1>0, <2>1 DEF ExecutionState
  <2> HIDE DEF e
  <2>3. Keeps(e)
    BY <2>2 DEF Keeps
  <2> QED
    BY <2>1, <2>2, <2>3, ExecutionMoves
<1>3. CASE ReadAccounts(x)
  <2> DEFINE e == [ex EXCEPT !.pc = "upcoming", !.account = connected]
  <2>1. executions' = [executions EXCEPT ![x] = e] /\ Rest /\ connected \in BOOLEAN
    BY <1>3 DEF ReadAccounts, CalendarTypeOK
  <2>2. e \in ExecutionState /\ e.pc = "upcoming"
    BY <1>0, <2>1 DEF ExecutionState
  <2> HIDE DEF e
  <2>3. Keeps(e)
    BY <2>2 DEF Keeps
  <2> QED
    BY <2>1, <2>2, <2>3, ExecutionMoves
<1>4. CASE ReadUpcoming(x)
  <2> DEFINE T == {publications[p].at : p \in Upcoming}
             e == [ex EXCEPT !.pc = "choose", !.behind = {}, !.upcoming = T]
  <2>1. executions' = [executions EXCEPT ![x] = e] /\ Rest
    BY <1>4 DEF ReadUpcoming, CalendarTypeOK
  <2>2. Upcoming \in SUBSET PublicationId
    BY DEF Upcoming
  <2>3. T \in SUBSET Nat /\ \A q \in Upcoming : publications[q].at \in T
    BY <2>2 DEF CalendarTypeOK, Publication
  <2> HIDE DEF T
  <2>4. e \in ExecutionState /\ e.upcoming = T /\ e.pc = "choose"
    BY <1>0, <2>3 DEF ExecutionState
  <2> HIDE DEF e
  <2>5. Keeps(e)
    BY <2>3, <2>4 DEF Keeps
  <2> QED
    BY <2>1, <2>4, <2>5, ExecutionMoves
<1>5. CASE ChooseTime(x)
  <2>1. CASE Free(ex.times, ex.upcoming) = {}
    <3>1. executions' = [executions EXCEPT ![x] = Idle] /\ Rest
      BY <1>5, <2>1 DEF ChooseTime
    <3> QED
      BY <3>1, IdleKeeps, IdleType, ExecutionMoves
  <2>2. CASE Free(ex.times, ex.upcoming) # {}
    <3> DEFINE t == Chosen(ex.times, ex.upcoming)
               e == [ex EXCEPT !.pc = "schedule", !.times = <<>>, !.at = t, !.upcoming = {}]
    <3>1. executions' = [executions EXCEPT ![x] = e] /\ Rest /\ ex.pc = "choose"
      BY <1>5, <2>2 DEF ChooseTime, ExecutionAt
    <3>2. t \in Nat /\ \A s \in ex.upcoming : Distance(s, t) >= MinSpacing
      BY <1>0, <2>2, ExecutionFields, ChosenIsFree DEF CalendarTypeOK
    <3> HIDE DEF t
    <3>3. e \in ExecutionState /\ e.behind = ex.behind /\ e.at = t /\ e.pc = "schedule"
      BY <1>0, <3>2 DEF ExecutionState
    <3>4. ASSUME NEW q \in Upcoming \ ex.behind
          PROVE  Distance(t, publications[q].at) >= MinSpacing
      <4>1. publications[q].at \in ex.upcoming
        BY <1>0, <3>1 DEF Keeps
      <4>2. Distance(publications[q].at, t) >= MinSpacing
        BY <3>2, <4>1
      <4>3. publications[q].at \in Nat
        BY <1>0, <4>1, ExecutionFields
      <4> QED
        BY <3>2, <4>2, <4>3 DEF Distance
    <3> HIDE DEF e
    <3>5. Keeps(e)
      BY <3>3, <3>4 DEF Keeps
    <3> QED
      BY <3>1, <3>3, <3>5, ExecutionMoves
  <2> QED
    BY <2>1, <2>2
<1>6. CASE ExecutionFails(x)
  <2>1. executions' = [executions EXCEPT ![x] = Idle] /\ Rest
    BY <1>6 DEF ExecutionFails
  <2> QED
    BY <2>1, IdleKeeps, IdleType, ExecutionMoves
<1> QED
  BY <1>1, <1>2, <1>3, <1>4, <1>5, <1>6

(* Where a publication is given a time, every execution that has read the  *)
(* calendar has that publication behind its back.                          *)
LEMMA BehindFields ==
  ASSUME CalendarTypeOK, NEW p \in PublicationId, NEW x \in Execution,
         NEW f, f = BehindTheBacks(p)[x]
  PROVE  /\ f \in ExecutionState /\ f.pc = executions[x].pc /\ f.at = executions[x].at
         /\ f.upcoming = executions[x].upcoming
         /\ f.pc \in {"choose", "schedule"} => executions[x].behind \cup {p} \subseteq f.behind
<1> DEFINE e == executions[x]
<1>1. e \in ExecutionState
  BY DEF CalendarTypeOK
<1>2. f = IF e.pc \in {"choose", "schedule"} THEN [e EXCEPT !.behind = @ \cup {p}] ELSE e
  BY DEF BehindTheBacks
<1> HIDE DEF e
<1>3. /\ f \in ExecutionState /\ f.pc = e.pc /\ f.at = e.at /\ f.upcoming = e.upcoming
      /\ f.pc \in {"choose", "schedule"} => e.behind \cup {p} \subseteq f.behind
  BY <1>1, <1>2 DEF ExecutionState
<1> QED
  BY <1>3 DEF e

LEMMA Placed ==
  ASSUME CalendarTypeOK, KeptInv, NEW p \in PublicationId, now' = now,
         \A q \in PublicationId \ {p} : publications'[q] = publications[q],
         NEW x \in Execution, executions'[x] = BehindTheBacks(p)[x]
  PROVE  Keeps(executions[x])'
<1> DEFINE e == executions[x]
<1>1. PICK f : f = BehindTheBacks(p)[x] /\ f = executions'[x]
  OBVIOUS
<1>2. /\ f.pc = e.pc /\ f.at = e.at /\ f.upcoming = e.upcoming
      /\ f.pc \in {"choose", "schedule"} => e.behind \cup {p} \subseteq f.behind
  BY <1>1, BehindFields
<1>3. Keeps(e)
  BY DEF KeptInv
<1> HIDE DEF e
<1>4. ASSUME NEW q \in PublicationId, q \in Upcoming', q \notin f.behind
      PROVE  /\ f.pc = "choose" => publications'[q].at \in f.upcoming
             /\ f.pc = "schedule" => Distance(f.at, publications'[q].at) >= MinSpacing
  <2> SUFFICES ASSUME f.pc \in {"choose", "schedule"}
               PROVE  /\ f.pc = "choose" => publications'[q].at \in f.upcoming
                      /\ f.pc = "schedule" => Distance(f.at, publications'[q].at) >= MinSpacing
    OBVIOUS
  <2>1. q # p /\ q \notin e.behind
    BY <1>2, <1>4
  <2>2. publications'[q] = publications[q] /\ q \in Upcoming
    BY <1>4, <2>1 DEF Upcoming
  <2> QED
    BY <1>2, <1>3, <2>1, <2>2 DEF Keeps
<1>5. Upcoming' \subseteq PublicationId
  BY DEF Upcoming
<1> QED
  BY <1>1, <1>4, <1>5 DEF Keeps

LEMMA Scheduled ==
  ASSUME CalendarTypeOK, KeptInv, NEW x \in Execution, NEW p \in PublicationId,
         Schedule(x, p)
  PROVE  CalendarInv'
<1> DEFINE ex == executions[x]
<1>1. ex \in ExecutionState /\ UNCHANGED <<now, preferred, connected, edits>>
  BY DEF Schedule, CalendarTypeOK
<1>2. CASE executions' = [executions EXCEPT ![x] = Idle] /\ UNCHANGED publications
  BY <1>1, <1>2, IdleKeeps, IdleType, ExecutionMoves DEF Rest
<1>3. CASE /\ publications' = [publications EXCEPT ![p] = [status |-> "scheduled", at |-> ex.at]]
           /\ executions' = [BehindTheBacks(p) EXCEPT ![x] = Idle]
  <2>1. publications' \in [PublicationId -> Publication]
    <3>1. ex.at \in Nat
      BY <1>1, ExecutionFields
    <3> QED
      BY <1>3, <3>1 DEF CalendarTypeOK, Publication
  <2>2. ASSUME NEW y \in Execution
        PROVE  executions'[y] \in ExecutionState /\ Keeps(executions[y])'
    <3>1. CASE y = x
      <4>1. executions'[y] = Idle
        BY <1>3, <3>1 DEF BehindTheBacks
      <4> QED
        BY <4>1, IdleType, IdleKeeps DEF Keeps
    <3>2. CASE y # x
      <4>1. executions'[y] = BehindTheBacks(p)[y]
        BY <1>3, <3>2 DEF BehindTheBacks
      <4>2. \A q \in PublicationId \ {p} : publications'[q] = publications[q]
        BY <1>3 DEF CalendarTypeOK
      <4>3. executions'[y] \in ExecutionState
        BY <4>1, BehindFields
      <4> QED
        BY <1>1, <4>1, <4>2, <4>3, Placed
    <3> QED
      BY <3>1, <3>2
  <2>3. executions' \in [Execution -> ExecutionState]
    BY <1>3, <2>2 DEF BehindTheBacks
  <2>4. CalendarTypeOK'
    BY <1>1, <2>1, <2>3 DEF CalendarTypeOK
  <2> QED
    BY <2>2, <2>4 DEF CalendarInv, KeptInv
<1> QED
  BY <1>2, <1>3 DEF Schedule

(* People put a publication somewhere, a new one or one that was there.    *)
LEMMA PeoplePlace ==
  ASSUME CalendarTypeOK, KeptInv, NEW p \in PublicationId, NEW t \in Moment,
         HumanSchedules(p, t) \/ Reschedule(p, t)
  PROVE  CalendarInv'
<1>1. /\ executions' = BehindTheBacks(p) /\ edits' = edits + 1
      /\ UNCHANGED <<now, preferred, connected>>
  BY DEF HumanSchedules, Reschedule, Edit
<1>2. /\ publications' \in [PublicationId -> Publication]
      /\ \A q \in PublicationId \ {p} : publications'[q] = publications[q]
  <2>1. t \in Nat
    BY CalendarNumbers
  <2>2. CASE HumanSchedules(p, t)
    BY <2>1, <2>2 DEF HumanSchedules, CalendarTypeOK, Publication
  <2>3. CASE Reschedule(p, t)
    BY <2>1, <2>3 DEF Reschedule, CalendarTypeOK, Publication
  <2> QED
    BY <2>2, <2>3
<1>3. ASSUME NEW y \in Execution
      PROVE  executions'[y] \in ExecutionState /\ Keeps(executions[y])'
  <2>1. executions'[y] = BehindTheBacks(p)[y]
    BY <1>1
  <2>2. executions'[y] \in ExecutionState
    BY <2>1, BehindFields
  <2> QED
    BY <1>1, <1>2, <2>1, <2>2, Placed
<1>4. executions' \in [Execution -> ExecutionState]
  BY <1>1, <1>3 DEF BehindTheBacks
<1>5. CalendarTypeOK'
  BY <1>1, <1>2, <1>4 DEF CalendarTypeOK
<1> QED
  BY <1>3, <1>5 DEF CalendarInv, KeptInv

(* A calendar that only loses publications to come breaks nothing.         *)
LEMMA Fewer ==
  ASSUME KeptInv, UNCHANGED executions, Upcoming' \subseteq Upcoming,
         \A q \in PublicationId : publications'[q].at = publications[q].at
  PROVE  KeptInv'
<1>1. Upcoming \subseteq PublicationId
  BY DEF Upcoming
<1> QED
  BY <1>1 DEF KeptInv, Keeps

LEMMA Cancelled ==
  ASSUME CalendarTypeOK, KeptInv, NEW p \in PublicationId, Cancel(p)
  PROVE  CalendarInv'
<1>1. /\ publications' = [publications EXCEPT ![p].status = "cancelled"]
      /\ edits' = edits + 1 /\ UNCHANGED <<now, preferred, connected, executions>>
  BY DEF Cancel, Edit
<1>2. /\ publications' \in [PublicationId -> Publication]
      /\ \A q \in PublicationId : publications'[q].at = publications[q].at
      /\ \A q \in PublicationId :
           publications'[q].status = "scheduled" => publications[q].status = "scheduled"
  BY <1>1 DEF CalendarTypeOK, Publication
<1>3. CalendarTypeOK'
  BY <1>1, <1>2 DEF CalendarTypeOK
<1>4. Upcoming' \subseteq Upcoming
  BY <1>1, <1>2 DEF Upcoming
<1> QED
  BY <1>1, <1>2, <1>3, <1>4, Fewer DEF CalendarInv

LEMMA CalendarAtFirst == CalendarInit => CalendarInv
<1> SUFFICES ASSUME CalendarInit PROVE CalendarInv
  OBVIOUS
<1>1. None \in Publication /\ None.status = "none" /\ 0 \in Nat
  BY DEF None, Publication
<1>2. CalendarTypeOK
  BY <1>1, IdleType DEF CalendarInit, CalendarTypeOK
<1>3. \A x \in Execution : executions[x] = Idle
  BY DEF CalendarInit
<1> QED
  BY <1>2, <1>3, IdleKeeps DEF CalendarInv, KeptInv

LEMMA CalendarStays == CalendarInv /\ [CalendarNext]_calendarVars => CalendarInv'
<1> SUFFICES ASSUME CalendarInv, [CalendarNext]_calendarVars PROVE CalendarInv'
  OBVIOUS
<1>0. CalendarTypeOK /\ KeptInv
  BY DEF CalendarInv
<1>1. CASE \E x \in Execution :
             \/ Approved(x) \/ ReadConfig(x) \/ ReadAccounts(x) \/ ReadUpcoming(x) \/ ChooseTime(x)
             \/ ExecutionFails(x)
  BY <1>0, <1>1, ExecutionSteps
<1>2. CASE \E x \in Execution, p \in PublicationId : Schedule(x, p)
  BY <1>0, <1>2, Scheduled
<1>3. CASE \E p \in PublicationId, t \in Moment : HumanSchedules(p, t) \/ Reschedule(p, t)
  BY <1>0, <1>3, PeoplePlace
<1>4. CASE \E p \in PublicationId : Cancel(p)
  BY <1>0, <1>4, Cancelled
<1>5. CASE /\ UNCHANGED <<publications, executions>> /\ CalendarTypeOK'
           /\ now \in Nat /\ now' \in Nat /\ now <= now'
  <2>1. Upcoming' \subseteq Upcoming
    BY <1>0, <1>5 DEF Upcoming, CalendarTypeOK, Publication
  <2> QED
    BY <1>0, <1>5, <2>1, Fewer DEF CalendarInv
<1>6. CASE \E times \in PreferredTimes, isConnected \in BOOLEAN : SettingsChange(times, isConnected)
  BY <1>0, <1>5, <1>6 DEF SettingsChange, Edit, CalendarTypeOK
<1>7. CASE \E t \in Moment : TimePasses(t)
  BY <1>0, <1>5, <1>7, CalendarNumbers DEF TimePasses, CalendarTypeOK
<1>8. CASE UNCHANGED calendarVars
  BY <1>0, <1>5, <1>8 DEF calendarVars, CalendarTypeOK
<1> QED
  BY <1>1, <1>2, <1>3, <1>4, <1>6, <1>7, <1>8 DEF CalendarNext

(* Everything in the calendar keeps its type.                              *)
THEOREM SchedulingTypes == CalendarSpec => []CalendarTypeOK
<1>1. CalendarInv => CalendarTypeOK
  BY DEF CalendarInv
<1> QED
  BY <1>1, CalendarAtFirst, CalendarStays, PTL DEF CalendarSpec

(* The row the workflow stores keeps its distance from every publication   *)
(* that is to come at that moment and was not put there behind the back    *)
(* of its execution, whatever spacing, days and preferred times: the two   *)
(* loops never take a time that collides, and what is cancelled, moved or  *)
(* past between the reads and the request adds nothing to collide with.    *)
THEOREM TimesKeepDistance == CalendarSpec => KeepsDistance
<1>1. ASSUME CalendarInv, CalendarNext, NEW x \in Execution, NEW p \in PublicationId,
             Stores(x, p), NEW q \in Upcoming \ executions[x].behind
      PROVE  Distance(publications'[p].at, publications[q].at) >= MinSpacing
  <2>1. /\ executions[x].pc = "schedule" /\ executions'[x].pc = "idle"
        /\ publications'[p] # publications[p]
        /\ executions \in [Execution -> ExecutionState] /\ Keeps(executions[x])
        /\ publications \in [PublicationId -> Publication]
    BY <1>1, IdleType DEF Stores, CalendarInv, CalendarTypeOK, KeptInv
  <2>2. ASSUME NEW r \in PublicationId, executions'[x] = BehindTheBacks(r)[x]
        PROVE  FALSE
    <3>1. executions'[x].pc = executions[x].pc
      BY <2>1, <2>2 DEF BehindTheBacks, ExecutionState
    <3> QED
      BY <2>1, <3>1
  <2>3. ASSUME NEW y \in Execution, NEW r \in PublicationId, Schedule(y, r)
        PROVE  y = x /\ r = p /\ publications'[p].at = executions[x].at
    <3>1. publications' # publications
      BY <2>1
    <3>2. /\ publications' = [publications EXCEPT ![r] =
                                [status |-> "scheduled", at |-> executions[y].at]]
          /\ executions' = [BehindTheBacks(r) EXCEPT ![y] = Idle]
      BY <2>3, <3>1 DEF Schedule
    <3>3. r = p
      BY <2>1, <3>2
    <3>4. y = x
      <4> SUFFICES ASSUME y # x PROVE FALSE
        OBVIOUS
      <4> DEFINE backs == BehindTheBacks(r)
      <4>1. DOMAIN backs = Execution
        BY DEF BehindTheBacks
      <4> HIDE DEF backs
      <4>2. executions' = [backs EXCEPT ![y] = Idle]
        BY <3>2 DEF backs
      <4>3. executions'[x] = backs[x]
        BY <4>1, <4>2
      <4> QED
        BY <2>2, <4>3 DEF backs
    <3> QED
      BY <2>1, <3>2, <3>3, <3>4
  <2>4. \E y \in Execution, r \in PublicationId : Schedule(y, r)
    <3>1. ~(\E r \in PublicationId, t \in Moment : HumanSchedules(r, t) \/ Reschedule(r, t))
      BY <2>2 DEF HumanSchedules, Reschedule
    <3>2. publications' # publications /\ executions' # executions
      BY <2>1
    <3> QED
      <4>1. \A y \in Execution :
              ~(\/ Approved(y) \/ ReadConfig(y) \/ ReadAccounts(y) \/ ReadUpcoming(y)
                \/ ChooseTime(y) \/ ExecutionFails(y))
        BY <3>2 DEF Approved, ReadConfig, ReadAccounts, ReadUpcoming, ChooseTime,
           ExecutionFails, Rest
      <4>2. \A r \in PublicationId : ~Cancel(r)
        BY <3>2 DEF Cancel
      <4>3. ~(\E times \in PreferredTimes, on \in BOOLEAN : SettingsChange(times, on))
        BY <3>2 DEF SettingsChange
      <4>4. ~(\E t \in Moment : TimePasses(t))
        BY <3>2 DEF TimePasses
      <4> QED
        BY <1>1, <3>1, <4>1, <4>2, <4>3, <4>4 DEF CalendarNext
  <2>5. publications'[p].at = executions[x].at
    BY <2>3, <2>4
  <2> QED
    BY <2>1, <2>5 DEF Keeps
<1>2. CalendarInv /\ [CalendarNext]_calendarVars
        => [\A x \in Execution, p \in PublicationId : Stores(x, p) =>
              \A q \in Upcoming \ executions[x].behind :
                Distance(publications'[p].at, publications[q].at) >= MinSpacing]_calendarVars
  BY <1>1
<1> QED
  BY <1>2, CalendarAtFirst, CalendarStays, PTL DEF CalendarSpec, KeepsDistance

-----------------------------------------------------------------------------
(* Picture generation.                                                     *)
(* A job that was stored; the parts of a call that judges.                 *)
Made(j) == jobs[j].status # "none"
Judging == {"vision", "image", "passed", "rejected", "escalated", "qaFailed"}
Judges(c, j) == calls[c].pc \in Judging /\ calls[c].job = j

(* What a call knows of its job, and of the rejected one before it.        *)
Informed(call) ==
  /\ call.pc \in Judging \cup {"generate", "read"} => call.job \in JobId /\ Made(call.job)
  /\ call.pc \in Judging =>
       /\ call.slide = jobs[call.job].slide /\ call.attempt = jobs[call.job].attempt
       /\ jobs[call.job].result /\ reviews[call.job] > 0
  /\ call.pc = "rejected" => call.attempt < MaxAttempts
  /\ call.pc = "generate" => ~jobs[call.job].result
  /\ call.previous # 0 =>
       /\ call.pc \in {"row", "generate"} /\ Made(call.previous)
       /\ call.pc = "row" =>
            /\ call.slide = jobs[call.previous].slide
            /\ call.attempt = jobs[call.previous].attempt + 1 /\ call.attempt <= MaxAttempts
       /\ call.pc = "generate" => jobs[call.job].previous = call.previous
CallInv == \A c \in Call : Informed(calls[c])

Follows(j, p) ==
  /\ Made(p) /\ jobs[j].slide = jobs[p].slide
  /\ jobs[j].attempt = jobs[p].attempt + 1 /\ jobs[j].attempt <= MaxAttempts
RowInv ==
  /\ \A j \in JobId : ~Made(j) => jobs[j] = Unmade
  /\ \A j \in JobId : ~jobs[j].result => reviews[j] = 0
  /\ \A j \in JobId : jobs[j].previous # 0 => Follows(j, jobs[j].previous)
  /\ \A c, d \in Call : CallAt(c, "generate") /\ CallAt(d, "generate") /\ calls[c].job = calls[d].job => c = d

(* A judgement that is about to reject, or has rejected, has one successor.*)
Successors(p) == {i \in JobId : jobs[i].previous = p}
Heir(c, p) ==
  \/ calls[c].pc \in {"vision", "rejected"} /\ calls[c].job = p
  \/ calls[c].pc = "row" /\ calls[c].previous = p
Heirs(p) == {c \in Call : Heir(c, p)}
Busy == {c \in Call : ~CallAt(c, "idle")}
CountInv ==
  /\ IsFiniteSet(Busy)
  /\ \A p \in JobId : Cardinality(Successors(p)) + Cardinality(Heirs(p)) <= reviews[p]

Succeeded(j) ==
  \/ \E i \in JobId : jobs[i].previous = j
  \/ \E c \in Call : calls[c].previous = j
RejectInv == \A j \in JobId \ torn : jobs[j].status = "qa_rejected" => Succeeded(j)

(* A job that was read once is in the hands of one call, and the picture   *)
(* on a slide is that of a job this call has passed, or is about to.       *)
Lone(j) == reviews[j] <= 1 /\ j \notin torn
Shown(s, j) ==
  \/ /\ jobs[j].status = "qa_passed" /\ jobs[j].slide = s
     /\ \A c \in Call : ~Judges(c, j)
  \/ \E c \in Call : CallAt(c, "passed") /\ calls[c].job = j /\ calls[c].slide = s
ShownInv ==
  /\ \A j \in JobId, c, d \in Call : reviews[j] <= 1 /\ Judges(c, j) /\ Judges(d, j) => c = d
  /\ \A s \in Slide : image[s] \in JobId => reviews[image[s]] > 0
  /\ \A s \in Slide : image[s] \in JobId /\ Lone(image[s]) => Shown(s, image[s])

-----------------------------------------------------------------------------
(* What the steps do, field by field.                                      *)
Others(c) == \A d \in Call \ {c} : calls'[d] = calls[d]
RowsBut(j) == \A i \in JobId \ {j} : jobs'[i] = jobs[i]
SameJob(j) == /\ jobs'[j].slide = jobs[j].slide /\ jobs'[j].attempt = jobs[j].attempt
              /\ jobs'[j].previous = jobs[j].previous
SameCall(c) == /\ calls'[c].slide = calls[c].slide /\ calls'[c].attempt = calls[c].attempt
               /\ calls'[c].previous = calls[c].previous /\ calls'[c].job = calls[c].job

Begins(c) ==
  /\ calls[c].pc = "idle" /\ Others(c) /\ UNCHANGED <<image, jobs, reviews, torn>>
  /\ calls'[c].pc \in {"row", "read"} /\ calls'[c].previous = 0
  /\ calls'[c].pc = "read" => calls'[c].job \in JobId /\ Made(calls'[c].job)
Creates(c, j) ==
  /\ calls[c].pc = "row" /\ jobs[j] = Unmade
  /\ calls'[c].pc = "generate" /\ calls'[c].job = j /\ calls'[c].previous = calls[c].previous
  /\ jobs'[j].status = "pending" /\ ~jobs'[j].result
  /\ jobs'[j].slide = calls[c].slide /\ jobs'[j].attempt = calls[c].attempt
  /\ jobs'[j].previous = calls[c].previous
  /\ Others(c) /\ RowsBut(j) /\ UNCHANGED <<image, reviews, torn>>
Draws(c, j) ==
  /\ calls[c].pc = "generate" /\ calls[c].job = j
  /\ calls'[c].pc \in {"idle", "read"} /\ calls'[c].previous = 0
  /\ calls'[c].pc = "read" => calls'[c].job = j
  /\ SameJob(j) /\ jobs'[j].status \in {jobs[j].status, "failed"}
  /\ Others(c) /\ RowsBut(j) /\ UNCHANGED <<image, reviews, torn>>
Looks(c, j) ==
  /\ calls[c].pc = "read" /\ calls[c].job = j
  /\ \/ /\ jobs[j].result
        /\ calls'[c].pc = "vision" /\ calls'[c].job = j /\ calls'[c].previous = 0
        /\ calls'[c].slide = jobs[j].slide /\ calls'[c].attempt = jobs[j].attempt
        /\ reviews' = [reviews EXCEPT ![j] = @ + 1]
     \/ calls'[c] = NoRequest /\ UNCHANGED reviews
  /\ Others(c) /\ UNCHANGED <<image, jobs, torn>>
Decides(c) ==
  /\ calls[c].pc = "vision" /\ SameCall(c)
  /\ calls'[c].pc \in {"vision", "image", "rejected", "escalated", "qaFailed"}
  /\ calls'[c].pc = "rejected" => calls[c].attempt < MaxAttempts
  /\ Others(c) /\ UNCHANGED <<image, jobs, reviews, torn>>
Shows(c) ==
  /\ calls[c].pc = "image" /\ calls'[c].pc = "passed" /\ SameCall(c)
  /\ image' = [image EXCEPT ![calls[c].slide] = calls[c].job]
  /\ Others(c) /\ UNCHANGED <<jobs, reviews, torn>>
Settles(c, j) ==
  /\ calls[c].pc \in {"passed", "escalated", "qaFailed"} /\ calls[c].job = j
  /\ calls'[c] = NoRequest
  /\ SameJob(j) /\ jobs'[j].result = jobs[j].result
  /\ jobs'[j].status \in {"qa_passed", "escalated_to_human", "qa_failed"}
  /\ calls[c].pc = "passed" => jobs'[j].status = "qa_passed"
  /\ Others(c) /\ RowsBut(j) /\ UNCHANGED <<image, reviews, torn>>
Retries(c, j) ==
  /\ calls[c].pc = "rejected" /\ calls[c].job = j
  /\ calls'[c].pc = "row" /\ calls'[c].previous = j
  /\ calls'[c].slide = calls[c].slide /\ calls'[c].attempt = calls[c].attempt + 1
  /\ SameJob(j) /\ jobs'[j].result = jobs[j].result /\ jobs'[j].status = "qa_rejected"
  /\ Others(c) /\ RowsBut(j) /\ UNCHANGED <<image, reviews, torn>>
Cuts(dying) ==
  /\ \A c \in Call : calls'[c] = IF c \in dying THEN NoRequest ELSE calls[c]
  /\ torn \subseteq torn'
  /\ \A c \in Call : c \in dying /\ calls[c].pc = "passed" => calls[c].job \in torn'
  /\ \A c \in Call : c \in dying /\ calls[c].pc \in {"row", "generate"} => calls[c].previous \in torn'
  /\ UNCHANGED <<image, jobs, reviews>>
Uploads(s) ==
  image' = [image EXCEPT ![s] = Own] /\ UNCHANGED <<calls, jobs, reviews, torn>>

Step ==
  \/ \E c \in Call : Begins(c) \/ Decides(c) \/ Shows(c)
  \/ \E c \in Call, j \in JobId :
       Creates(c, j) \/ Draws(c, j) \/ Looks(c, j) \/ Settles(c, j) \/ Retries(c, j)
  \/ \E dying \in SUBSET Call : Cuts(dying)
  \/ \E s \in Slide : Uploads(s)
  \/ UNCHANGED <<image, calls, jobs, reviews, torn>>

-----------------------------------------------------------------------------
LEMMA ImageNumbers ==
  /\ MaxJobs \in Nat /\ MaxJobs > 0 /\ MaxAttempts \in Nat /\ MaxAttempts > 0
  /\ MaxTries \in Nat /\ MaxTries > 0
  /\ \A n \in Asks : n \in Nat
  /\ Blank \notin JobId /\ Own \notin JobId
  BY ImageAssumption DEF ImageAssumption, JobId

LEMMA IdleCall ==
  /\ NoRequest \in CallState /\ NoRequest.pc = "idle" /\ NoRequest.previous = 0 /\ NoRequest.job = 0
  /\ Unmade \in JobRow /\ Unmade.previous = 0 /\ Unmade.status = "none"
  BY ImageNumbers DEF NoRequest, CallState, Unmade, JobRow

(* Edits of a call, of a row and of an execution keep their types.         *)
LEMMA CallTyped ==
  ASSUME NEW e \in CallState, NEW c \in Call, calls \in [Call -> CallState],
         calls' = [calls EXCEPT ![c] = e]
  PROVE  calls' \in [Call -> CallState] /\ calls'[c] = e /\ Others(c)
  BY DEF Others

LEMMA CallFields ==
  ASSUME NEW e \in CallState
  PROVE  /\ e.slide \in Slide \cup {Blank} /\ e.attempt \in Nat /\ e.previous \in 0..MaxJobs
         /\ e.job \in 0..MaxJobs /\ e.tries \in 1..MaxTries /\ e.flow \in Workflow \cup {Blank}
  BY DEF CallState

LEMMA RowFields ==
  ASSUME NEW r \in JobRow
  PROVE  /\ r.slide \in Slide \cup {Blank} /\ r.attempt \in Nat /\ r.previous \in 0..MaxJobs
         /\ r.result \in BOOLEAN /\ r.status \in Status \cup {"none"}
  BY DEF JobRow

LEMMA StatusSet ==
  ASSUME NEW j \in JobId, NEW status \in Status, jobs \in [JobId -> JobRow], SetStatus(j, status)
  PROVE  /\ jobs' \in [JobId -> JobRow] /\ RowsBut(j) /\ SameJob(j)
         /\ jobs'[j].status = status /\ jobs'[j].result = jobs[j].result
<1> DEFINE r == [jobs[j] EXCEPT !.status = status]
<1>1. jobs[j] \in JobRow
  OBVIOUS
<1>2. /\ r \in JobRow /\ r.status = status /\ r.slide = jobs[j].slide /\ r.result = jobs[j].result
      /\ r.attempt = jobs[j].attempt /\ r.previous = jobs[j].previous
  BY <1>1 DEF JobRow
<1>3. jobs' = [jobs EXCEPT ![j] = r]
  BY DEF SetStatus
<1> HIDE DEF r
<1> QED
  BY <1>2, <1>3 DEF RowsBut, SameJob

LEMMA ResultSet ==
  ASSUME NEW j \in JobId, jobs \in [JobId -> JobRow], jobs' = [jobs EXCEPT ![j].result = TRUE]
  PROVE  /\ jobs' \in [JobId -> JobRow] /\ RowsBut(j) /\ SameJob(j)
         /\ jobs'[j].status = jobs[j].status
<1> DEFINE r == [jobs[j] EXCEPT !.result = TRUE]
<1>1. jobs[j] \in JobRow
  OBVIOUS
<1>2. /\ r \in JobRow /\ r.status = jobs[j].status /\ r.slide = jobs[j].slide
      /\ r.attempt = jobs[j].attempt /\ r.previous = jobs[j].previous
  BY <1>1 DEF JobRow
<1>3. jobs' = [jobs EXCEPT ![j] = r]
  OBVIOUS
<1> HIDE DEF r
<1> QED
  BY <1>2, <1>3 DEF RowsBut, SameJob

LEMMA FlowTyped ==
  ASSUME NEW w, flows \in [Workflow -> FlowState], NEW pc \in {"idle", "creating", "waiting", "rendering"}
  PROVE  /\ [flows EXCEPT ![w].pc = pc] \in [Workflow -> FlowState]
         /\ \A j \in 0..MaxJobs : [flows EXCEPT ![w] = [pc |-> pc, job |-> j]] \in [Workflow -> FlowState]
         /\ \A x \in Workflow : [flows[x] EXCEPT !.pc = pc] \in FlowState
<1>1. \A x \in Workflow : [flows[x] EXCEPT !.pc = pc] \in FlowState
  BY DEF FlowState
<1>2. \A j \in 0..MaxJobs : [pc |-> pc, job |-> j] \in FlowState
  BY DEF FlowState
<1> QED
  BY <1>1, <1>2

LEMMA BeginStep ==
  ASSUME PictureTypeOK, CallInv, NEW c \in Call, NEW e \in CallState, Begin(c, e),
         UNCHANGED <<image, jobs, reviews, torn, mishaps>>, flows' \in [Workflow -> FlowState],
         e.pc \in {"row", "read"}, e.previous = 0, e.pc = "read" => e.job \in JobId /\ Made(e.job)
  PROVE  PictureTypeOK' /\ Begins(c)
<1>1. calls' = [calls EXCEPT ![c] = e] /\ calls[c].pc = "idle"
  BY DEF Begin, CallAt
<1>2. calls' \in [Call -> CallState] /\ calls'[c] = e /\ Others(c)
  BY <1>1, CallTyped DEF PictureTypeOK
<1> QED
  BY <1>1, <1>2 DEF PictureTypeOK, Begins

LEMMA AskStep ==
  ASSUME PictureTypeOK, CallInv, NEW c \in Call, NEW s \in Slide,
         \/ \E attempt \in Asks : AskPicture(c, s, attempt)
         \/ \E w \in Workflow : WorkflowAsks(w, c, s)
  PROVE  PictureTypeOK' /\ Begins(c)
<1>1. ASSUME NEW attempt \in Asks, AskPicture(c, s, attempt)
      PROVE  PictureTypeOK' /\ Begins(c)
  <2> DEFINE e == Asked(s, attempt)
  <2>1. e \in CallState /\ e.pc = "row" /\ e.previous = 0
    BY ImageNumbers, IdleCall DEF Asked, NoRequest, CallState
  <2>2. Begin(c, e) /\ UNCHANGED <<image, jobs, reviews, torn, mishaps>> /\ flows' = flows
    BY <1>1 DEF AskPicture
  <2> HIDE DEF e
  <2> QED
    BY <2>1, <2>2, BeginStep DEF PictureTypeOK
<1>2. ASSUME NEW w \in Workflow, WorkflowAsks(w, c, s)
      PROVE  PictureTypeOK' /\ Begins(c)
  <2> DEFINE e == [Asked(s, 1) EXCEPT !.then = "poll", !.flow = w]
  <2>1. e \in CallState /\ e.pc = "row" /\ e.previous = 0
    BY ImageNumbers, IdleCall DEF Asked, NoRequest, CallState
  <2>2. Begin(c, e) /\ UNCHANGED <<image, jobs, reviews, torn, mishaps>>
        /\ flows' = [flows EXCEPT ![w].pc = "creating"]
    BY <1>2 DEF WorkflowAsks
  <2>3. flows' \in [Workflow -> FlowState]
    BY <2>2, FlowTyped DEF PictureTypeOK
  <2> HIDE DEF e
  <2> QED
    BY <2>1, <2>2, <2>3, BeginStep
<1> QED
  BY <1>1, <1>2

LEMMA AskJudgementStep ==
  ASSUME PictureTypeOK, CallInv, RowInv, NEW c \in Call, NEW j \in JobId, AskJudgement(c, j)
  PROVE  PictureTypeOK' /\ Begins(c)
<1> DEFINE e == [NoRequest EXCEPT !.pc = "read", !.job = j]
<1>1. e \in CallState /\ e.pc = "read" /\ e.previous = 0 /\ e.job = j
  <2>1. j \in 0..MaxJobs
    BY ImageNumbers DEF JobId
  <2> QED
    BY <2>1, IdleCall DEF CallState
<1>2. Begin(c, e) /\ UNCHANGED <<image, jobs, reviews, torn, mishaps>> /\ flows' = flows
      /\ jobs[j] # Unmade
  BY DEF AskJudgement
<1>3. Made(j)
  BY <1>2 DEF RowInv
<1> HIDE DEF e
<1> QED
  BY <1>1, <1>2, <1>3, BeginStep DEF PictureTypeOK

LEMMA CreateStep ==
  ASSUME PictureTypeOK, CallInv, RowInv, NEW c \in Call, NEW j \in JobId, CreateJob(c, j)
  PROVE  PictureTypeOK' /\ Creates(c, j)
<1> DEFINE e == [calls[c] EXCEPT !.pc = "generate", !.job = j]
           r == [status |-> "pending", slide |-> calls[c].slide, attempt |-> calls[c].attempt,
                 result |-> FALSE, previous |-> calls[c].previous]
<1>1. calls[c] \in CallState /\ j \in 0..MaxJobs
  BY ImageNumbers DEF PictureTypeOK, JobId
<1>2. e \in CallState /\ e.pc = "generate" /\ e.job = j /\ e.previous = calls[c].previous
  BY <1>1 DEF CallState
<1>3. r \in JobRow
  BY <1>1, CallFields DEF JobRow, Status
<1>4. r.status = "pending" /\ r.slide = calls[c].slide /\ r.attempt = calls[c].attempt
      /\ ~r.result /\ r.previous = calls[c].previous
  OBVIOUS
<1>5. /\ calls' = [calls EXCEPT ![c] = e] /\ jobs' = [jobs EXCEPT ![j] = r]
      /\ calls[c].pc = "row" /\ jobs[j] = Unmade /\ UNCHANGED <<image, flows, reviews, torn, mishaps>>
  BY DEF CreateJob, CallAt, PictureTypeOK
<1> HIDE DEF e, r
<1>6. calls' \in [Call -> CallState] /\ calls'[c] = e /\ Others(c)
  BY <1>2, <1>5, CallTyped DEF PictureTypeOK
<1>7. jobs' \in [JobId -> JobRow] /\ jobs'[j] = r /\ RowsBut(j)
  BY <1>3, <1>5 DEF PictureTypeOK, RowsBut
<1> QED
  BY <1>2, <1>4, <1>5, <1>6, <1>7 DEF PictureTypeOK, Creates

LEMMA DrawStep ==
  ASSUME PictureTypeOK, CallInv, NEW c \in Call, Generated(c) \/ GenerationFails(c)
  PROVE  \E j \in JobId : PictureTypeOK' /\ Draws(c, j)
<1> DEFINE call == calls[c]
           j == call.job
           e == [NoRequest EXCEPT !.pc = "read", !.job = j]
<1>1. call.pc = "generate" /\ j \in JobId /\ call \in CallState
  BY DEF Generated, GenerationFails, CallAt, CallInv, Informed, PictureTypeOK
<1>2. e \in CallState /\ e.pc = "read" /\ e.job = j /\ e.previous = 0
  <2>1. j \in 0..MaxJobs
    BY <1>1, CallFields
  <2> HIDE DEF j
  <2> QED
    BY <2>1, IdleCall DEF CallState
<1>3. /\ calls' = [calls EXCEPT ![c] = e] \/ calls' = [calls EXCEPT ![c] = NoRequest]
      /\ \/ flows' = [flows EXCEPT ![call.flow] = [pc |-> "waiting", job |-> j]]
         \/ flows' = flows
      /\ UNCHANGED <<image, reviews, torn, mishaps>>
  BY DEF Generated, GenerationFails, Goes
<1>4. flows' \in [Workflow -> FlowState]
  <2> DEFINE w == call.flow
             pc == "waiting"
  <2>1. j \in 0..MaxJobs /\ flows \in [Workflow -> FlowState]
    BY <1>1, CallFields DEF PictureTypeOK
  <2>2. pc \in {"idle", "creating", "waiting", "rendering"}
    OBVIOUS
  <2> HIDE DEF w, j, pc
  <2>3. [flows EXCEPT ![w] = [pc |-> pc, job |-> j]] \in [Workflow -> FlowState]
    BY <2>1, <2>2, FlowTyped
  <2> QED
    BY <1>3, <2>1, <2>3 DEF w, j, pc
<1>5. calls' \in [Call -> CallState] /\ Others(c) /\ (calls'[c] = e \/ calls'[c] = NoRequest)
  BY <1>2, <1>3, IdleCall, CallTyped DEF PictureTypeOK
<1>6. /\ jobs' \in [JobId -> JobRow] /\ RowsBut(j) /\ SameJob(j)
      /\ jobs'[j].status \in {jobs[j].status, "failed"}
  <2>1. CASE Generated(c)
    <3>1. jobs' = [jobs EXCEPT ![j].result = TRUE]
      BY <2>1 DEF Generated
    <3> HIDE DEF j
    <3> QED
      BY <1>1, <3>1, ResultSet DEF PictureTypeOK
  <2>2. CASE GenerationFails(c)
    <3>1. SetStatus(j, "failed") /\ "failed" \in Status
      BY <2>2 DEF GenerationFails, Status
    <3> HIDE DEF j
    <3> QED
      BY <1>1, <3>1, StatusSet DEF PictureTypeOK
  <2> QED
    BY <2>1, <2>2
<1>7. PictureTypeOK'
  BY <1>3, <1>4, <1>5, <1>6 DEF PictureTypeOK
<1>8. Draws(c, j)
  <2> HIDE DEF e
  <2> QED
    BY <1>1, <1>2, <1>3, <1>5, <1>6, IdleCall DEF Draws
<1> QED
  BY <1>1, <1>7, <1>8

LEMMA LookStep ==
  ASSUME PictureTypeOK, CallInv, NEW c \in Call, ReadJob(c)
  PROVE  \E j \in JobId : PictureTypeOK' /\ Looks(c, j)
<1> DEFINE call == calls[c]
           j == call.job
           e == [call EXCEPT !.pc = "vision", !.slide = jobs[j].slide, !.attempt = jobs[j].attempt]
<1>1. call.pc = "read" /\ j \in JobId /\ call \in CallState /\ call.previous = 0
  BY DEF ReadJob, CallAt, CallInv, Informed, PictureTypeOK
<1>2. jobs[j].slide \in Slide \cup {Blank} /\ jobs[j].attempt \in Nat
  BY <1>1, RowFields DEF PictureTypeOK
<1>3. e \in CallState /\ e.pc = "vision" /\ e.job = j /\ e.previous = 0
      /\ e.slide = jobs[j].slide /\ e.attempt = jobs[j].attempt
  BY <1>1, <1>2 DEF CallState
<1>4. CASE jobs[j].result
  <2>1. /\ calls' = [calls EXCEPT ![c] = e] /\ reviews' = [reviews EXCEPT ![j] = @ + 1]
        /\ UNCHANGED <<image, jobs, flows, torn, mishaps>>
    BY <1>4 DEF ReadJob, PictureTypeOK
  <2> HIDE DEF e
  <2>2. calls' \in [Call -> CallState] /\ calls'[c] = e /\ Others(c)
    BY <1>3, <2>1, CallTyped DEF PictureTypeOK
  <2>3. reviews' \in [JobId -> Nat]
    BY <1>1, <2>1 DEF PictureTypeOK
  <2>4. PictureTypeOK'
    BY <2>1, <2>2, <2>3 DEF PictureTypeOK
  <2> QED
    BY <1>1, <1>3, <1>4, <2>1, <2>2, <2>4 DEF Looks
<1>5. CASE ~jobs[j].result
  <2>1. calls' = [calls EXCEPT ![c] = NoRequest] /\ UNCHANGED <<image, jobs, flows, reviews, torn, mishaps>>
    BY <1>5 DEF ReadJob, Reply
  <2>2. calls' \in [Call -> CallState] /\ calls'[c] = NoRequest /\ Others(c)
    BY <2>1, IdleCall, CallTyped DEF PictureTypeOK
  <2>4. PictureTypeOK'
    BY <2>1, <2>2 DEF PictureTypeOK
  <2> QED
    BY <1>1, <2>1, <2>2, <2>4 DEF Looks
<1> QED
  BY <1>4, <1>5

LEMMA DecideStep ==
  ASSUME PictureTypeOK, NEW c \in Call, (\E good \in BOOLEAN : Vision(c, good)) \/ VisionFails(c)
  PROVE  PictureTypeOK' /\ Decides(c)
<1> DEFINE call == calls[c]
<1>1. PICK pc \in {"vision", "image", "rejected", "escalated", "qaFailed"}, tries \in 1..MaxTries :
         /\ calls' = [calls EXCEPT ![c].pc = pc, ![c].tries = tries]
         /\ pc = "rejected" => call.attempt < MaxAttempts
         /\ call.pc = "vision" /\ UNCHANGED <<image, jobs, flows, reviews, torn, mishaps>>
  <2>0. 1 \in 1..MaxTries
    BY ImageNumbers
  <2>1. CASE \E good \in BOOLEAN : Vision(c, good)
    BY <2>0, <2>1 DEF Vision, Decide, CallAt
  <2>2. CASE VisionFails(c) /\ call.tries = MaxTries
    BY <2>0, <2>2 DEF VisionFails, Decide, CallAt
  <2>3. CASE VisionFails(c) /\ call.tries # MaxTries
    <3>1. call.tries + 1 \in 1..MaxTries
      BY <2>3, ImageNumbers, CallFields DEF PictureTypeOK
    <3>2. calls' = [calls EXCEPT ![c].pc = "vision", ![c].tries = call.tries + 1]
      <4>1. calls' = [calls EXCEPT ![c] = [call EXCEPT !.tries = call.tries + 1]] /\ call.pc = "vision"
        BY <2>3 DEF VisionFails, CallAt
      <4>2. call \in CallState
        BY DEF PictureTypeOK
      <4>3. [call EXCEPT !.tries = call.tries + 1]
              = [call EXCEPT !.pc = "vision", !.tries = call.tries + 1]
        BY <4>1, <4>2 DEF CallState
      <4> QED
        BY <4>1, <4>3
    <3> QED
      BY <2>3, <3>1, <3>2 DEF VisionFails, CallAt
  <2> QED
    BY <2>1, <2>2, <2>3
<1> DEFINE e == [call EXCEPT !.pc = pc, !.tries = tries]
<1>2. call \in CallState
  BY DEF PictureTypeOK
<1>3. e \in CallState /\ e.pc = pc /\ e.job = call.job /\ e.previous = call.previous
      /\ e.slide = call.slide /\ e.attempt = call.attempt
  BY <1>2 DEF CallState
<1>4. calls' = [calls EXCEPT ![c] = e]
  BY <1>1
<1> HIDE DEF e
<1>5. calls' \in [Call -> CallState] /\ calls'[c] = e /\ Others(c)
  BY <1>3, <1>4, CallTyped DEF PictureTypeOK
<1> QED
  BY <1>1, <1>3, <1>5 DEF PictureTypeOK, Decides, SameCall

LEMMA ShowStep ==
  ASSUME PictureTypeOK, CallInv, NEW c \in Call, ShowImage(c)
  PROVE  PictureTypeOK' /\ Shows(c)
<1> DEFINE e == [calls[c] EXCEPT !.pc = "passed"]
<1>1. calls[c] \in CallState
  BY DEF PictureTypeOK
<1>2. e \in CallState /\ e.pc = "passed" /\ e.job = calls[c].job /\ e.previous = calls[c].previous
      /\ e.slide = calls[c].slide /\ e.attempt = calls[c].attempt
  BY <1>1 DEF CallState
<1>3. /\ calls' = [calls EXCEPT ![c] = e] /\ calls[c].pc = "image"
      /\ image' = [image EXCEPT ![calls[c].slide] = calls[c].job]
      /\ UNCHANGED <<jobs, flows, reviews, torn, mishaps>>
  BY DEF ShowImage, Goto, CallAt
<1> HIDE DEF e
<1>4. calls' \in [Call -> CallState] /\ calls'[c] = e /\ Others(c)
  BY <1>2, <1>3, CallTyped DEF PictureTypeOK
<1>5. calls[c].job \in JobId
  BY <1>3 DEF CallInv, Informed, Judging
<1> QED
  BY <1>2, <1>3, <1>4, <1>5 DEF PictureTypeOK, Shows, SameCall

LEMMA EndStep ==
  ASSUME PictureTypeOK, CallInv, NEW c \in Call, Passed(c) \/ Escalated(c) \/ QaFailed(c)
  PROVE  \E j \in JobId : PictureTypeOK' /\ Settles(c, j)
<1> DEFINE j == calls[c].job
<1>1. PICK pc \in {"passed", "escalated", "qaFailed"},
           status \in {"qa_passed", "escalated_to_human", "qa_failed"} :
         Ends(c, pc, status) /\ (pc = "passed" => status = "qa_passed")
  BY DEF Passed, Escalated, QaFailed
<1>2. /\ calls[c].pc = pc /\ SetStatus(j, status) /\ status \in Status
      /\ calls' = [calls EXCEPT ![c] = NoRequest]
      /\ UNCHANGED <<image, flows, reviews, torn, mishaps>>
  BY <1>1 DEF Ends, CallAt, Reply, Status
<1>3. j \in JobId
  BY <1>2 DEF CallInv, Informed, Judging
<1>4. calls' \in [Call -> CallState] /\ calls'[c] = NoRequest /\ Others(c)
  BY <1>2, IdleCall, CallTyped DEF PictureTypeOK
<1>5. /\ jobs' \in [JobId -> JobRow] /\ RowsBut(j) /\ SameJob(j)
      /\ jobs'[j].status = status /\ jobs'[j].result = jobs[j].result
  <2> HIDE DEF j
  <2> QED
    BY <1>2, <1>3, StatusSet DEF PictureTypeOK
<1>6. PictureTypeOK'
  BY <1>2, <1>4, <1>5 DEF PictureTypeOK
<1> QED
  BY <1>1, <1>2, <1>3, <1>4, <1>5, <1>6 DEF Settles

LEMMA RetryStep ==
  ASSUME PictureTypeOK, CallInv, NEW c \in Call, Rejected(c)
  PROVE  \E j \in JobId : PictureTypeOK' /\ Retries(c, j)
<1> DEFINE j == calls[c].job
           e == [NoRequest EXCEPT !.pc = "row", !.slide = calls[c].slide, !.attempt = calls[c].attempt + 1,
                             !.previous = j, !.then = "judge"]
<1>1. calls[c].pc = "rejected" /\ j \in JobId /\ calls[c] \in CallState
  BY DEF Rejected, Again, CallAt, CallInv, Informed, Judging, PictureTypeOK
<1>2. calls[c].slide \in Slide \cup {Blank} /\ calls[c].attempt + 1 \in Nat /\ j \in 0..MaxJobs
  BY <1>1, CallFields
<1>3. e \in CallState /\ e.pc = "row" /\ e.previous = j /\ e.slide = calls[c].slide
      /\ e.attempt = calls[c].attempt + 1
  BY <1>2, IdleCall DEF NoRequest, CallState
<1>4. calls' = [calls EXCEPT ![c] = e] /\ SetStatus(j, "qa_rejected") /\ "qa_rejected" \in Status
      /\ UNCHANGED <<image, flows, reviews, torn, mishaps>>
  BY DEF Rejected, Again, Status
<1> HIDE DEF e
<1>5. calls' \in [Call -> CallState] /\ calls'[c] = e /\ Others(c)
  BY <1>3, <1>4, CallTyped DEF PictureTypeOK
<1>6. /\ jobs' \in [JobId -> JobRow] /\ RowsBut(j) /\ SameJob(j)
      /\ jobs'[j].status = "qa_rejected" /\ jobs'[j].result = jobs[j].result
  <2> HIDE DEF j
  <2> QED
    BY <1>1, <1>4, StatusSet DEF PictureTypeOK
<1>7. PictureTypeOK'
  BY <1>4, <1>5, <1>6 DEF PictureTypeOK
<1> QED
  BY <1>1, <1>3, <1>4, <1>5, <1>6, <1>7 DEF Retries

LEMMA InterruptStep ==
  ASSUME PictureTypeOK, NEW dying \in SUBSET Call, Interrupt(dying)
  PROVE  PictureTypeOK' /\ Cuts(dying)
<1>1. calls' \in [Call -> CallState]
  BY IdleCall DEF Interrupt, PictureTypeOK
<1>2. \A c \in Call : calls[c].job \in 0..MaxJobs /\ calls[c].previous \in 0..MaxJobs
  BY CallFields DEF PictureTypeOK
<1>3. torn' \subseteq 0..MaxJobs
  BY <1>2 DEF Interrupt, PictureTypeOK
<1>4. flows' \in [Workflow -> FlowState]
  BY FlowTyped DEF Interrupt, PictureTypeOK
<1>5. mishaps' \in Nat /\ UNCHANGED <<image, jobs, reviews>>
  BY DEF Interrupt, Mishap, PictureTypeOK
<1>6. Cuts(dying)
  BY DEF Interrupt, Cuts, CallAt
<1> QED
  BY <1>1, <1>3, <1>4, <1>5, <1>6 DEF PictureTypeOK

LEMMA Steps ==
  ASSUME PictureTypeOK, CallInv, RowInv, [PictureNext]_pictureVars
  PROVE  PictureTypeOK' /\ Step
<1>1. CASE \E c \in Call, s \in Slide, attempt \in Asks : AskPicture(c, s, attempt)
  BY <1>1, AskStep DEF Step
<1>2. CASE \E c \in Call, j \in JobId : AskJudgement(c, j)
  BY <1>2, AskJudgementStep DEF Step
<1>3. CASE \E w \in Workflow, c \in Call, s \in Slide : WorkflowAsks(w, c, s)
  BY <1>3, AskStep DEF Step
<1>4. ASSUME NEW c \in Call, Server(c) PROVE PictureTypeOK' /\ Step
  <2>1. CASE \E j \in JobId : CreateJob(c, j)
    BY <2>1, CreateStep DEF Step
  <2>2. CASE Generated(c) \/ GenerationFails(c)
    BY <2>2, DrawStep DEF Step
  <2>3. CASE ReadJob(c)
    BY <2>3, LookStep DEF Step
  <2>4. CASE (\E good \in BOOLEAN : Vision(c, good)) \/ VisionFails(c)
    BY <2>4, DecideStep DEF Step
  <2>5. CASE ShowImage(c)
    BY <2>5, ShowStep DEF Step
  <2>6. CASE Passed(c) \/ Escalated(c) \/ QaFailed(c)
    BY <2>6, EndStep DEF Step
  <2>7. CASE Rejected(c)
    BY <2>7, RetryStep DEF Step
  <2> QED
    BY <1>4, <2>1, <2>2, <2>3, <2>4, <2>5, <2>6, <2>7 DEF Server
<1>5. CASE Crash \/ \E c \in Call : CallFails(c)
  BY <1>5, InterruptStep DEF Crash, CallFails, Step
<1>6. ASSUME NEW w \in Workflow, Poll(w) \/ PollFails(w) \/ Render(w) PROVE PictureTypeOK' /\ Step
  <2>1. flows' \in [Workflow -> FlowState]
    <3>1. 0 \in 0..MaxJobs
      BY ImageNumbers
    <3>2. [flows EXCEPT ![w].pc = "rendering"] \in [Workflow -> FlowState]
      BY FlowTyped DEF PictureTypeOK
    <3>3. [flows EXCEPT ![w] = [pc |-> "idle", job |-> 0]] \in [Workflow -> FlowState]
      BY <3>1, FlowTyped DEF PictureTypeOK
    <3> QED
      BY <1>6, <3>2, <3>3 DEF Poll, PollFails, Render
  <2>2. UNCHANGED <<image, jobs, calls, reviews, torn>> /\ mishaps' \in Nat
    BY <1>6 DEF Poll, PollFails, Render, Mishap, PictureTypeOK
  <2> QED
    BY <2>1, <2>2 DEF PictureTypeOK, Step
<1>7. ASSUME NEW s \in Slide, Upload(s) PROVE PictureTypeOK' /\ Step
  BY <1>7 DEF Upload, PictureTypeOK, Step, Uploads
<1>8. CASE UNCHANGED pictureVars
  BY <1>8 DEF pictureVars, PictureTypeOK, Step
<1> QED
  BY <1>1, <1>2, <1>3, <1>4, <1>5, <1>6, <1>7, <1>8 DEF PictureNext

-----------------------------------------------------------------------------
(* A row that was made stays, with its slide, attempt and predecessor.     *)
RowsKept ==
  \A j \in JobId : /\ reviews[j] <= reviews'[j]
                   /\ Made(j) => /\ Made(j)' /\ SameJob(j)
                                 /\ jobs[j].result => jobs'[j].result

LEMMA StepKeepsRows ==
  ASSUME PictureTypeOK, PictureTypeOK', CallInv, RowInv, Step
  PROVE  RowsKept
<1> SUFFICES ASSUME NEW i \in JobId
             PROVE  /\ reviews[i] <= reviews'[i]
                    /\ Made(i) => /\ Made(i)' /\ SameJob(i)
                                  /\ jobs[i].result => jobs'[i].result
  BY DEF RowsKept
<1>0. reviews[i] \in Nat
  BY DEF PictureTypeOK
<1>1. CASE UNCHANGED jobs /\ UNCHANGED reviews
  BY <1>0, <1>1 DEF Made, SameJob
<1>2. ASSUME NEW c \in Call, NEW j \in JobId, Creates(c, j)
      PROVE  Made(i) => i # j
  BY <1>2 DEF Creates, Made, Unmade
<1>3. ASSUME NEW c \in Call, NEW j \in JobId, Draws(c, j)
      PROVE  i = j => ~jobs[i].result
  BY <1>3 DEF Draws, CallInv, Informed
<1>4. ASSUME NEW c \in Call, NEW j \in JobId, Looks(c, j)
      PROVE  reviews[i] <= reviews'[i] /\ UNCHANGED jobs
  BY <1>0, <1>4 DEF Looks, PictureTypeOK
<1>5. ASSUME NEW c \in Call, NEW j \in JobId,
             Creates(c, j) \/ Draws(c, j) \/ Settles(c, j) \/ Retries(c, j)
      PROVE  RowsBut(j) /\ UNCHANGED reviews
  BY <1>5 DEF Creates, Draws, Settles, Retries
<1>6. ASSUME NEW c \in Call, NEW j \in JobId,
             Creates(c, j) \/ Draws(c, j) \/ Settles(c, j) \/ Retries(c, j), i # j
      PROVE  jobs'[i] = jobs[i] /\ UNCHANGED reviews
  BY <1>5, <1>6 DEF RowsBut
<1>7. ASSUME NEW c \in Call, NEW j \in JobId,
             Draws(c, j) \/ Settles(c, j) \/ Retries(c, j), i = j
      PROVE  /\ Made(i) => /\ Made(i)' /\ SameJob(i)
                           /\ jobs[i].result => jobs'[i].result
             /\ UNCHANGED reviews
  BY <1>3, <1>7 DEF Draws, Settles, Retries, Made
<1>8. ASSUME NEW c \in Call, NEW j \in JobId,
             Creates(c, j) \/ Draws(c, j) \/ Settles(c, j) \/ Retries(c, j)
      PROVE  /\ reviews[i] <= reviews'[i]
             /\ Made(i) => /\ Made(i)' /\ SameJob(i)
                           /\ jobs[i].result => jobs'[i].result
  <2>1. CASE i # j
    BY <1>0, <1>6, <1>8, <2>1 DEF Made, SameJob
  <2>2. CASE i = j
    BY <1>0, <1>2, <1>5, <1>7, <1>8, <2>2
  <2> QED
    BY <2>1, <2>2
<1>9. CASE \E c \in Call : Begins(c) \/ Decides(c) \/ Shows(c)
  BY <1>1, <1>9 DEF Begins, Decides, Shows
<1>10. CASE (\E dying \in SUBSET Call : Cuts(dying)) \/ (\E s \in Slide : Uploads(s))
  BY <1>1, <1>10 DEF Cuts, Uploads
<1> QED
  BY <1>0, <1>1, <1>4, <1>8, <1>9, <1>10 DEF Step, Made, SameJob

(* A call that does nothing stays informed, unless its job gets a picture. *)
LEMMA StaysInformed ==
  ASSUME PictureTypeOK, PictureTypeOK', RowsKept, NEW e \in CallState, Informed(e),
         e.pc = "generate" => ~jobs'[e.job].result
  PROVE  Informed(e)'
<1>1. e.previous # 0 => e.previous \in JobId
  BY ImageNumbers, CallFields DEF JobId
<1>2. e.pc \in Judging \cup {"generate", "read"} => e.job \in JobId /\ Made(e.job)'
  BY DEF Informed, RowsKept
<1>3. e.pc \in Judging =>
        /\ e.slide = jobs'[e.job].slide /\ e.attempt = jobs'[e.job].attempt
        /\ jobs'[e.job].result /\ reviews'[e.job] > 0
  <2> SUFFICES ASSUME e.pc \in Judging
               PROVE  /\ e.slide = jobs'[e.job].slide /\ e.attempt = jobs'[e.job].attempt
                      /\ jobs'[e.job].result /\ reviews'[e.job] > 0
    OBVIOUS
  <2>1. e.job \in JobId /\ Made(e.job) /\ reviews[e.job] > 0 /\ jobs[e.job].result
        /\ e.slide = jobs[e.job].slide /\ e.attempt = jobs[e.job].attempt
    BY DEF Informed
  <2>2. reviews[e.job] \in Nat /\ reviews'[e.job] \in Nat
    BY <2>1 DEF PictureTypeOK
  <2> QED
    BY <2>1, <2>2 DEF RowsKept, SameJob
<1>4. e.previous # 0 =>
       /\ e.pc \in {"row", "generate"} /\ Made(e.previous)'
       /\ e.pc = "row" =>
            /\ e.slide = jobs'[e.previous].slide
            /\ e.attempt = jobs'[e.previous].attempt + 1 /\ e.attempt <= MaxAttempts
       /\ e.pc = "generate" => jobs'[e.job].previous = e.previous
  BY <1>1 DEF Informed, RowsKept, SameJob
<1> QED
  BY <1>2, <1>3, <1>4 DEF Informed

LEMMA IdleInformed == Informed(NoRequest)
  BY IdleCall DEF Informed, Judging

LEMMA StepKeepsCalls ==
  ASSUME PictureTypeOK, PictureTypeOK', CallInv, RowInv, Step
  PROVE  CallInv'
<1>0. RowsKept
  BY StepKeepsRows
<1>1. ASSUME NEW d \in Call, calls'[d] = calls[d],
             calls[d].pc = "generate" => ~jobs'[calls[d].job].result
      PROVE  Informed(calls[d])'
  <2>1. PICK e \in CallState : e = calls[d]
    BY DEF PictureTypeOK
  <2>2. Informed(e)'
    BY <1>0, <1>1, <2>1, StaysInformed DEF CallInv
  <2> QED
    BY <1>1, <2>1, <2>2
<1>2. ASSUME NEW c \in Call, Others(c), Informed(calls[c])',
             \A d \in Call \ {c} : calls[d].pc = "generate" => ~jobs'[calls[d].job].result
      PROVE  CallInv'
  BY <1>1, <1>2 DEF CallInv, Others
<1>3. ASSUME UNCHANGED jobs, NEW d \in Call
      PROVE  calls[d].pc = "generate" => ~jobs'[calls[d].job].result
  BY <1>3 DEF CallInv, Informed
<1>4. ASSUME NEW d \in Call, calls'[d] = NoRequest PROVE Informed(calls[d])'
  BY <1>4, IdleCall DEF Informed, Judging
<1>5. ASSUME NEW c \in Call, Begins(c) PROVE CallInv'
  <2>1. Informed(calls[c])'
    BY <1>5 DEF Begins, Informed, Judging, Made
  <2> QED
    BY <1>2, <1>3, <1>5, <2>1 DEF Begins
<1>6. ASSUME NEW c \in Call, Decides(c) PROVE CallInv'
  <2>1. Informed(calls[c])'
    BY <1>6 DEF Decides, SameCall, CallInv, Informed, Judging, Made
  <2> QED
    BY <1>2, <1>3, <1>6, <2>1 DEF Decides
<1>7. ASSUME NEW c \in Call, Shows(c) PROVE CallInv'
  <2>1. Informed(calls[c])'
    BY <1>7 DEF Shows, SameCall, CallInv, Informed, Judging, Made
  <2> QED
    BY <1>2, <1>3, <1>7, <2>1 DEF Shows
<1>8. ASSUME NEW c \in Call, NEW j \in JobId, Creates(c, j) PROVE CallInv'
  <2>1. calls[c].previous # 0 => /\ Made(calls[c].previous) /\ calls[c].previous \in JobId
                                 /\ calls[c].previous # j
    BY <1>8, ImageNumbers, CallFields
      DEF Creates, CallInv, Informed, Made, Unmade, JobId, PictureTypeOK
  <2>2. Informed(calls[c])'
    BY <1>0, <1>8, <2>1 DEF Creates, Informed, Judging, Made, RowsKept
  <2>3. ASSUME NEW d \in Call \ {c}, calls[d].pc = "generate" PROVE ~jobs'[calls[d].job].result
    <3>1. calls[d].job \in JobId /\ Made(calls[d].job) /\ ~jobs[calls[d].job].result
      BY <2>3 DEF CallInv, Informed
    <3>2. calls[d].job # j
      BY <1>8, <3>1 DEF Creates, Made, Unmade
    <3> QED
      BY <1>8, <3>1, <3>2 DEF Creates, RowsBut
  <2> QED
    BY <1>2, <1>8, <2>2, <2>3 DEF Creates
<1>9. ASSUME NEW c \in Call, NEW j \in JobId, RowsBut(j), jobs'[j].result = jobs[j].result, NEW d \in Call
      PROVE  calls[d].pc = "generate" => ~jobs'[calls[d].job].result
  BY <1>9 DEF CallInv, Informed, RowsBut
<1>10. ASSUME NEW c \in Call, NEW j \in JobId, Draws(c, j) PROVE CallInv'
  <2>1. Made(j)
    BY <1>10 DEF Draws, CallInv, Informed
  <2>2. Informed(calls[c])'
    BY <1>0, <1>10, <2>1 DEF Draws, Informed, Judging, RowsKept
  <2>3. ASSUME NEW d \in Call \ {c}, calls[d].pc = "generate" PROVE ~jobs'[calls[d].job].result
    <3>1. calls[d].job \in JobId /\ ~jobs[calls[d].job].result
      BY <2>3 DEF CallInv, Informed
    <3>2. calls[d].job # j
      BY <1>10, <2>3 DEF Draws, RowInv, CallAt
    <3> QED
      BY <1>10, <3>1, <3>2 DEF Draws, RowsBut
  <2> QED
    BY <1>2, <1>10, <2>2, <2>3 DEF Draws
<1>11. ASSUME NEW c \in Call, NEW j \in JobId, Looks(c, j) PROVE CallInv'
  <2>1. Made(j) /\ reviews[j] \in Nat
    BY <1>11 DEF Looks, CallInv, Informed, PictureTypeOK
  <2>2. CASE calls'[c] = NoRequest
    BY <1>2, <1>3, <1>4, <1>11, <2>2 DEF Looks
  <2>3. CASE calls'[c] # NoRequest
    <3>1. reviews'[j] > 0
      BY <1>11, <2>1, <2>3 DEF Looks, PictureTypeOK
    <3>2. Informed(calls[c])'
      BY <1>11, <2>1, <2>3, <3>1 DEF Looks, Informed, Judging, Made
    <3> QED
      BY <1>2, <1>3, <1>11, <3>2 DEF Looks
  <2> QED
    BY <2>2, <2>3
<1>12. ASSUME NEW c \in Call, NEW j \in JobId, Settles(c, j) PROVE CallInv'
  BY <1>2, <1>4, <1>9, <1>12 DEF Settles
<1>13. ASSUME NEW c \in Call, NEW j \in JobId, Retries(c, j) PROVE CallInv'
  <2>1. Made(j) /\ calls[c].slide = jobs[j].slide /\ calls[c].attempt = jobs[j].attempt
        /\ calls[c].attempt < MaxAttempts
    BY <1>13 DEF Retries, CallInv, Informed, Judging
  <2>2. jobs[j].attempt \in Nat /\ j # 0
    BY RowFields, ImageNumbers DEF PictureTypeOK, JobId
  <2>3. Informed(calls[c])'
    BY <1>0, <1>13, <2>1, <2>2, ImageNumbers
      DEF Retries, Informed, Judging, RowsKept, SameJob
  <2> QED
    BY <1>2, <1>9, <1>13, <2>3 DEF Retries
<1>14. ASSUME NEW dying \in SUBSET Call, Cuts(dying) PROVE CallInv'
  BY <1>1, <1>3, <1>4, <1>14 DEF Cuts, CallInv
<1>15. CASE UNCHANGED <<calls, jobs>>
  BY <1>1, <1>3, <1>15 DEF CallInv
<1> QED
  BY <1>5, <1>6, <1>7, <1>8, <1>10, <1>11, <1>12, <1>13, <1>14, <1>15
    DEF Step, Uploads

LEMMA StepKeepsRowInv ==
  ASSUME PictureTypeOK, PictureTypeOK', CallInv, RowInv, Step
  PROVE  RowInv'
<1>0. RowsKept
  BY StepKeepsRows
<1>1. ASSUME NEW i \in JobId, jobs'[i] = jobs[i], ~jobs'[i].result => reviews'[i] = reviews[i]
      PROVE  /\ ~Made(i)' => jobs'[i] = Unmade
             /\ ~jobs'[i].result => reviews'[i] = 0
  BY <1>1 DEF RowInv, Made
<1>2. ASSUME NEW i \in JobId,
             \/ jobs'[i].previous = 0
             \/ Made(i) /\ SameJob(i)
             \/ jobs'[i] = jobs[i]
      PROVE  jobs'[i].previous # 0 => Follows(i, jobs[i].previous)'
  <2> SUFFICES ASSUME jobs'[i].previous # 0 PROVE Follows(i, jobs[i].previous)'
    OBVIOUS
  <2>0. Made(i) /\ SameJob(i)
    <3>1. CASE jobs'[i] = jobs[i]
      BY <3>1 DEF SameJob, RowInv, Unmade
    <3> QED
      BY <1>2, <3>1
  <2>1. PICK p \in JobId : jobs[i].previous = p /\ jobs'[i].previous = p /\ Follows(i, p)
    <3>1. jobs[i].previous # 0 /\ jobs'[i].previous = jobs[i].previous
      BY <2>0 DEF SameJob
    <3>2. jobs[i].previous \in JobId
      BY <3>1, RowFields, ImageNumbers DEF PictureTypeOK, JobId
    <3> QED
      BY <3>1, <3>2 DEF RowInv
  <2>3. Made(p) /\ Made(p)' /\ SameJob(p)
    BY <1>0, <2>1 DEF Follows, RowsKept
  <2>4. Follows(i, p)'
    BY <2>0, <2>1, <2>3 DEF Follows, SameJob
  <2> QED
    BY <2>1, <2>4 DEF Follows
<1>3. ASSUME \A i \in JobId : /\ ~Made(i)' => jobs'[i] = Unmade
                              /\ ~jobs'[i].result => reviews'[i] = 0
                              /\ jobs'[i].previous # 0 => Follows(i, jobs[i].previous)',
             \A c, d \in Call : calls'[c].pc = "generate" /\ calls'[d].pc = "generate"
                                /\ calls'[c].job = calls'[d].job => c = d
      PROVE  RowInv'
  BY <1>3 DEF RowInv, CallAt
<1>4. ASSUME \A c \in Call : calls'[c] = calls[c] \/ calls'[c].pc # "generate"
      PROVE  \A c, d \in Call : calls'[c].pc = "generate" /\ calls'[d].pc = "generate"
                                /\ calls'[c].job = calls'[d].job => c = d
  BY <1>4 DEF RowInv, CallAt
<1>5. CASE UNCHANGED <<jobs, reviews>> /\ \A c \in Call : calls'[c] = calls[c] \/ calls'[c].pc # "generate"
  BY <1>1, <1>2, <1>3, <1>4, <1>5
<1>6. CASE \E c \in Call : Begins(c) \/ Decides(c) \/ Shows(c)
  BY <1>5, <1>6 DEF Begins, Decides, Shows, Others
<1>7. CASE (\E dying \in SUBSET Call : Cuts(dying)) \/ (\E s \in Slide : Uploads(s))
           \/ UNCHANGED <<image, calls, jobs, reviews, torn>>
  BY <1>5, <1>7, IdleCall DEF Cuts, Uploads
<1>8. ASSUME NEW c \in Call, NEW j \in JobId, Creates(c, j) PROVE RowInv'
  <2>1. /\ Made(j)' /\ reviews'[j] = 0
        /\ jobs'[j].previous # 0 => Follows(j, jobs[j].previous)'
    <3>1. Made(j)' /\ reviews'[j] = 0 /\ ~Made(j)
      BY <1>8 DEF Creates, Made, Unmade, RowInv
    <3>2. PICK p \in 0..MaxJobs : p = calls[c].previous
      BY CallFields DEF PictureTypeOK
    <3>3. jobs'[j].previous = p /\ jobs'[j].slide = calls[c].slide /\ jobs'[j].attempt = calls[c].attempt
          /\ calls[c].pc = "row"
      BY <1>8, <3>2 DEF Creates
    <3>4. ASSUME p # 0 PROVE Follows(j, p)'
      <4>1. /\ Made(p) /\ calls[c].slide = jobs[p].slide
            /\ calls[c].attempt = jobs[p].attempt + 1 /\ calls[c].attempt <= MaxAttempts
        BY <3>2, <3>3, <3>4 DEF CallInv, Informed
      <4>2. p \in JobId
        BY <3>4, ImageNumbers DEF JobId
      <4>3. Made(p)' /\ SameJob(p)
        BY <1>0, <4>1, <4>2 DEF RowsKept
      <4> QED
        BY <3>3, <4>1, <4>3 DEF Follows, SameJob
    <3>5. jobs'[j].previous # 0 => Follows(j, jobs[j].previous)'
      BY <3>3, <3>4 DEF Follows
    <3> QED
      BY <3>1, <3>5
  <2>2. \A i \in JobId \ {j} : jobs'[i] = jobs[i] /\ reviews'[i] = reviews[i]
    BY <1>8 DEF Creates, RowsBut
  <2>3. \A d \in Call : d # c /\ calls'[d].pc = "generate" => calls'[d].job # j
    BY <1>8 DEF Creates, Others, CallInv, Informed, Made, Unmade
  <2>4. \A d, e \in Call : calls'[d].pc = "generate" /\ calls'[e].pc = "generate"
                           /\ calls'[d].job = calls'[e].job => d = e
    BY <1>8, <2>3 DEF Creates, Others, RowInv, CallAt
  <2>5. ASSUME NEW i \in JobId
        PROVE  /\ ~Made(i)' => jobs'[i] = Unmade
               /\ ~jobs'[i].result => reviews'[i] = 0
               /\ jobs'[i].previous # 0 => Follows(i, jobs[i].previous)'
    <3>1. CASE i = j
      BY <2>1, <3>1
    <3>2. CASE i # j
      BY <1>1, <1>2, <2>2, <3>2
    <3> QED
      BY <3>1, <3>2
  <2> QED
    BY <1>3, <2>4, <2>5
<1>9. ASSUME NEW c \in Call, NEW j \in JobId,
             Draws(c, j) \/ Settles(c, j) \/ Retries(c, j)
      PROVE  RowInv'
  <2>1. Made(j) /\ Made(j)' /\ SameJob(j) /\ RowsBut(j) /\ UNCHANGED reviews /\ Others(c)
    BY <1>0, <1>9
      DEF Draws, Settles, Retries, CallInv, Informed, Judging, RowsKept
  <2>2. calls'[c].pc # "generate"
    BY <1>9, IdleCall DEF Draws, Settles, Retries
  <2>3. ~jobs'[j].result => reviews'[j] = 0
    <3>1. CASE Draws(c, j)
      <4>1. reviews[j] = 0
        BY <3>1 DEF Draws, CallInv, Informed, RowInv
      <4> QED
        BY <2>1, <4>1
    <3>2. CASE Settles(c, j) \/ Retries(c, j)
      <4>1. jobs'[j].result = jobs[j].result
        BY <3>2 DEF Settles, Retries
      <4> QED
        BY <2>1, <4>1 DEF RowInv
    <3> QED
      BY <1>9, <3>1, <3>2
  <2>4. ASSUME NEW i \in JobId
        PROVE  /\ ~Made(i)' => jobs'[i] = Unmade
               /\ ~jobs'[i].result => reviews'[i] = 0
               /\ jobs'[i].previous # 0 => Follows(i, jobs[i].previous)'
    <3>1. CASE i = j
      BY <1>2, <2>1, <2>3, <3>1
    <3>2. CASE i # j
      BY <1>1, <1>2, <2>1, <3>2 DEF RowsBut
    <3> QED
      BY <3>1, <3>2
  <2> QED
    BY <1>3, <1>4, <2>1, <2>2, <2>4 DEF Others
<1>10. ASSUME NEW c \in Call, NEW j \in JobId, Looks(c, j) PROVE RowInv'
  <2>1. UNCHANGED jobs /\ Others(c) /\ calls'[c].pc # "generate"
    BY <1>10, IdleCall DEF Looks
  <2>2. ASSUME NEW i \in JobId, ~jobs'[i].result PROVE reviews'[i] = reviews[i]
    BY <1>10, <2>1, <2>2 DEF Looks, PictureTypeOK
  <2> QED
    BY <1>1, <1>2, <1>3, <1>4, <2>1, <2>2 DEF Others
<1> QED
  BY <1>6, <1>7, <1>8, <1>9, <1>10 DEF Step

-----------------------------------------------------------------------------
LEMMA StepKeepsRejects ==
  ASSUME PictureTypeOK, CallInv, RowInv, RowsKept, RejectInv, Step
  PROVE  RejectInv'
<1> SUFFICES ASSUME NEW j \in JobId, j \notin torn', jobs'[j].status = "qa_rejected"
             PROVE  Succeeded(j)'
  BY DEF RejectInv
<1>0. j # 0
  BY ImageNumbers DEF JobId
<1>1. ASSUME NEW i \in JobId, jobs[i].previous = j PROVE Succeeded(j)'
  <2>1. Made(i)
    BY <1>0, <1>1 DEF RowInv, Unmade
  <2>2. jobs'[i].previous = j
    BY <1>1, <2>1 DEF RowsKept, SameJob
  <2> QED
    BY <2>2 DEF Succeeded
<1>2. ASSUME NEW c \in Call, calls'[c].previous = j PROVE Succeeded(j)'
  BY <1>2 DEF Succeeded
<1>3. ASSUME NEW c \in Call, calls[c].previous = j PROVE Succeeded(j)'
  <2>1. calls[c].pc \in {"row", "generate"}
    BY <1>0, <1>3 DEF CallInv, Informed
  <2>2. CASE calls'[c] = calls[c]
    BY <1>2, <1>3, <2>2
  <2>3. CASE \E i \in JobId : Creates(c, i)
    BY <1>3, <2>3 DEF Creates, Succeeded
  <2>4. ASSUME NEW i \in JobId, Draws(c, i) PROVE Succeeded(j)'
    <3>1. jobs[i].previous = j
      BY <1>0, <1>3, <2>4 DEF Draws, CallInv, Informed
    <3> QED
      BY <1>1, <3>1
  <2>5. ASSUME NEW dying \in SUBSET Call, Cuts(dying) PROVE calls'[c] = calls[c]
    BY <1>3, <2>1, <2>5 DEF Cuts
  <2>6. ASSUME NEW d \in Call, Begins(d) \/ Decides(d) \/ Shows(d) PROVE calls'[c] = calls[c]
    BY <2>1, <2>6 DEF Begins, Decides, Shows, Others
  <2>7. ASSUME NEW d \in Call, NEW i \in JobId,
               Creates(d, i) \/ Draws(d, i) \/ Looks(d, i) \/ Settles(d, i) \/ Retries(d, i)
        PROVE  Succeeded(j)'
    <3>1. CASE d = c
      BY <2>1, <2>3, <2>4, <2>7, <3>1 DEF Looks, Settles, Retries
    <3>2. CASE d # c
      BY <2>2, <2>7, <3>2 DEF Creates, Draws, Looks, Settles, Retries, Others
    <3> QED
      BY <3>1, <3>2
  <2> QED
    BY <2>2, <2>5, <2>6, <2>7 DEF Step, Uploads
<1>4. ASSUME NEW c \in Call, Retries(c, j) PROVE Succeeded(j)'
  BY <1>2, <1>4 DEF Retries
<1>5. j \notin torn
  BY
    DEF Step, Begins, Creates, Draws, Looks, Decides, Shows, Settles, Retries,
        Cuts, Uploads
<1>6. jobs[j].status = "qa_rejected" \/ \E c \in Call : Retries(c, j)
  <2>1. ASSUME NEW c \in Call, NEW i \in JobId,
               Creates(c, i) \/ Draws(c, i) \/ Looks(c, i) \/ Settles(c, i) \/ Retries(c, i)
        PROVE  jobs[j].status = "qa_rejected" \/ Retries(c, j)
    <3>1. CASE i = j
      BY <2>1, <3>1 DEF Creates, Draws, Looks, Settles
    <3>2. CASE i # j
      BY <2>1, <3>2 DEF Creates, Draws, Looks, Settles, Retries, RowsBut
    <3> QED
      BY <3>1, <3>2
  <2> QED
    BY <2>1 DEF Step, Begins, Decides, Shows, Cuts, Uploads
<1> QED
  BY <1>1, <1>3, <1>4, <1>5, <1>6 DEF RejectInv, Succeeded

-----------------------------------------------------------------------------
(* Who judges a job after a step did before, or has just read it.          *)
LEMMA JudgesBefore ==
  ASSUME PictureTypeOK, Step, NEW c \in Call, NEW j \in JobId, Judges(c, j)'
  PROVE  \/ Judges(c, j)
         \/ Looks(c, j) /\ reviews'[j] = reviews[j] + 1
<1>1. ASSUME calls'[c] = calls[c] PROVE Judges(c, j)
  BY <1>1 DEF Judges
<1>2. ASSUME Decides(c) \/ Shows(c) PROVE Judges(c, j)
  BY <1>2 DEF Decides, Shows, SameCall, Judges, Judging
<1>3. ~Begins(c)
  BY DEF Begins, Judges, Judging
<1>4. ASSUME NEW d \in Call, Begins(d) \/ Decides(d) \/ Shows(d) PROVE Judges(c, j)
  <2>1. d = c \/ calls'[c] = calls[c]
    BY <1>4 DEF Begins, Decides, Shows, Others
  <2> QED
    BY <1>1, <1>2, <1>3, <1>4, <2>1
<1>5. CASE \E dying \in SUBSET Call : Cuts(dying)
  BY <1>5, IdleCall DEF Cuts, Judges, Judging
<1>6. ASSUME NEW i \in JobId,
             Creates(c, i) \/ Draws(c, i) \/ Looks(c, i) \/ Settles(c, i) \/ Retries(c, i)
      PROVE  Looks(c, j) /\ reviews'[j] = reviews[j] + 1
  <2>1. ~Creates(c, i) /\ ~Draws(c, i) /\ ~Settles(c, i) /\ ~Retries(c, i)
    BY IdleCall DEF Creates, Draws, Settles, Retries, Judges, Judging
  <2>2. Looks(c, i) /\ calls'[c].pc = "vision" /\ i = j
        /\ reviews' = [reviews EXCEPT ![i] = @ + 1]
    BY <1>6, <2>1, IdleCall DEF Looks, Judges, Judging
  <2> QED
    BY <2>2 DEF PictureTypeOK
<1>7. ASSUME NEW d \in Call, NEW i \in JobId,
             Creates(d, i) \/ Draws(d, i) \/ Looks(d, i) \/ Settles(d, i) \/ Retries(d, i), d # c
      PROVE  calls'[c] = calls[c]
  BY <1>7 DEF Creates, Draws, Looks, Settles, Retries, Others
<1> QED
  BY <1>1, <1>4, <1>5, <1>6, <1>7 DEF Step, Uploads

LEMMA StepKeepsShown ==
  ASSUME PictureTypeOK, PictureTypeOK', CallInv, RowInv, RowsKept, ShownInv, Step
  PROVE  ShownInv'
<1>0. \A j \in JobId : reviews[j] \in Nat /\ reviews'[j] \in Nat /\ reviews[j] <= reviews'[j]
  BY DEF PictureTypeOK, RowsKept
<1>1. ASSUME NEW j \in JobId, NEW c \in Call, NEW d \in Call,
             reviews'[j] <= 1, Judges(c, j)', Judges(d, j)'
      PROVE  c = d
  <2>1. ASSUME NEW x \in Call, Judges(x, j) PROVE reviews[j] > 0
    BY <2>1 DEF Judges, CallInv, Informed
  <2>2. ASSUME NEW x \in Call, NEW y \in Call, Looks(x, j), Looks(y, j),
               reviews'[j] = reviews[j] + 1
        PROVE  x = y
    <3>1. calls'[x] # calls[x] /\ calls'[y] # calls[y]
      BY <2>2, IdleCall DEF Looks
    <3> QED
      BY <2>2, <3>1 DEF Looks, Others
  <2>3. CASE Judges(c, j) /\ Judges(d, j)
    BY <1>0, <1>1, <2>3 DEF ShownInv
  <2>4. CASE ~Judges(c, j) \/ ~Judges(d, j)
    <3>1. reviews'[j] = reviews[j] + 1
      BY <1>1, <2>4, JudgesBefore
    <3>2. ~Judges(c, j) /\ ~Judges(d, j)
      BY <1>0, <1>1, <2>1, <3>1
    <3>3. Looks(c, j) /\ Looks(d, j)
      BY <1>1, <3>2, JudgesBefore
    <3> QED
      BY <2>2, <3>1, <3>3
  <2> QED
    BY <2>3, <2>4
<1>2. ASSUME NEW c \in Call, Shows(c)
      PROVE  calls[c].job \in JobId /\ reviews[calls[c].job] > 0
  BY <1>2 DEF Shows, CallInv, Informed, Judging
<1>3. ASSUME NEW s \in Slide, image'[s] \in JobId, image'[s] # image[s]
      PROVE  \E c \in Call : /\ Shows(c) /\ image'[s] = calls[c].job /\ calls[c].slide = s
  <2>1. ASSUME NEW z \in Slide, Uploads(z) PROVE FALSE
    BY <1>3, <2>1, ImageNumbers DEF Uploads, PictureTypeOK
  <2>2. \E c \in Call : Shows(c)
    BY <1>3, <2>1
      DEF Step, Begins, Creates, Draws, Looks, Decides, Settles, Retries, Cuts
  <2> QED
    BY <1>3, <2>2 DEF Shows, PictureTypeOK
<1>4. ASSUME NEW s \in Slide, image'[s] \in JobId
      PROVE  reviews'[image'[s]] > 0
  <2>1. reviews[image'[s]] > 0
    BY <1>2, <1>3, <1>4 DEF ShownInv
  <2> QED
    BY <1>0, <1>4, <2>1
<1>5. ASSUME NEW s \in Slide, NEW j \in JobId, image'[s] = j, Lone(j)'
      PROVE  Shown(s, j)'
  <2>1. torn \subseteq torn' /\ Lone(j)
    <3>1. torn \subseteq torn'
      BY
        DEF Step, Begins, Creates, Draws, Looks, Decides, Shows, Settles,
            Retries, Cuts, Uploads
    <3> QED
      BY <1>0, <1>5, <3>1 DEF Lone
  <2>2. CASE image'[s] # image[s]
    <3>1. PICK c \in Call : Shows(c) /\ j = calls[c].job /\ calls[c].slide = s
      BY <1>3, <1>5, <2>2
    <3> QED
      BY <3>1 DEF Shows, SameCall, Shown, CallAt
  <2>3. CASE image'[s] = image[s]
    <3>1. reviews[j] = 1 /\ Shown(s, j)
      BY <1>0, <1>5, <2>1, <2>3 DEF ShownInv, Lone
    <3>2. ASSUME NEW c \in Call PROVE ~Creates(c, j) /\ ~Draws(c, j)
      BY <3>1 DEF Creates, Draws, CallInv, Informed, RowInv, Unmade
    <3>3. ASSUME NEW c \in Call, Judges(c, j)' PROVE Judges(c, j)
      BY <1>0, <1>5, <3>1, <3>3, JudgesBefore DEF Lone
    <3>4. jobs'[j] = jobs[j] \/ \E c \in Call : Settles(c, j) \/ Retries(c, j)
      <4>1. ASSUME NEW c \in Call, NEW i \in JobId,
                   Creates(c, i) \/ Draws(c, i) \/ Looks(c, i) \/ Settles(c, i) \/ Retries(c, i)
            PROVE  jobs'[j] = jobs[j] \/ Settles(c, j) \/ Retries(c, j)
        <5>1. CASE i = j
          BY <3>2, <4>1, <5>1 DEF Looks
        <5>2. CASE i # j
          BY <4>1, <5>2 DEF Creates, Draws, Looks, Settles, Retries, RowsBut
        <5> QED
          BY <5>1, <5>2
      <4> QED
        BY <4>1 DEF Step, Begins, Decides, Shows, Cuts, Uploads
    <3>5. ASSUME NEW c \in Call, Settles(c, j) \/ Retries(c, j) PROVE Judges(c, j)
      BY <3>5 DEF Settles, Retries, Judges, Judging
    <3>6. CASE /\ jobs[j].status = "qa_passed" /\ jobs[j].slide = s
               /\ \A c \in Call : ~Judges(c, j)
      BY <3>3, <3>4, <3>5, <3>6 DEF Shown
    <3>7. ASSUME NEW c \in Call, CallAt(c, "passed"), calls[c].job = j, calls[c].slide = s
          PROVE  Shown(s, j)'
      <4>0. Judges(c, j) /\ jobs[j].slide = s
        BY <3>7 DEF CallAt, Judges, Judging, CallInv, Informed
      <4>1. ASSUME NEW d \in Call, Judges(d, j) PROVE d = c
        BY <3>1, <4>0, <4>1 DEF ShownInv
      <4>2. CASE calls'[c] = calls[c]
        BY <3>7, <4>2 DEF Shown, CallAt
      <4>3. CASE Settles(c, j)
        <5>1. jobs'[j].status = "qa_passed" /\ jobs'[j].slide = s /\ calls'[c].pc = "idle"
          BY <3>7, <4>0, <4>3, IdleCall DEF Settles, CallAt, SameJob
        <5>2. \A d \in Call : ~Judges(d, j)'
          BY <3>3, <4>1, <5>1 DEF Judges, Judging
        <5> QED
          BY <5>1, <5>2 DEF Shown
      <4>4. calls'[c] = calls[c] \/ Settles(c, j)
        <5>1. ASSUME NEW d \in Call, NEW i \in JobId,
                     Creates(d, i) \/ Draws(d, i) \/ Looks(d, i) \/ Settles(d, i) \/ Retries(d, i)
              PROVE  calls'[c] = calls[c] \/ Settles(c, j)
          <6>1. CASE d = c
            BY <3>7, <5>1, <6>1
              DEF Creates, Draws, Looks, Retries, Settles, CallAt
          <6>2. CASE d # c
            BY <5>1, <6>2 DEF Creates, Draws, Looks, Settles, Retries, Others
          <6> QED
            BY <6>1, <6>2
        <5>2. ASSUME NEW d \in Call, Begins(d) \/ Decides(d) \/ Shows(d)
              PROVE  calls'[c] = calls[c]
          BY <3>7, <5>2 DEF Begins, Decides, Shows, Others, CallAt
        <5>3. ASSUME NEW dying \in SUBSET Call, Cuts(dying)
              PROVE  calls'[c] = calls[c]
          BY <1>5, <3>7, <5>3 DEF Cuts, CallAt, Lone
        <5> QED
          BY <5>1, <5>2, <5>3 DEF Step, Uploads
      <4> QED
        BY <4>2, <4>3, <4>4
    <3> QED
      BY <3>1, <3>6, <3>7 DEF Shown
  <2> QED
    BY <2>2, <2>3
<1>6. ASSUME NEW s \in Slide, image'[s] \in JobId, Lone(image[s])'
      PROVE  Shown(s, image[s])'
  <2>1. PICK j \in JobId : image'[s] = j
    BY <1>6
  <2>2. Lone(j)'
    BY <1>6, <2>1 DEF Lone
  <2>3. Shown(s, j)'
    BY <1>5, <2>1, <2>2
  <2> QED
    BY <2>1, <2>3 DEF Shown, Judges
<1> QED
  BY <1>1, <1>4, <1>6 DEF ShownInv

-----------------------------------------------------------------------------
LEMMA CountSets ==
  ASSUME PictureTypeOK, IsFiniteSet(Busy), NEW p \in JobId
  PROVE  /\ IsFiniteSet(Successors(p)) /\ IsFiniteSet(Heirs(p))
         /\ Cardinality(Successors(p)) \in Nat /\ Cardinality(Heirs(p)) \in Nat
<1>1. IsFiniteSet(JobId)
  BY ImageNumbers, FS_Interval DEF JobId
<1>2. Successors(p) \subseteq JobId
  BY DEF Successors
<1>3. Heirs(p) \subseteq Busy
  BY DEF Heirs, Heir, Busy, CallAt
<1> QED
  BY <1>1, <1>2, <1>3, FS_Subset, FS_CardinalityType

LEMMA CountFrame ==
  ASSUME PictureTypeOK, PictureTypeOK', CountInv, NEW p \in JobId, reviews[p] <= reviews'[p],
         NEW X, NEW Y, X \subseteq Successors(p), Y \subseteq Heirs(p)
  PROVE  Cardinality(X) + Cardinality(Y) <= reviews'[p]
<1>1. Cardinality(Successors(p)) + Cardinality(Heirs(p)) <= reviews[p]
  BY DEF CountInv
<1>2. /\ IsFiniteSet(Successors(p)) /\ IsFiniteSet(Heirs(p))
      /\ Cardinality(Successors(p)) \in Nat /\ Cardinality(Heirs(p)) \in Nat
  BY CountSets DEF CountInv
<1>3. /\ Cardinality(X) \in Nat /\ Cardinality(Y) \in Nat
      /\ Cardinality(X) <= Cardinality(Successors(p)) /\ Cardinality(Y) <= Cardinality(Heirs(p))
  BY <1>2, FS_Subset, FS_CardinalityType
<1>4. reviews[p] \in Nat /\ reviews'[p] \in Nat
  BY DEF PictureTypeOK
<1> QED
  BY <1>1, <1>2, <1>3, <1>4

LEMMA StepKeepsBusy ==
  ASSUME IsFiniteSet(Busy), Step
  PROVE  IsFiniteSet(Busy')
<1>1. ASSUME NEW c \in Call, Others(c) PROVE IsFiniteSet(Busy')
  <2>1. Busy' \subseteq Busy \cup {c}
    BY <1>1 DEF Others, Busy, CallAt
  <2> QED
    BY <2>1, FS_AddElement, FS_Subset
<1>2. ASSUME NEW dying \in SUBSET Call, Cuts(dying) PROVE IsFiniteSet(Busy')
  <2>1. Busy' \subseteq Busy
    BY <1>2, IdleCall DEF Cuts, Busy, CallAt
  <2> QED
    BY <2>1, FS_Subset
<1>3. ASSUME UNCHANGED calls PROVE IsFiniteSet(Busy')
  BY <1>3 DEF Busy, CallAt
<1> QED
  BY <1>1, <1>2, <1>3
  DEF Step, Begins, Creates, Draws, Looks, Decides, Shows, Settles, Retries,
      Uploads

LEMMA StepKeepsCount ==
  ASSUME PictureTypeOK, PictureTypeOK', CallInv, RowInv, RowsKept, CountInv, Step
  PROVE  CountInv'
<1>0. IsFiniteSet(Busy')
  BY StepKeepsBusy DEF CountInv
<1> SUFFICES ASSUME NEW p \in JobId
             PROVE  Cardinality(Successors(p)') + Cardinality(Heirs(p)') <= reviews'[p]
  BY <1>0 DEF CountInv
<1>1. p # 0 /\ reviews[p] <= reviews'[p] /\ reviews[p] \in Nat
  BY ImageNumbers DEF JobId, RowsKept, PictureTypeOK
<1>2. /\ IsFiniteSet(Successors(p)) /\ IsFiniteSet(Heirs(p))
      /\ Cardinality(Successors(p)) \in Nat /\ Cardinality(Heirs(p)) \in Nat
      /\ Cardinality(Successors(p)) + Cardinality(Heirs(p)) <= reviews[p]
  BY CountSets DEF CountInv
<1>3. ASSUME Successors(p)' \subseteq Successors(p), Heirs(p)' \subseteq Heirs(p)
      PROVE  Cardinality(Successors(p)') + Cardinality(Heirs(p)') <= reviews'[p]
  <2> DEFINE X == Successors(p)'
             Y == Heirs(p)'
  <2>1. X \subseteq Successors(p) /\ Y \subseteq Heirs(p)
    BY <1>3
  <2> HIDE DEF X, Y
  <2>2. Cardinality(X) + Cardinality(Y) <= reviews'[p]
    BY <1>1, <2>1, CountFrame
  <2> QED
    BY <2>2 DEF X, Y
<1>4. ASSUME \A i \in JobId : jobs'[i] = jobs[i] \/ SameJob(i)
      PROVE  Successors(p)' \subseteq Successors(p)
  BY <1>4 DEF Successors, SameJob
<1>5. ASSUME NEW c \in Call, Others(c), Heir(c, p)' => Heir(c, p)
      PROVE  Heirs(p)' \subseteq Heirs(p)
  BY <1>5 DEF Others, Heirs, Heir
<1>6. ASSUME NEW c \in Call, Begins(c)
      PROVE  Successors(p)' \subseteq Successors(p) /\ Heirs(p)' \subseteq Heirs(p)
  <2>1. ~Heir(c, p)'
    BY <1>1, <1>6 DEF Begins, Heir
  <2> QED
    BY <1>4, <1>5, <1>6, <2>1 DEF Begins
<1>7. ASSUME NEW c \in Call, Decides(c) \/ Shows(c)
      PROVE  Successors(p)' \subseteq Successors(p) /\ Heirs(p)' \subseteq Heirs(p)
  <2>1. Heir(c, p)' => Heir(c, p)
    BY <1>7 DEF Decides, Shows, SameCall, Heir
  <2> QED
    BY <1>4, <1>5, <1>7, <2>1 DEF Decides, Shows
<1>8. ASSUME NEW c \in Call, NEW j \in JobId, Draws(c, j) \/ Settles(c, j)
      PROVE  Successors(p)' \subseteq Successors(p) /\ Heirs(p)' \subseteq Heirs(p)
  <2>1. ~Heir(c, p)'
    BY <1>1, <1>8, IdleCall DEF Draws, Settles, Heir
  <2>2. RowsBut(j) /\ SameJob(j) /\ Others(c)
    BY <1>8 DEF Draws, Settles
  <2> QED
    BY <1>4, <1>5, <2>1, <2>2 DEF RowsBut
<1>9. ASSUME NEW c \in Call, NEW j \in JobId, Retries(c, j)
      PROVE  Successors(p)' \subseteq Successors(p) /\ Heirs(p)' \subseteq Heirs(p)
  <2>1. Heir(c, p)' => Heir(c, p)
    BY <1>9 DEF Retries, Heir
  <2>2. RowsBut(j) /\ SameJob(j) /\ Others(c)
    BY <1>9 DEF Retries
  <2> QED
    BY <1>4, <1>5, <2>1, <2>2 DEF RowsBut
<1>10. ASSUME NEW dying \in SUBSET Call, Cuts(dying)
       PROVE  Successors(p)' \subseteq Successors(p) /\ Heirs(p)' \subseteq Heirs(p)
  <2>1. \A c \in Call : Heir(c, p)' => Heir(c, p)
    BY <1>10, IdleCall DEF Cuts, Heir
  <2>2. UNCHANGED jobs
    BY <1>10 DEF Cuts
  <2> QED
    BY <1>4, <2>1, <2>2 DEF Heirs
<1>11. ASSUME UNCHANGED <<calls, jobs>>
       PROVE  Successors(p)' \subseteq Successors(p) /\ Heirs(p)' \subseteq Heirs(p)
  BY <1>11 DEF Successors, Heirs, Heir
<1>12. ASSUME NEW c \in Call, NEW j \in JobId, Looks(c, j)
       PROVE  Cardinality(Successors(p)') + Cardinality(Heirs(p)') <= reviews'[p]
  <2>1. Successors(p)' = Successors(p)
    BY <1>12 DEF Looks, Successors
  <2>2. CASE ~(Heir(c, p)')
    <3>1. Heirs(p)' \subseteq Heirs(p)
      BY <1>5, <1>12, <2>2 DEF Looks
    <3> QED
      BY <1>3, <2>1, <3>1
  <2>3. CASE Heir(c, p)'
    <3>1. p = j /\ reviews'[p] = reviews[p] + 1
      BY <1>12, <2>3, IdleCall DEF Looks, Heir, PictureTypeOK
    <3>2. c \notin Heirs(p)
      BY <1>12 DEF Looks, Heirs, Heir
    <3>3. Heirs(p)' = Heirs(p) \cup {c}
      BY <1>12, <2>3 DEF Looks, Others, Heirs, Heir
    <3>4. Cardinality(Heirs(p) \cup {c}) = Cardinality(Heirs(p)) + 1
      BY <1>2, <3>2, FS_AddElement
    <3> QED
      BY <1>1, <1>2, <2>1, <3>1, <3>3, <3>4
  <2> QED
    BY <2>2, <2>3
<1>13. ASSUME NEW c \in Call, NEW j \in JobId, Creates(c, j)
       PROVE  Cardinality(Successors(p)') + Cardinality(Heirs(p)') <= reviews'[p]
  <2>1. ~(Heir(c, p)') /\ Heirs(p)' = Heirs(p) \ {c}
    BY <1>13 DEF Creates, Others, Heirs, Heir
  <2>2. CASE calls[c].previous # p
    <3>1. Successors(p)' \subseteq Successors(p)
      BY <1>13, <2>2 DEF Creates, RowsBut, Successors
    <3> QED
      BY <1>3, <2>1, <3>1
  <2>3. CASE calls[c].previous = p
    <3>1. c \in Heirs(p) /\ j \notin Successors(p)
      BY <1>1, <1>13, <2>3 DEF Creates, Heirs, Heir, Successors, Unmade
    <3>2. Successors(p)' = Successors(p) \cup {j}
      BY <1>13, <2>3 DEF Creates, RowsBut, Successors
    <3>3. Cardinality(Successors(p) \cup {j}) = Cardinality(Successors(p)) + 1
      BY <1>2, <3>1, FS_AddElement
    <3>4. Cardinality(Heirs(p) \ {c}) = Cardinality(Heirs(p)) - 1
      BY <1>2, <3>1, FS_RemoveElement
    <3>5. reviews'[p] = reviews[p]
      BY <1>13 DEF Creates
    <3> QED
      BY <1>1, <1>2, <2>1, <3>2, <3>3, <3>4, <3>5
  <2> QED
    BY <2>2, <2>3
<1>14. ASSUME NEW c \in Call, Begins(c) \/ Decides(c) \/ Shows(c)
       PROVE  Cardinality(Successors(p)') + Cardinality(Heirs(p)') <= reviews'[p]
  BY <1>3, <1>6, <1>7, <1>14
<1>15. ASSUME NEW c \in Call, NEW j \in JobId, Draws(c, j) \/ Settles(c, j) \/ Retries(c, j)
       PROVE  Cardinality(Successors(p)') + Cardinality(Heirs(p)') <= reviews'[p]
  BY <1>3, <1>8, <1>9, <1>15
<1>16. ASSUME NEW dying \in SUBSET Call, Cuts(dying)
       PROVE  Cardinality(Successors(p)') + Cardinality(Heirs(p)') <= reviews'[p]
  BY <1>3, <1>10, <1>16
<1>17. ASSUME UNCHANGED <<calls, jobs>>
       PROVE  Cardinality(Successors(p)') + Cardinality(Heirs(p)') <= reviews'[p]
  BY <1>3, <1>11, <1>17
<1> QED
  BY <1>12, <1>13, <1>14, <1>15, <1>16, <1>17 DEF Step, Uploads

-----------------------------------------------------------------------------
PictureInv == PictureTypeOK /\ CallInv /\ RowInv /\ CountInv /\ RejectInv /\ ShownInv

LEMMA PictureAtFirst == PictureInit => PictureInv
<1> SUFFICES ASSUME PictureInit PROVE PictureInv
  OBVIOUS
<1>1. [pc |-> "idle", job |-> 0] \in FlowState
  BY ImageNumbers DEF FlowState
<1>2. PictureTypeOK
  <2>1. 0 \in Nat /\ {} \subseteq 0..MaxJobs
    OBVIOUS
  <2> QED
    BY <1>1, <2>1, IdleCall DEF PictureInit, PictureTypeOK
<1>3. CallInv
  BY IdleCall DEF PictureInit, CallInv, Informed, Judging
<1>4. RowInv
  BY IdleCall DEF PictureInit, RowInv, Unmade, Made, CallAt
<1>5. CountInv
  <2>1. Busy = {}
    BY IdleCall DEF PictureInit, Busy, CallAt
  <2>2. ASSUME NEW p \in JobId
        PROVE  Cardinality(Successors(p)) + Cardinality(Heirs(p)) <= reviews[p]
    <3>1. Successors(p) = {} /\ Heirs(p) = {} /\ reviews[p] = 0
      BY IdleCall, ImageNumbers DEF PictureInit, Successors, Heirs, Heir, JobId
    <3> QED
      BY <3>1, FS_EmptySet
  <2> QED
    BY <2>1, <2>2, FS_EmptySet DEF CountInv
<1>6. RejectInv
  BY IdleCall DEF PictureInit, RejectInv
<1>7. ShownInv
  BY IdleCall, ImageNumbers DEF PictureInit, ShownInv, Judges, Judging
<1> QED
  BY <1>2, <1>3, <1>4, <1>5, <1>6, <1>7 DEF PictureInv

LEMMA PictureStays == PictureInv /\ [PictureNext]_pictureVars => PictureInv'
<1> SUFFICES ASSUME PictureInv, [PictureNext]_pictureVars PROVE PictureInv'
  OBVIOUS
<1>1. PictureTypeOK /\ CallInv /\ RowInv /\ CountInv /\ RejectInv /\ ShownInv
  BY DEF PictureInv
<1>2. PictureTypeOK' /\ Step
  BY <1>1, Steps
<1>3. RowsKept
  BY <1>1, <1>2, StepKeepsRows
<1>4. CallInv' /\ RowInv'
  BY <1>1, <1>2, StepKeepsCalls, StepKeepsRowInv
<1>5. CountInv' /\ RejectInv' /\ ShownInv'
  BY <1>1, <1>2, <1>3, StepKeepsCount, StepKeepsRejects, StepKeepsShown
<1> QED
  BY <1>2, <1>4, <1>5 DEF PictureInv

(* The variables of ImageGeneration keep their types.                      *)
THEOREM ImageTypes == PictureSpec => []PictureTypeOK
<1>1. PictureInv => PictureTypeOK
  BY DEF PictureInv
<1> QED
  BY <1>1, PictureAtFirst, PictureStays, PTL DEF PictureSpec

(* The picture on a slide is one whose job passed, or is about to, as long *)
(* as its job was judged once and the judgement was not cut off: for any   *)
(* number of slides, calls at once, workflows, attempts, tries, uploads    *)
(* and faults.                                                             *)
THEOREM PicturesHavePassed == PictureSpec => []ShownHasPassed
<1>1. PictureInv => ShownHasPassed
  <2> SUFFICES ASSUME PictureInv, NEW s \in Slide, image[s] \in JobId, Lone(image[s])
               PROVE  \/ jobs[image[s]].status = "qa_passed" /\ jobs[image[s]].slide = s
                      \/ \E c \in Call : CallAt(c, "passed") /\ calls[c].job = image[s]
    <3>1. \A j \in JobId : PictureTypeOK => reviews[j] \in Nat
      BY DEF PictureTypeOK
    <3> QED
      BY <3>1 DEF ShownHasPassed, Lone, PictureInv
  <2>1. Shown(s, image[s])
    BY DEF PictureInv, ShownInv
  <2> QED
    BY <2>1 DEF Shown
<1> QED
  BY <1>1, PictureAtFirst, PictureStays, PTL DEF PictureSpec

(* Every rejected picture is followed by the next attempt, for the same    *)
(* slide, as often as it was judged, never past the last; unless its       *)
(* judgement was cut off it has a successor or a call that makes one.      *)
THEOREM RejectionsAreFollowed == PictureSpec => []AttemptsFollow
<1>1. PictureInv => AttemptsFollow
  <2> SUFFICES ASSUME PictureInv PROVE AttemptsFollow
    OBVIOUS
  <2>1. ASSUME NEW j \in JobId, jobs[j].previous # 0
        PROVE  LET p == jobs[j].previous IN
                 /\ jobs[j].attempt = jobs[p].attempt + 1 /\ jobs[j].attempt <= MaxAttempts
                 /\ jobs[j].slide = jobs[p].slide
                 /\ Cardinality({i \in JobId : jobs[i].previous = p}) <= reviews[p]
    <3> DEFINE p == jobs[j].previous
    <3>1. Follows(j, p)
      BY <2>1 DEF PictureInv, RowInv
    <3>2. p \in JobId
      BY <2>1, RowFields, ImageNumbers DEF PictureInv, PictureTypeOK, JobId
    <3>3. Cardinality(Successors(p)) + Cardinality(Heirs(p)) <= reviews[p]
      BY <3>2 DEF PictureInv, CountInv
    <3>4. Cardinality(Successors(p)) \in Nat /\ Cardinality(Heirs(p)) \in Nat
      BY <3>2, CountSets DEF PictureInv, CountInv
    <3>5. reviews[p] \in Nat
      BY <3>2 DEF PictureInv, PictureTypeOK
    <3>6. Cardinality(Successors(p)) <= reviews[p]
      BY <3>3, <3>4, <3>5
    <3>7. Successors(p) = {i \in JobId : jobs[i].previous = p}
      BY DEF Successors
    <3> QED
      BY <3>1, <3>6, <3>7 DEF Follows
  <2>2. \A j \in JobId \ torn : jobs[j].status = "qa_rejected" =>
          \/ \E i \in JobId : jobs[i].previous = j
          \/ \E c \in Call : calls[c].previous = j
    BY DEF PictureInv, RejectInv, Succeeded
  <2> QED
    BY <2>1, <2>2 DEF AttemptsFollow
<1> QED
  BY <1>1, PictureAtFirst, PictureStays, PTL DEF PictureSpec
=============================================================================
