----------------------------- MODULE WebClient -----------------------------
(***************************************************************************)
(* One browser tab of the web client: the page it shows, the query cache   *)
(* its hooks share, its form, and its requests in flight, against the rows *)
(* they write.  What the client knows is modelled as the set of this       *)
(* user's edits it takes into account.  The cache is TanStack Query's with *)
(* the defaults of src/apps/web/app/providers.tsx: data are stale at once  *)
(* and loaded again when a page is mounted and when the window gets the    *)
(* focus; two loads of a key share one request.  One workspace is active   *)
(* throughout, and what others write is left out.  Init, Next and Spec     *)
(* carry the tab's name, since WorkspaceProofs extends this module         *)
(* together with Tenancy.                                                  *)
(***************************************************************************)
EXTENDS WebPages, Integers, FiniteSets

CONSTANTS
  MaxEdits,    \* bound on the requests that write, sent from this tab
  MaxFaults,   \* bound on failed requests
  MaxFocus,    \* bound on loads by focus or interval
  Tours        \* the pages the user opens, one after the other

ASSUME WebClientAssumption ==
  /\ {MaxEdits, MaxFaults, MaxFocus} \subseteq Nat
  /\ \A t \in Tours : t \in Seq(Routes) /\ t # <<>>

VARIABLES
  tour,               \* the pages the user means to open
  page, view, visit,  \* the route, what it shows, and the how-manieth visit
  server, jobs,       \* the edits stored; those left to the background
  cache,              \* per key in use: data, load in flight, its failures
  form,               \* the edits the form takes into account, once filled
  calls,              \* the requests that write, in flight
  edits, faults, focus,           \* used up bounds
  answered            \* history: own edits answered with success

place == <<tour, page, view, visit>>
bounds == <<edits, faults, focus>>
tabVars == <<place, server, jobs, cache, form, calls, bounds, answered>>

-----------------------------------------------------------------------------
(* Edits, and the queries and resources of the pages.                      *)

Queries == {s.query : s \in UNION {Pages[r].shows : r \in Routes}}
Keys == {q.key : q \in Queries}
Reads == [k \in Keys |-> UNION {q.reads : q \in {x \in Queries : x.key = k}}]

Offers    == UNION {Pages[r].offers : r \in Routes}
Sends(o)  == {o.does} \cup o.chains
Mutations == UNION {Sends(o) : o \in Offers}

Edits == [n : Nat, on : UNION {m.on : m \in Mutations}]
Edit(n, on) == [n |-> n, on |-> on]
On(resources, es) == {e \in es : e.on \in resources}

ShownKeys(p, v) ==
  {s.query.key : s \in {x \in Pages[p].shows : x.views = {} \/ v \in x.views}}

Reloads(m, k) == \E x \in m.refresh : IsPrefix(x, k)
Touches(m, k) == m.puts = k \/ Reloads(m, k)

(* What the hooks have in common: a mutation writes all or nothing of what *)
(* a query reads of it; an answer that is put into the cache is that of    *)
(* the row written, at once; a guess is about the rows written, and its    *)
(* query is loaded again in any case.                                      *)
ASSUME HooksAssumption ==
  /\ <<>> \notin Keys
  /\ \A m \in Mutations :
       /\ m.kind \in {"adds", "whole", "later"}
       /\ \A k \in Keys : m.on \cap Reads[k] # {} => m.on \subseteq Reads[k]
       /\ m.puts # <<>> =>
            /\ m.puts \in Keys \ {m.makes} /\ m.on \subseteq Reads[m.puts]
            /\ m.kind # "later"
       /\ m.guesses # <<>> =>
            /\ m.guesses \in Keys /\ m.on = Reads[m.guesses]
            /\ m.settled /\ Reloads(m, m.guesses)

(* What the pages have in common: a mutation sent from a page puts, loads  *)
(* again or makes every query of the page that reads what it writes; what  *)
(* a form takes the values of is saved whole, or fills it by its answer.   *)
ASSUME OffersAssumption ==
  \A r \in Routes :
    LET f == Pages[r].form IN
    /\ f.when # "never" =>
         /\ f.of \in Keys /\ f.fills \subseteq Reads[f.of]
         /\ \A m \in Mutations : m.guesses # f.of
    /\ \A o \in Pages[r].offers :
         /\ \A m \in Sends(o) :
              /\ \A s \in Pages[r].shows : m.on \cap Reads[s.query.key] # {} =>
                   Touches(m, s.query.key) \/ m.makes = s.query.key
              /\ m.on \cap f.fills # {} => m.kind = "whole" \/ o.fills
         /\ \A m \in o.chains : m.kind # "whole"
         /\ o.fills =>
              /\ f.when # "never" /\ o.does.on = f.fills /\ o.does.kind = "adds"
              /\ o.chains = {} /\ o.does.puts = <<>>
              /\ \A m \in Mutations : m.on \cap f.fills # {} => m.on \subseteq f.fills
              /\ \A x \in Pages[r].offers : x.by = o.by => ~x.again

-----------------------------------------------------------------------------
(* A cached query.  load: no request, one the server has not read for yet, *)
(* or one whose answer, got, is on its way.  late: an own edit was         *)
(* answered while that answer was on its way; stale: the data are of a     *)
(* late answer, or an own edit was answered since that was sent from a     *)
(* page left before and whose hook does not touch this key; old: the data  *)
(* are stale, or an own edit was answered since and not put into them.     *)
(* A request that fails after it took effect counts as answered here.      *)
(* (The three are histories.)                                              *)

Empty == [has |-> FALSE, data |-> {}, load |-> "none", got |-> {},
          failed |-> FALSE, late |-> FALSE, stale |-> FALSE, old |-> FALSE]

Asking(slot) == [slot EXCEPT !.load = "asked", !.got = {}, !.late = FALSE]

(* useQuery on mount, on focus or by its interval: joins a load in flight. *)
Fetch(slot) == IF slot.load = "none" THEN Asking(slot) ELSE slot

(* invalidateQueries: a shown query is loaded again, its load in flight    *)
(* given up unless there is nothing to show yet.                           *)
Refresh(slot) == IF slot.load = "none" \/ slot.has THEN Asking(slot) ELSE slot

(* setQueryData leaves a load in flight alone.                             *)
Put(slot, data, late) ==
  [slot EXCEPT !.has = TRUE, !.data = data, !.failed = FALSE,
               !.stale = late, !.old = late]

(* cancelQueries, then setQueryData with the edit applied, or undone.      *)
Guess(slot, e) ==
  [slot EXCEPT !.has = TRUE, !.data = @ \cup {e}, !.failed = FALSE,
               !.load = "none", !.got = {}, !.late = FALSE]
Undo(slot, was) == [slot EXCEPT !.has = TRUE, !.data = was, !.failed = FALSE]

Loaded(slot) ==
  [Put(slot, slot.got, slot.late) EXCEPT
     !.load = "none", !.got = {}, !.late = FALSE]

(* A request about the row was answered, or failed after it took effect.   *)
Noted(slot, late, stale, old) ==
  [slot EXCEPT !.late = @ \/ (late /\ slot.load = "read"),
               !.stale = @ \/ stale, !.old = @ \/ old]

Slot(c, k) == IF k \in DOMAIN c THEN c[k] ELSE Empty
Has(c, k)  == Slot(c, k).has

Mount(c, ks) == [k \in DOMAIN c \cup ks |->
                   IF k \in ks THEN Fetch(Slot(c, k)) ELSE c[k]]

-----------------------------------------------------------------------------
(* The form of a page.  sound (a history): it was filled from data that    *)
(* are not old while no own save of the same resources was in flight.      *)

Unfilled == [filled |-> FALSE, holds |-> {}, sound |-> FALSE]

Filled(f, data, old, cs) ==
  [filled |-> TRUE, holds |-> On(f.fills, data),
   sound |-> ~old /\ \A c \in cs : c.m.on \cap f.fills = {}]

(* The form once the cache has become c and the requests cs.               *)
Fill(p, old, was, c, cs) ==
  LET f == Pages[p].form IN
  IF f.when = "never" \/ ~Has(c, f.of) THEN old
  ELSE IF \/ ~old.filled
          \/ f.when = "each" /\ c[f.of].data # Slot(was, f.of).data
       THEN Filled(f, c[f.of].data, c[f.of].old, cs)
       ELSE old

(* The tab turns to view v of the page, and mounts what is new there.  c,  *)
(* f and cs are what became of the cache, the form and the requests.       *)
Turn(v, c, f, cs) ==
  LET next == IF v = Keeps THEN view ELSE v IN
  /\ view' = next
  /\ cache' = Mount(c, ShownKeys(page, next) \ ShownKeys(page, view))
  /\ form' = Fill(page, f, cache, cache', cs)
  /\ UNCHANGED <<tour, page, visit>>

(* The tab goes to page p: its queries are mounted, its form starts anew.  *)
Go(p, c, cs) ==
  /\ page' = p /\ view' = Main /\ visit' = visit + 1
  /\ cache' = Mount(c, ShownKeys(p, Main))
  /\ form' = Fill(p, Unfilled, c, cache', cs)
  /\ UNCHANGED tour

-----------------------------------------------------------------------------
(* Requests that write.  base: what the request writes back; was: the data *)
(* before the guess; got: the answer on its way; late: an own edit in what *)
(* it holds was answered meanwhile; keeps: own edits that were answered    *)
(* and stored when it was sent and that a sound form has (both histories). *)

Pending(by) == \E c \in calls : c.visit = visit /\ c.offer.by = by

Call(o, m, e) ==
  [offer |-> o, m |-> m, edit |-> e, visit |-> visit, latest |-> TRUE,
   base |-> On(m.on, form.holds), was |-> {}, got |-> {}, stage |-> "asked",
   late |-> FALSE,
   keeps |-> IF form.sound THEN On(Pages[page].form.fills, answered \cap server) ELSE {}]

(* A newer mutate of the same hook drops the callbacks of the older one.   *)
Superseded(cs, by) ==
  {[c EXCEPT !.latest = @ /\ ~(c.visit = visit /\ c.offer.by = by)] : c \in cs}

(* The user presses a button, after editing the form if it saves one.      *)
Click(o) ==
  /\ o.at = view
  /\ \A k \in Pages[page].needs : Has(cache, k)
  /\ o.again \/ ~Pending(o.by)
  /\ o.does.guesses # <<>> => Has(cache, o.does.guesses)
  /\ edits < MaxEdits
  /\ \E r \in o.does.on :
       LET m == o.does
           e == Edit(edits + 1, r)
           k == m.guesses
           c == [Call(o, m, e) EXCEPT !.was = IF k = <<>> THEN {} ELSE cache[k].data]
           v == IF o.now = Keeps THEN view ELSE o.now
           cached == IF k = <<>> THEN cache ELSE [cache EXCEPT ![k] = Guess(@, e)]
       IN /\ calls' = Superseded(calls, o.by) \cup {c}
          /\ cache' = Mount(cached, ShownKeys(page, v) \ ShownKeys(page, view))
          /\ view' = v
          /\ form' = IF m.kind = "whole" THEN [form EXCEPT !.holds = @ \cup {e}]
                     ELSE form
  /\ edits' = edits + 1
  /\ UNCHANGED <<tour, page, visit, server, jobs, faults, focus, answered>>

(* What the answer holds, as far as somebody uses it.                      *)
Answer(c) == (IF c.m.puts = <<>> THEN {} ELSE Reads[c.m.puts])
               \cup (IF c.offer.fills THEN c.m.on ELSE {})

(* The request takes effect, or is left to the background.                 *)
Serve(c) ==
  /\ c.stage = "asked"
  /\ server' = CASE c.m.kind = "adds"  -> server \cup {c.edit}
                 [] c.m.kind = "whole" -> (server \ On(c.m.on, server))
                                            \cup c.base \cup {c.edit}
                 [] c.m.kind = "later" -> server
  /\ jobs' = IF c.m.kind = "later" THEN jobs \cup {c.edit} ELSE jobs
  /\ calls' = (calls \ {c}) \cup
       {[c EXCEPT !.stage = "done", !.got = On(Answer(c), server')]}
  /\ UNCHANGED <<place, cache, form, bounds, answered>>

Work(e) ==
  /\ server' = server \cup {e} /\ jobs' = jobs \ {e}
  /\ UNCHANGED <<place, cache, form, calls, bounds, answered>>

(* What the hook does to the cache, whatever page is shown by then.        *)

(* As if a key were reloaded only when it is named in full.                *)
RefreshedInFull(c, m) ==
  [k \in DOMAIN c |->
     IF k \in ShownKeys(page, view) \cap m.refresh THEN Refresh(c[k]) ELSE c[k]]
Refreshed(c, m) ==
  [k \in DOMAIN c |->
     IF k \in ShownKeys(page, view) /\ Reloads(m, k) THEN Refresh(c[k]) ELSE c[k]]

Remade(c, m) ==
  IF m.makes = <<>> THEN c
  ELSE Mount([k \in DOMAIN c \ {m.makes} |-> c[k]],
             {m.makes} \cap ShownKeys(page, view))

(* As if the answer did not take the place of a row that is there.         *)
StoredUnlessHeld(c, call) ==
  LET k == call.m.puts IN
  IF k = <<>> \/ Has(c, k) THEN c
  ELSE (k :> Put(Slot(c, k), call.got, call.late)) @@ c
Stored(c, call) ==
  [k \in DOMAIN c \cup ({call.m.puts} \ {<<>>}) |->
     IF k = call.m.puts THEN Put(Slot(c, k), call.got, call.late) ELSE c[k]]

Answered(c, call) ==
  LET m == call.m
      next == Refreshed(Stored(Remade(c, m), call), m)
      about(k) == call.edit.on \in Reads[k]
  IN  [k \in DOMAIN next |->
         Noted(next[k], about(k), about(k) /\ call.visit # visit /\ ~Touches(m, k),
               about(k) /\ m.puts # k)]

Failed(c, call) ==
  LET m == call.m
      undone == IF m.guesses = <<>> THEN c
                ELSE [c EXCEPT ![m.guesses] = Undo(@, call.was)]
      next == IF m.settled THEN Refreshed(undone, m) ELSE undone
      about(k) == call.stage = "done" /\ call.edit.on \in Reads[k]
  IN  [k \in DOMAIN next |-> Noted(next[k], about(k), about(k), about(k))]

(* The other answers on their way once a request has taken effect.         *)
Overtaken(cs, call) ==
  {[c EXCEPT !.late = @ \/ (c.stage = "done" /\ call.edit.on \in Answer(c))] : c \in cs}

(* The answer arrives.  The callbacks given to mutate run only while the   *)
(* page is still mounted.                                                  *)
Succeed(c) ==
  /\ c.stage = "done"
  /\ LET cached == Answered(cache, c)
         rest   == Overtaken(calls \ {c}, c)
         here   == c.visit = visit /\ c.latest
         filled == IF here /\ c.offer.fills
                   THEN Filled(Pages[page].form, c.got, c.late, rest) ELSE form
     IN /\ \/ calls' = rest /\ edits' = edits
           \/ \E m \in c.offer.chains : \E r \in m.on :
                /\ here /\ edits < MaxEdits
                /\ calls' = rest \cup {Call(c.offer, m, Edit(edits + 1, r))}
                /\ edits' = edits + 1
        /\ IF here /\ c.offer.leave # Keeps THEN Go(c.offer.leave, cached, calls')
           ELSE Turn(IF here THEN c.offer.shift ELSE Keeps, cached, filled, calls')
  /\ answered' = IF c.m.kind = "later" THEN answered ELSE answered \cup {c.edit}
  /\ UNCHANGED <<server, jobs, faults, focus>>

(* The request fails before or after it took effect: onError undoes the    *)
(* guess, onSettled refreshes.                                             *)
Fail(c) ==
  /\ faults < MaxFaults
  /\ calls' = IF c.stage = "done" THEN Overtaken(calls \ {c}, c) ELSE calls \ {c}
  /\ Turn(IF c.visit = visit /\ c.latest THEN c.offer.errs ELSE Keeps,
          Failed(cache, c), form, calls')
  /\ faults' = faults + 1
  /\ UNCHANGED <<server, jobs, edits, focus, answered>>

-----------------------------------------------------------------------------
(* Loads.                                                                  *)

Read(k) ==
  /\ cache[k].load = "asked"
  /\ cache' = [cache EXCEPT ![k].load = "read", ![k].got = On(Reads[k], server)]
  /\ UNCHANGED <<place, server, jobs, form, calls, bounds, answered>>

Load(k) ==
  /\ cache[k].load = "read"
  /\ cache' = [cache EXCEPT ![k] = Loaded(@)]
  /\ form' = Fill(page, form, cache, cache', calls)
  /\ UNCHANGED <<place, server, jobs, calls, bounds, answered>>

(* After its retries a load fails; what was cached stays.                  *)
LoadFails(k) ==
  /\ cache[k].load # "none" /\ faults < MaxFaults
  /\ cache' = [cache EXCEPT ![k].load = "none", ![k].got = {}, ![k].late = FALSE,
                            ![k].failed = TRUE]
  /\ faults' = faults + 1
  /\ UNCHANGED <<place, server, jobs, form, calls, edits, focus, answered>>

Focus ==
  /\ focus < MaxFocus
  /\ cache' = Mount(cache, ShownKeys(page, view))
  /\ focus' = focus + 1
  /\ UNCHANGED <<place, server, jobs, form, calls, edits, faults, answered>>

-----------------------------------------------------------------------------
(* The user opens or closes a view, or follows a link.                     *)

TurnTo(m) ==
  /\ m.from = view
  /\ m.by # Keeps => ~Pending(m.by)
  /\ Turn(m.to, cache, form, calls)
  /\ UNCHANGED <<server, jobs, calls, bounds, answered>>

Follow(p) ==
  /\ visit < Len(tour) /\ p = tour[visit + 1]
  /\ Go(p, cache, calls)
  /\ UNCHANGED <<server, jobs, calls, bounds, answered>>

TabInit ==
  /\ tour \in Tours
  /\ page = tour[1] /\ view = Main /\ visit = 1
  /\ server = {} /\ jobs = {} /\ calls = {} /\ answered = {}
  /\ cache = Mount(<<>>, ShownKeys(page, Main))
  /\ form = Unfilled
  /\ edits = 0 /\ faults = 0 /\ focus = 0

TabNext ==
  \/ \E o \in Pages[page].offers : Click(o)
  \/ \E c \in calls : Serve(c) \/ Succeed(c) \/ Fail(c)
  \/ \E e \in jobs : Work(e)
  \/ \E k \in DOMAIN cache : Read(k) \/ Load(k) \/ LoadFails(k)
  \/ Focus
  \/ \E m \in Pages[page].moves : TurnTo(m)
  \/ \E p \in Pages[page].links \ {page} : Follow(p)

TabSpec == TabInit /\ [][TabNext]_tabVars

-----------------------------------------------------------------------------
(* The types of the variables.                                             *)
SlotState ==
  [has : BOOLEAN, data : SUBSET Edits, load : {"none", "asked", "read"},
   got : SUBSET Edits, failed : BOOLEAN, late : BOOLEAN, stale : BOOLEAN, old : BOOLEAN]
CallState ==
  [offer : Offers, m : Mutations, edit : Edits, visit : Nat, latest : BOOLEAN,
   base : SUBSET Edits, was : SUBSET Edits, got : SUBSET Edits,
   stage : {"asked", "done"}, late : BOOLEAN, keeps : SUBSET Edits]
TabTypeOK ==
  /\ tour \in Tours /\ page \in Routes /\ visit \in Nat
  /\ server \subseteq Edits /\ jobs \subseteq Edits /\ answered \subseteq Edits
  /\ DOMAIN cache \subseteq Keys /\ cache \in [DOMAIN cache -> SlotState]
  /\ form \in [filled : BOOLEAN, holds : SUBSET Edits, sound : BOOLEAN]
  /\ calls \subseteq CallState
  /\ edits \in Nat /\ faults \in Nat /\ focus \in Nat

(* What is shown, once nothing is under way: unless the last load of a     *)
(* query failed, or its answer was already on its way when an own request  *)
(* was answered, or one failed after it had taken effect, the data have    *)
(* every own edit that was answered with success and is still stored, and  *)
(* no guess of a request that failed.                                      *)
ReadsItsOwnWrites ==
  \A k \in ShownKeys(page, view) :
    LET slot == Slot(cache, k) IN
    (/\ slot.load = "none" /\ ~slot.failed /\ ~slot.stale
     /\ \A c \in calls : c.edit.on \notin Reads[k])
    => /\ slot.has
       /\ On(Reads[k], answered \cap server) \subseteq slot.data
       /\ slot.data \subseteq server \cup answered

(* A save never takes back what this user had been answered as saved, and  *)
(* was stored, when the save was sent, unless its form was filled from     *)
(* data another save was answered after, or with that save in flight, or   *)
(* does not take the stored values at all.                                 *)
SaveKeepsOwnWrites ==
  [][\A e \in server : e \notin server' =>
       \E c \in calls \ calls' : e.on \in c.m.on /\ e \notin c.keeps]_tabVars
=============================================================================
