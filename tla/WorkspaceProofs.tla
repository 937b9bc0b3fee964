-------------------------- MODULE WorkspaceProofs --------------------------
(***************************************************************************)
(* Theorems about WebClient, for every number of edits, faults and reloads *)
(* and every tour over the pages, and about Tenancy, for every set of      *)
(* workspaces, users, tickets and requests and any number of failing       *)
(* calls.  The two have nothing in common; names that start with Tab are   *)
(* of WebClient.                                                           *)
(***************************************************************************)
EXTENDS Tenancy, WebClient, FiniteSetTheorems, TLAPS

(* The web client.  The inductive invariant says who makes up for an edit  *)
(* that data do not know of, or know too early: whoever holds data has all *)
(* own edits that were answered and are stored, and none but those that    *)
(* are stored or were answered, unless another request about the same row  *)
(* is still on its way; it will mark, put or reload the data when it       *)
(* arrives.  A form that was filled from such data, and all that is sent   *)
(* from it, has those edits too.                                           *)
(* Somebody's answer is on its way about the row of e; so is another one   *)
(* than that of d; a guess is being checked.                               *)
UnderWay(e) == \E c \in calls : c.stage = "done" /\ e.on \in c.m.on
UnderWayBut(d, e) ==
  \E c \in calls : c.stage = "done" /\ e.on \in c.m.on /\ c.edit # d.edit
Guessed(k) == \E c \in calls : c.m.guesses = k

(* Data that know of e.                                                    *)
Agrees(e, data) ==
  /\ e \in answered \cap server => e \in data
  /\ e \in data => e \in server \cup answered

EditInv ==
  /\ \A c \in calls :
       /\ c.edit.on \in c.m.on /\ c.edit.n <= edits /\ c.edit \notin answered
       /\ c.m.kind # "later" => c.edit \notin jobs
       /\ \A e \in c.base : e.on \in c.m.on
  /\ \A c, d \in calls : c.edit = d.edit => c = d
  /\ \A e \in answered \cup jobs : e.n <= edits
  /\ answered \cap jobs = {}

VisitInv ==
  \A c \in calls :
    /\ c.m \in Sends(c.offer) /\ c.visit <= visit
    /\ c.visit = visit => c.offer \in Pages[page].offers /\ (c.offer.fills => c.latest)

(* What a slot holds.                                                      *)
Unguessed(k) == \A m \in Mutations : m.guesses # k
About(k, es) == \A e \in es : e.on \in Reads[k]
GotInv(k, s) ==
  s.load = "read" /\ ~s.late =>
    \A e \in Edits : e.on \in Reads[k] => Agrees(e, s.got) \/ UnderWay(e)
DataInv(k, s) ==
  s.has /\ ~s.old /\ Unguessed(k) =>
    \A e \in answered \cap server : e.on \in Reads[k] => e \in s.data \/ UnderWay(e)
Present(s) == s.has \/ s.load # "none" \/ s.failed
SlotInv ==
  \A k \in DOMAIN cache :
    /\ Present(cache[k]) /\ About(k, cache[k].data) /\ About(k, cache[k].got)
    /\ GotInv(k, cache[k]) /\ DataInv(k, cache[k])

(* What is shown.                                                          *)
Rests(s) == s.load = "none" /\ ~s.failed /\ ~s.stale
RestInv(k, s) ==
  Rests(s) => \A e \in Edits : e.on \in Reads[k] =>
                Agrees(e, s.data) \/ UnderWay(e) \/ Guessed(k)
ShownInv ==
  \A k \in ShownKeys(page, view) : k \in DOMAIN cache /\ RestInv(k, cache[k])

(* What an answer on its way holds.                                        *)
AnswerInv ==
  \A c \in calls : c.stage = "done" =>
    /\ \A e \in c.got : e.on \in Answer(c)
    /\ c.edit.on \in Answer(c) => c.edit \in c.got
    /\ ~c.late => \A e \in Edits : e.on \in Answer(c) =>
                    Agrees(e, c.got) \/ UnderWayBut(c, e)
WasInv ==
  \A c \in calls : c.m.guesses # <<>> => About(c.m.guesses, c.was)

(* What a form has, filled on page p when the requests cs are in flight,   *)
(* ans are answered and srv is stored.                                     *)
FormGood(f, p, v, cs, ans, srv) ==
  LET fills == Pages[p].form.fills IN
  f.sound =>
    /\ \A e \in ans \cap srv : e.on \in fills => e \in f.holds
    /\ \A c \in cs : c.m.on \cap fills # {} =>
         /\ c.visit = v
         /\ c.m.kind = "whole" =>
              /\ c.edit \in f.holds
              /\ \A e \in c.base : e.on \in fills => e \in f.holds
FormInv == FormGood(form, page, visit, calls, answered, server)

KeepInv ==
  \A c \in calls : \A e \in c.keeps :
    c.m.kind = "whole" /\ e.on \in c.m.on => e \in c.base

-----------------------------------------------------------------------------
(* What the pages, their offers and the hooks have in common, in the words *)
(* of the proofs.                                                          *)
LEMMA OfferFacts ==
  /\ \A o \in Offers : \A m \in Sends(o) : m \in Mutations
  /\ \A r \in Routes : \A o \in Pages[r].offers : o \in Offers
  /\ \A r \in Routes : \A v : ShownKeys(r, v) \subseteq Keys
  /\ \A r \in Routes : Pages[r].links \subseteq Routes
  /\ \A r \in Routes : \A o \in Pages[r].offers : o.leave # Keeps => o.leave \in Routes
<1>1. \A o \in Offers : \A m \in Sends(o) : m \in Mutations
  BY DEF Mutations
<1>2. \A r \in Routes : \A o \in Pages[r].offers : o \in Offers
  BY DEF Offers
<1>3. \A r \in Routes : \A v : ShownKeys(r, v) \subseteq Keys
  BY DEF ShownKeys, Keys, Queries
<1> QED
  BY <1>1, <1>2, <1>3, PagesAssumption

LEMMA MutationFacts ==
  ASSUME NEW m \in Mutations
  PROVE  /\ m.kind \in {"adds", "whole", "later"}
         /\ \A k \in Keys : m.on \cap Reads[k] # {} => m.on \subseteq Reads[k]
         /\ m.puts # <<>> =>
              /\ m.puts \in Keys /\ m.puts # m.makes /\ m.on \subseteq Reads[m.puts]
              /\ m.kind # "later"
         /\ m.guesses # <<>> =>
              /\ m.guesses \in Keys /\ m.on = Reads[m.guesses]
              /\ m.settled /\ Reloads(m, m.guesses)
         /\ \A r \in m.on : \A n \in Nat : Edit(n, r) \in Edits
  BY HooksAssumption DEF Edit, Edits

LEMMA PageFacts ==
  ASSUME NEW r \in Routes
  PROVE  /\ Pages[r].form.when # "never" =>
              /\ Pages[r].form.of \in Keys
              /\ Pages[r].form.fills \subseteq Reads[Pages[r].form.of]
              /\ Unguessed(Pages[r].form.of)
         /\ \A o \in Pages[r].offers : \A m \in Sends(o) :
              /\ \A v : \A k \in ShownKeys(r, v) :
                   m.on \cap Reads[k] # {} => Touches(m, k) \/ m.makes = k
              /\ m.on \cap Pages[r].form.fills # {} => m.kind = "whole" \/ o.fills
         /\ \A o \in Pages[r].offers : \A m \in o.chains : m.on \cap Pages[r].form.fills = {}
         /\ \A o \in Pages[r].offers : o.fills =>
              /\ Pages[r].form.when # "never" /\ o.does.on = Pages[r].form.fills
              /\ o.does.kind = "adds" /\ o.chains = {} /\ o.does.puts = <<>>
              /\ \A m \in Mutations : m.on \cap Pages[r].form.fills # {} =>
                   m.on \subseteq Pages[r].form.fills
              /\ \A x \in Pages[r].offers : x.by = o.by => ~x.again
<1>1. \A o \in Pages[r].offers : \A m \in Sends(o) : \A v : \A k \in ShownKeys(r, v) :
        m.on \cap Reads[k] # {} => Touches(m, k) \/ m.makes = k
  BY OffersAssumption DEF ShownKeys
<1>2. \A o \in Pages[r].offers : \A m \in o.chains : m.on \cap Pages[r].form.fills = {}
  BY OffersAssumption DEF Sends
<1> QED
  BY <1>1, <1>2, OffersAssumption DEF Unguessed

-----------------------------------------------------------------------------
(* Slots.                                                                  *)
LEMMA SlotFields ==
  ASSUME NEW s \in SlotState
  PROVE  /\ s.has \in BOOLEAN /\ s.data \subseteq Edits
         /\ s.load \in {"none", "asked", "read"} /\ s.got \subseteq Edits
         /\ s.failed \in BOOLEAN /\ s.late \in BOOLEAN /\ s.stale \in BOOLEAN
         /\ s.old \in BOOLEAN
  BY DEF SlotState

LEMMA EmptySlot ==
  /\ Empty \in SlotState /\ ~Empty.has /\ Empty.data = {} /\ Empty.load = "none"
  /\ Empty.got = {} /\ ~Empty.failed /\ ~Empty.late /\ ~Empty.stale /\ ~Empty.old
  BY DEF Empty, SlotState

(* Edits of a slot.                                                        *)
LEMMA AskingSlot ==
  ASSUME NEW s \in SlotState
  PROVE  /\ Asking(s) \in SlotState /\ Asking(s).load = "asked" /\ Asking(s).got = {}
         /\ Asking(s).has = s.has /\ Asking(s).data = s.data
         /\ Asking(s).failed = s.failed /\ Asking(s).stale = s.stale
         /\ Asking(s).old = s.old
  BY DEF Asking, SlotState

LEMMA PutSlot ==
  ASSUME NEW s \in SlotState, NEW d \in SUBSET Edits, NEW late \in BOOLEAN
  PROVE  LET t == Put(s, d, late) IN
         /\ t \in SlotState /\ t.has = TRUE /\ t.data = d /\ t.load = s.load
         /\ t.got = s.got /\ t.failed = FALSE /\ t.late = s.late
         /\ t.stale = late /\ t.old = late
  BY DEF Put, SlotState

LEMMA GuessSlot ==
  ASSUME NEW s \in SlotState, NEW e \in Edits
  PROVE  LET t == Guess(s, e) IN
         /\ t \in SlotState /\ t.has = TRUE /\ t.data = s.data \cup {e}
         /\ t.load = "none" /\ t.got = {} /\ t.failed = FALSE
  BY DEF Guess, SlotState

LEMMA UndoSlot ==
  ASSUME NEW s \in SlotState, NEW was \in SUBSET Edits
  PROVE  LET t == Undo(s, was) IN
         /\ t \in SlotState /\ t.has = TRUE /\ t.data = was /\ t.load = s.load
         /\ t.got = s.got /\ t.late = s.late
  BY DEF Undo, SlotState

LEMMA LoadedSlot ==
  ASSUME NEW s \in SlotState
  PROVE  LET t == Loaded(s) IN
         /\ t \in SlotState /\ t.has = TRUE /\ t.data = s.got /\ t.load = "none"
         /\ t.got = {} /\ t.failed = FALSE /\ t.stale = s.late /\ t.old = s.late
  BY DEF Loaded, Put, SlotState

LEMMA NotedSlot ==
  ASSUME NEW s \in SlotState, NEW late \in BOOLEAN, NEW stale \in BOOLEAN,
         NEW old \in BOOLEAN
  PROVE  LET t == Noted(s, late, stale, old) IN
         /\ t \in SlotState /\ t.has = s.has /\ t.data = s.data /\ t.load = s.load
         /\ t.got = s.got /\ t.failed = s.failed
         /\ t.late = (s.late \/ (late /\ s.load = "read"))
         /\ t.stale = (s.stale \/ stale) /\ t.old = (s.old \/ old)
  BY DEF Noted, SlotState

LEMMA CallFields ==
  ASSUME NEW c \in CallState
  PROVE  /\ c.offer \in Offers /\ c.m \in Mutations /\ c.edit \in Edits
         /\ c.visit \in Nat /\ c.latest \in BOOLEAN /\ c.base \subseteq Edits
         /\ c.was \subseteq Edits /\ c.got \subseteq Edits
         /\ c.stage \in {"asked", "done"} /\ c.late \in BOOLEAN
         /\ c.keeps \subseteq Edits
  BY DEF CallState

LEMMA FetchSlot ==
  ASSUME NEW s \in SlotState
  PROVE  LET t == Fetch(s) IN
         /\ t \in SlotState /\ t.load # "none" /\ t.has = s.has /\ t.data = s.data
         /\ t.failed = s.failed /\ t.stale = s.stale /\ t.old = s.old
         /\ \/ t = s
            \/ t.load = "asked" /\ t.got = {}
  BY AskingSlot DEF Fetch

LEMMA RefreshSlot ==
  ASSUME NEW s \in SlotState
  PROVE  LET t == Refresh(s) IN
         /\ t \in SlotState /\ t.load # "none" /\ t.has = s.has /\ t.data = s.data
         /\ t.failed = s.failed /\ t.stale = s.stale /\ t.old = s.old
         /\ \/ t = s
            \/ t.load = "asked" /\ t.got = {}
  BY AskingSlot DEF Refresh

-----------------------------------------------------------------------------
(* Caches.                                                                 *)
LEMMA SlotTyped ==
  ASSUME NEW c, \A k \in DOMAIN c : c[k] \in SlotState, NEW k
  PROVE  /\ Slot(c, k) \in SlotState
         /\ k \in DOMAIN c => Slot(c, k) = c[k]
         /\ k \notin DOMAIN c => Slot(c, k) = Empty
  BY EmptySlot DEF Slot

LEMMA MountSlots ==
  ASSUME NEW c, \A k \in DOMAIN c : c[k] \in SlotState, NEW ks
  PROVE  /\ DOMAIN Mount(c, ks) = DOMAIN c \cup ks
         /\ \A k \in ks : Mount(c, ks)[k] = Fetch(Slot(c, k))
         /\ \A k \in DOMAIN c \ ks : Mount(c, ks)[k] = c[k]
         /\ Mount(c, ks) \in [DOMAIN c \cup ks -> SlotState]
<1>1. \A k \in ks : Fetch(Slot(c, k)) \in SlotState
  BY SlotTyped, FetchSlot
<1> QED
  BY <1>1 DEF Mount

LEMMA RefreshedSlots ==
  ASSUME NEW c, \A k \in DOMAIN c : c[k] \in SlotState, NEW m
  PROVE  LET n == Refreshed(c, m) IN
         /\ DOMAIN n = DOMAIN c
         /\ \A k \in DOMAIN c : n[k] \in SlotState
         /\ \A k \in DOMAIN c : n[k] = c[k] \/ n[k] = Refresh(c[k])
         /\ \A k \in DOMAIN c \cap ShownKeys(page, view) :
              Reloads(m, k) => n[k] = Refresh(c[k])
  BY RefreshSlot DEF Refreshed

LEMMA RemadeSlots ==
  ASSUME NEW c, \A k \in DOMAIN c : c[k] \in SlotState, DOMAIN c \subseteq Keys,
         NEW m, page \in Routes
  PROVE  LET n == Remade(c, m) IN
         /\ DOMAIN n \subseteq Keys
         /\ \A k \in Keys : k # m.makes => (k \in DOMAIN n <=> k \in DOMAIN c)
         /\ \A k \in DOMAIN n : k # m.makes => n[k] = c[k]
         /\ m.makes \in Keys \cap ShownKeys(page, view) => m.makes \in DOMAIN n
         /\ m.makes \in DOMAIN n => n[m.makes] = Fetch(Empty)
         /\ \A k \in DOMAIN n : n[k] \in SlotState
<1>1. ShownKeys(page, view) \subseteq Keys /\ <<>> \notin Keys
  BY OfferFacts, HooksAssumption
<1>2. CASE m.makes = <<>>
  BY <1>1, <1>2 DEF Remade
<1>3. CASE m.makes # <<>>
  <2> DEFINE d == [k \in DOMAIN c \ {m.makes} |-> c[k]]
             ks == {m.makes} \cap ShownKeys(page, view)
  <2>1. DOMAIN d = DOMAIN c \ {m.makes} /\ \A k \in DOMAIN d : d[k] = c[k]
    OBVIOUS
  <2>2. Remade(c, m) = Mount(d, ks)
    BY <1>3 DEF Remade
  <2>3. Slot(d, m.makes) = Empty
    BY <2>1 DEF Slot
  <2>4. Fetch(Empty) \in SlotState
    BY EmptySlot, FetchSlot
  <2>5. \A k \in DOMAIN d : d[k] \in SlotState
    BY <2>1
  <2> HIDE DEF d
  <2>6. /\ DOMAIN Mount(d, ks) = DOMAIN d \cup ks
        /\ \A k \in ks : Mount(d, ks)[k] = Fetch(Slot(d, k))
        /\ \A k \in DOMAIN d \ ks : Mount(d, ks)[k] = d[k]
    BY <2>5, MountSlots
  <2> QED
    BY <1>1, <2>1, <2>2, <2>3, <2>4, <2>6
<1> QED
  BY <1>2, <1>3

LEMMA StoredSlots ==
  ASSUME NEW c, \A k \in DOMAIN c : c[k] \in SlotState, DOMAIN c \subseteq Keys,
         NEW call \in CallState
  PROVE  LET n == Stored(c, call) IN
         /\ DOMAIN c \subseteq DOMAIN n /\ DOMAIN n \subseteq Keys
         /\ \A k \in DOMAIN n : k # call.m.puts => k \in DOMAIN c /\ n[k] = c[k]
         /\ call.m.puts \in Keys =>
              /\ call.m.puts \in DOMAIN n
              /\ n[call.m.puts] = Put(Slot(c, call.m.puts), call.got, call.late)
         /\ \A k \in DOMAIN n : n[k] \in SlotState
<1>1. call.m.puts \in Keys \cup {<<>>} /\ <<>> \notin Keys
  BY CallFields, MutationFacts, HooksAssumption
<1>2. Put(Slot(c, call.m.puts), call.got, call.late) \in SlotState
  BY SlotTyped, PutSlot, CallFields
<1> QED
  BY <1>1, <1>2 DEF Stored

-----------------------------------------------------------------------------
(* What a step makes of a slot.  closed: the resources whose request       *)
(* ends with this step; c: the request.                                    *)
LoadForm(k, s, t, closed) ==
  /\ \/ t.load = s.load /\ t.got = s.got /\ (s.late => t.late)
     \/ t.load # "read" /\ t.got = {}
  /\ closed \cap Reads[k] # {} /\ t.load = "read" => t.late
DataForm(k, s, t, closed) ==
  \/ /\ t.has = s.has /\ t.data = s.data /\ (s.old => t.old)
     /\ closed \cap Reads[k] # {} => t.old
  \/ ~t.has /\ t.data = {}
PutForm(k, t, c) ==
  c.m.puts = k /\ t.has /\ t.data = c.got /\ (c.late => t.old /\ t.stale)
GuessForm(k, t) == ~Unguessed(k) /\ t.has /\ About(k, t.data)

(* A slot that is shown before and after.                                  *)
ShownForm(k, s, t, closed) ==
  \/ t.load # "none" \/ t.failed
  \/ /\ t.data = s.data /\ (Rests(t) => Rests(s))
     /\ closed \cap Reads[k] # {} => t.stale

LEMMA AnsweredForms ==
  ASSUME TabTypeOK, SlotInv, VisitInv, NEW c \in calls, c.edit.on \in c.m.on
  PROVE  LET a == Answered(cache, c) IN
         /\ DOMAIN a \subseteq Keys
         /\ DOMAIN cache \ {c.m.makes} \subseteq DOMAIN a
         /\ \A k \in DOMAIN a :
              /\ a[k] \in SlotState /\ Present(a[k])
              /\ LoadForm(k, Slot(cache, k), a[k], c.m.on)
              /\ \/ DataForm(k, Slot(cache, k), a[k], c.m.on)
                 \/ PutForm(k, a[k], c)
         /\ \A k \in ShownKeys(page, view) \cap DOMAIN cache :
              /\ k \in DOMAIN a
              /\ \/ ShownForm(k, cache[k], a[k], c.m.on)
                 \/ PutForm(k, a[k], c)
              /\ c.m.guesses = k => a[k].load # "none" \/ a[k].failed
<1> DEFINE m == c.m
           R == Remade(cache, m)
           S == Stored(R, c)
           F == Refreshed(S, m)
           A == Answered(cache, c)
           about(k) == c.edit.on \in Reads[k]
           missed(k) == about(k) /\ c.visit # visit /\ ~Touches(m, k)
           unput(k) == about(k) /\ m.puts # k
<1>1. c \in CallState /\ m \in Mutations /\ page \in Routes
  BY CallFields DEF TabTypeOK
<1>2. DOMAIN cache \subseteq Keys /\ \A k \in DOMAIN cache : cache[k] \in SlotState
  BY DEF TabTypeOK
<1>3. /\ DOMAIN R \subseteq Keys
      /\ \A k \in Keys : k # m.makes => (k \in DOMAIN R <=> k \in DOMAIN cache)
      /\ \A k \in DOMAIN R : k # m.makes => R[k] = cache[k]
      /\ m.makes \in Keys \cap ShownKeys(page, view) => m.makes \in DOMAIN R
      /\ m.makes \in DOMAIN R => R[m.makes] = Fetch(Empty)
      /\ \A k \in DOMAIN R : R[k] \in SlotState
  BY <1>1, <1>2, RemadeSlots
<1>4. /\ DOMAIN R \subseteq DOMAIN S /\ DOMAIN S \subseteq Keys
      /\ \A k \in DOMAIN S : k # m.puts => k \in DOMAIN R /\ S[k] = R[k]
      /\ m.puts \in Keys =>
           m.puts \in DOMAIN S /\ S[m.puts] = Put(Slot(R, m.puts), c.got, c.late)
      /\ \A k \in DOMAIN S : S[k] \in SlotState
  BY <1>1, <1>3, StoredSlots
<1>5. /\ DOMAIN F = DOMAIN S
      /\ \A k \in DOMAIN F : F[k] \in SlotState
      /\ \A k \in DOMAIN F : F[k] = S[k] \/ F[k] = Refresh(S[k])
      /\ \A k \in DOMAIN F \cap ShownKeys(page, view) : Reloads(m, k) => F[k] = Refresh(S[k])
  BY <1>4, RefreshedSlots
<1>6. /\ DOMAIN A = DOMAIN F
      /\ \A k \in DOMAIN F : A[k] = Noted(F[k], about(k), missed(k), unput(k))
  BY DEF Answered
<1>7. \A k \in DOMAIN A :
        /\ A[k] \in SlotState /\ A[k].has = F[k].has /\ A[k].data = F[k].data
        /\ A[k].load = F[k].load /\ A[k].got = F[k].got /\ A[k].failed = F[k].failed
        /\ A[k].late = (F[k].late \/ (about(k) /\ F[k].load = "read"))
        /\ A[k].stale = (F[k].stale \/ missed(k)) /\ A[k].old = (F[k].old \/ unput(k))
  <2> TAKE k \in DOMAIN A
  <2>1. /\ F[k] \in SlotState /\ about(k) \in BOOLEAN /\ missed(k) \in BOOLEAN
        /\ unput(k) \in BOOLEAN
    BY <1>5, <1>6
  <2>2. A[k] = Noted(F[k], about(k), missed(k), unput(k))
    BY <1>6
  <2> HIDE DEF F, A, about, missed, unput
  <2> QED
    BY <2>1, <2>2 DEF Noted, SlotState
<1>8. \A k \in Keys : about(k) <=> m.on \cap Reads[k] # {}
  BY <1>1, MutationFacts
<1>9. m.puts # m.makes \/ m.puts \notin Keys
  BY <1>1, MutationFacts, HooksAssumption
<1>10. m.puts \in DOMAIN S => Slot(R, m.puts) = Slot(cache, m.puts)
  BY <1>3, <1>4, <1>9 DEF Slot
<1>11. \A k \in DOMAIN A :
         /\ k = m.puts => S[k] = Put(Slot(cache, k), c.got, c.late)
         /\ k # m.puts /\ k = m.makes => S[k] = Fetch(Empty)
         /\ k # m.puts /\ k # m.makes => k \in DOMAIN cache /\ S[k] = cache[k]
  BY <1>3, <1>4, <1>5, <1>6, <1>10
<1>12. DOMAIN A \subseteq Keys /\ DOMAIN cache \ {m.makes} \subseteq DOMAIN A
  BY <1>2, <1>3, <1>4, <1>5, <1>6
<1> HIDE DEF R, S, F, A, about, missed, unput
<1>13. ASSUME NEW k \in DOMAIN A
       PROVE  /\ A[k] \in SlotState /\ Present(A[k])
              /\ LoadForm(k, Slot(cache, k), A[k], m.on)
              /\ DataForm(k, Slot(cache, k), A[k], m.on) \/ PutForm(k, A[k], c)
              /\ k = m.puts => PutForm(k, A[k], c)
  <2> DEFINE s == Slot(cache, k)
             t == A[k]
  <2>1. s \in SlotState /\ (k \in DOMAIN cache => s = cache[k])
    BY <1>2, SlotTyped
  <2>2. k \in Keys /\ k \in DOMAIN F /\ S[k] \in SlotState
    BY <1>4, <1>5, <1>6, <1>12
  <2>3. c.got \in SUBSET Edits /\ c.late \in BOOLEAN
    BY <1>1, CallFields
  <2>4. CASE k = m.puts
    <3>1. /\ S[k].has = TRUE /\ S[k].data = c.got /\ S[k].load = s.load
          /\ S[k].got = s.got /\ S[k].late = s.late /\ S[k].stale = c.late
          /\ S[k].old = c.late
      <4>1. S[k] = Put(s, c.got, c.late)
        BY <1>11, <2>4
      <4> HIDE DEF s
      <4> QED
        BY <2>1, <2>3, <4>1 DEF Put, SlotState
    <3>2. /\ F[k].has = TRUE /\ F[k].data = c.got /\ F[k].stale = c.late /\ F[k].old = c.late
          /\ \/ F[k].load = s.load /\ F[k].got = s.got /\ F[k].late = s.late
             \/ F[k].load = "asked" /\ F[k].got = {}
      BY <1>5, <2>2, <3>1, RefreshSlot
    <3>3. /\ t \in SlotState /\ t.has = TRUE /\ t.data = c.got /\ t.load = F[k].load
          /\ t.got = F[k].got /\ t.late = (F[k].late \/ (about(k) /\ F[k].load = "read"))
          /\ (c.late => t.stale /\ t.old)
      BY <1>7, <3>2
    <3>4. Present(t) /\ PutForm(k, t, c)
      BY <2>4, <3>3 DEF Present, PutForm
    <3>5. LoadForm(k, s, t, m.on)
      BY <1>8, <2>2, <3>2, <3>3 DEF LoadForm
    <3> QED
      BY <3>3, <3>4, <3>5
  <2>5. CASE k # m.puts /\ k = m.makes
    <3>1. /\ ~S[k].has /\ S[k].data = {} /\ S[k].load # "none" /\ S[k].got = {}
          /\ S[k].load # "read"
      BY <1>11, <2>5, EmptySlot, FetchSlot
    <3>2. /\ ~F[k].has /\ F[k].data = {} /\ F[k].load # "none" /\ F[k].got = {}
          /\ F[k].load # "read"
      BY <1>5, <2>2, <3>1, RefreshSlot
    <3>3. /\ t \in SlotState /\ ~t.has /\ t.data = {} /\ t.load # "none" /\ t.got = {}
          /\ t.load # "read"
      BY <1>7, <3>2
    <3> QED
      BY <2>5, <3>3 DEF Present, LoadForm, DataForm
  <2>6. CASE k # m.puts /\ k # m.makes
    <3>1. k \in DOMAIN cache /\ S[k] = s /\ Present(s)
      BY <1>11, <2>1, <2>6 DEF SlotInv
    <3>2. /\ F[k].has = s.has /\ F[k].data = s.data /\ F[k].old = s.old
          /\ F[k].failed = s.failed
          /\ \/ F[k].load = s.load /\ F[k].got = s.got /\ F[k].late = s.late
             \/ F[k].load = "asked" /\ F[k].got = {}
      BY <1>5, <2>2, <3>1, RefreshSlot
    <3>3. /\ t \in SlotState /\ t.has = s.has /\ t.data = s.data /\ t.load = F[k].load
          /\ t.got = F[k].got /\ t.late = (F[k].late \/ (about(k) /\ F[k].load = "read"))
          /\ t.old = (s.old \/ unput(k)) /\ t.failed = s.failed
      BY <1>7, <3>2
    <3>4. Present(t)
      BY <3>1, <3>2, <3>3 DEF Present
    <3>5. LoadForm(k, s, t, m.on)
      BY <1>8, <2>2, <3>2, <3>3 DEF LoadForm
    <3>6. DataForm(k, s, t, m.on)
      BY <1>8, <2>2, <2>6, <3>3 DEF DataForm, unput
    <3> QED
      BY <2>6, <3>3, <3>4, <3>5, <3>6
  <2> QED
    BY <2>4, <2>5, <2>6
<1>14. ASSUME NEW k \in ShownKeys(page, view) \cap DOMAIN cache
       PROVE  /\ k \in DOMAIN A
              /\ ShownForm(k, cache[k], A[k], m.on) \/ PutForm(k, A[k], c)
              /\ m.guesses = k => A[k].load # "none" \/ A[k].failed
  <2>1. k \in Keys /\ k \in DOMAIN A
    BY <1>2, <1>3, <1>4, <1>5, <1>6
  <2>2. S[k] \in SlotState /\ F[k] \in SlotState /\ A[k].load = F[k].load
    BY <1>4, <1>5, <1>6, <1>7, <2>1
  <2>3. Reloads(m, k) => A[k].load # "none"
    BY <1>5, <1>6, <2>1, <2>2, RefreshSlot
  <2>4. m.guesses = k => Reloads(m, k)
    BY <1>1, <2>1, MutationFacts, HooksAssumption
  <2>5. CASE k = m.puts
    BY <1>13, <2>1, <2>3, <2>4, <2>5
  <2>6. CASE k # m.puts /\ k = m.makes
    <3>1. S[k].load # "none"
      BY <1>11, <2>1, <2>6, EmptySlot, FetchSlot
    <3>2. F[k].load # "none"
      BY <1>5, <1>6, <2>1, <2>2, <3>1, RefreshSlot
    <3> QED
      BY <2>1, <2>2, <3>2 DEF ShownForm
  <2>7. CASE k # m.puts /\ k # m.makes /\ ~Reloads(m, k)
    <3>1. S[k] = cache[k] /\ cache[k] \in SlotState
      BY <1>2, <1>11, <2>1, <2>7
    <3>2. /\ F[k].data = cache[k].data /\ F[k].failed = cache[k].failed
          /\ F[k].stale = cache[k].stale
          /\ F[k].load = cache[k].load \/ F[k].load # "none"
      BY <1>5, <1>6, <2>1, <3>1, RefreshSlot
    <3>3. /\ A[k].data = cache[k].data /\ A[k].failed = cache[k].failed
          /\ A[k].stale = (cache[k].stale \/ missed(k))
          /\ A[k].load = cache[k].load \/ A[k].load # "none"
      BY <1>7, <2>1, <3>2
    <3>4. about(k) => missed(k)
      <4>1. ~Touches(m, k)
        BY <2>7 DEF Touches
      <4>2. ASSUME about(k), c.visit = visit  PROVE FALSE
        <5>1. m \in Sends(c.offer) /\ c.offer \in Pages[page].offers
          BY <4>2 DEF VisitInv
        <5>2. m.on \cap Reads[k] # {}
          BY <1>8, <2>1, <4>2
        <5> QED
          BY <1>1, <2>7, <4>1, <5>1, <5>2, PageFacts
      <4> QED
        BY <4>1, <4>2 DEF missed
    <3> QED
      BY <1>8, <2>1, <2>4, <2>7, <3>3, <3>4 DEF ShownForm, Rests
  <2>8. CASE k # m.puts /\ Reloads(m, k)
    BY <2>1, <2>3, <2>8 DEF ShownForm
  <2> QED
    BY <2>5, <2>6, <2>7, <2>8
<1> QED
  BY <1>12, <1>13, <1>14 DEF A

Closed(c) == IF c.stage = "done" THEN c.m.on ELSE {}

LEMMA FailedForms ==
  ASSUME TabTypeOK, SlotInv, WasInv, NEW c \in calls, c.edit.on \in c.m.on
  PROVE  LET a == Failed(cache, c) IN
         /\ DOMAIN a = DOMAIN cache
         /\ \A k \in DOMAIN a :
              /\ a[k] \in SlotState /\ Present(a[k])
              /\ LoadForm(k, cache[k], a[k], Closed(c))
              /\ DataForm(k, cache[k], a[k], Closed(c)) \/ GuessForm(k, a[k])
         /\ \A k \in ShownKeys(page, view) \cap DOMAIN cache :
              /\ ShownForm(k, cache[k], a[k], Closed(c))
              /\ c.m.guesses = k => a[k].load # "none" \/ a[k].failed
<1> DEFINE m == c.m
           U == IF m.guesses = <<>> THEN cache
                ELSE [cache EXCEPT ![m.guesses] = Undo(@, c.was)]
           F == IF m.settled THEN Refreshed(U, m) ELSE U
           A == Failed(cache, c)
           about(k) == c.stage = "done" /\ c.edit.on \in Reads[k]
<1>1. c \in CallState /\ m \in Mutations /\ page \in Routes /\ c.was \in SUBSET Edits
  BY CallFields DEF TabTypeOK
<1>2. DOMAIN cache \subseteq Keys /\ \A k \in DOMAIN cache : cache[k] \in SlotState
  BY DEF TabTypeOK
<1>3. \A k \in DOMAIN cache : k # <<>>
  BY <1>2, HooksAssumption
<1>4. m.guesses # <<>> => About(m.guesses, c.was)
  BY DEF WasInv
<1>5. /\ DOMAIN U = DOMAIN cache
      /\ \A k \in DOMAIN U : k # m.guesses => U[k] = cache[k]
      /\ \A k \in DOMAIN U : k = m.guesses => U[k] = Undo(cache[k], c.was)
  BY <1>3
<1>6. \A k \in DOMAIN U : U[k] \in SlotState
  BY <1>1, <1>2, <1>5, UndoSlot
<1> HIDE DEF U
<1>7. /\ DOMAIN F = DOMAIN cache
      /\ \A k \in DOMAIN F : F[k] \in SlotState
      /\ \A k \in DOMAIN F : F[k] = U[k] \/ F[k] = Refresh(U[k])
      /\ \A k \in DOMAIN F \cap ShownKeys(page, view) :
           m.settled /\ Reloads(m, k) => F[k] = Refresh(U[k])
  BY <1>5, <1>6, RefreshedSlots
<1>8. /\ DOMAIN A = DOMAIN F
      /\ \A k \in DOMAIN F : A[k] = Noted(F[k], about(k), about(k), about(k))
  BY DEF Failed, U
<1> HIDE DEF F, A
<1>9. \A k \in DOMAIN A :
        /\ A[k] \in SlotState /\ A[k].has = F[k].has /\ A[k].data = F[k].data
        /\ A[k].load = F[k].load /\ A[k].got = F[k].got /\ A[k].failed = F[k].failed
        /\ A[k].late = (F[k].late \/ (about(k) /\ F[k].load = "read"))
        /\ A[k].stale = (F[k].stale \/ about(k)) /\ A[k].old = (F[k].old \/ about(k))
  <2> TAKE k \in DOMAIN A
  <2>1. F[k] \in SlotState /\ about(k) \in BOOLEAN
    BY <1>7, <1>8
  <2>2. A[k] = Noted(F[k], about(k), about(k), about(k))
    BY <1>8
  <2> HIDE DEF about
  <2> QED
    BY <2>1, <2>2 DEF Noted, SlotState
<1>10. \A k \in Keys : about(k) <=> Closed(c) \cap Reads[k] # {}
  BY <1>1, MutationFacts DEF Closed
<1> HIDE DEF about
<1>11. ASSUME NEW k \in DOMAIN A
       PROVE  /\ A[k] \in SlotState /\ Present(A[k])
              /\ LoadForm(k, cache[k], A[k], Closed(c))
              /\ DataForm(k, cache[k], A[k], Closed(c)) \/ GuessForm(k, A[k])
  <2>1. /\ k \in Keys /\ k \in DOMAIN F /\ k \in DOMAIN U /\ U[k] \in SlotState
        /\ k \in DOMAIN cache /\ cache[k] \in SlotState /\ Present(cache[k])
    BY <1>2, <1>5, <1>6, <1>7, <1>8 DEF SlotInv
  <2>2. /\ U[k].load = cache[k].load /\ U[k].got = cache[k].got /\ U[k].late = cache[k].late
        /\ \/ k # m.guesses /\ U[k] = cache[k]
           \/ k = m.guesses /\ U[k].has /\ U[k].data = c.was
    <3>1. CASE k = m.guesses
      <4>1. U[k] = Undo(cache[k], c.was)
        BY <1>5, <2>1, <3>1
      <4> QED
        BY <1>1, <2>1, <3>1, <4>1 DEF Undo, SlotState
    <3>2. CASE k # m.guesses
      BY <1>5, <2>1, <3>2
    <3> QED
      BY <3>1, <3>2
  <2>3. /\ F[k].has = U[k].has /\ F[k].data = U[k].data /\ F[k].old = U[k].old
        /\ F[k].failed = U[k].failed
        /\ \/ F[k].load = U[k].load /\ F[k].got = U[k].got /\ F[k].late = U[k].late
           \/ F[k].load = "asked" /\ F[k].got = {}
    BY <1>7, <2>1, RefreshSlot
  <2>4. /\ A[k] \in SlotState /\ A[k].has = F[k].has /\ A[k].data = F[k].data
        /\ A[k].load = F[k].load /\ A[k].got = F[k].got /\ A[k].failed = F[k].failed
        /\ A[k].late = (F[k].late \/ (about(k) /\ F[k].load = "read"))
        /\ A[k].old = (F[k].old \/ about(k))
    BY <1>9
  <2>5. Present(A[k])
    BY <2>1, <2>2, <2>3, <2>4 DEF Present
  <2>6. LoadForm(k, cache[k], A[k], Closed(c))
    BY <1>10, <2>1, <2>2, <2>3, <2>4 DEF LoadForm
  <2>7. CASE k # m.guesses
    <3>1. DataForm(k, cache[k], A[k], Closed(c))
      BY <1>10, <2>1, <2>2, <2>3, <2>4, <2>7 DEF DataForm
    <3> QED
      BY <2>4, <2>5, <2>6, <3>1
  <2>8. CASE k = m.guesses
    <3>1. GuessForm(k, A[k])
      BY <1>1, <1>3, <1>4, <2>1, <2>2, <2>3, <2>4, <2>8 DEF GuessForm, Unguessed
    <3> QED
      BY <2>4, <2>5, <2>6, <3>1
  <2> QED
    BY <2>7, <2>8
<1>12. ASSUME NEW k \in ShownKeys(page, view) \cap DOMAIN cache
       PROVE  /\ ShownForm(k, cache[k], A[k], Closed(c))
              /\ c.m.guesses = k => A[k].load # "none" \/ A[k].failed
  <2>1. /\ k \in Keys /\ k \in DOMAIN F /\ k \in DOMAIN A /\ k \in DOMAIN U
        /\ U[k] \in SlotState
        /\ cache[k] \in SlotState
    BY <1>2, <1>5, <1>6, <1>7, <1>8
  <2>2. CASE k = m.guesses
    <3>1. F[k] = Refresh(U[k])
      BY <1>1, <1>3, <1>7, <2>1, <2>2, MutationFacts
    <3>2. A[k].load # "none"
      BY <1>9, <2>1, <3>1, RefreshSlot
    <3> QED
      BY <3>2 DEF ShownForm
  <2>3. CASE k # m.guesses
    <3>1. U[k] = cache[k]
      BY <1>5, <2>1, <2>3
    <3>2. /\ F[k].data = cache[k].data /\ F[k].failed = cache[k].failed
          /\ F[k].stale = cache[k].stale
          /\ F[k].load = cache[k].load \/ F[k].load # "none"
      BY <1>7, <2>1, <3>1, RefreshSlot
    <3>3. /\ A[k].data = cache[k].data /\ A[k].failed = cache[k].failed
          /\ A[k].stale = (cache[k].stale \/ about(k))
          /\ A[k].load = cache[k].load \/ A[k].load # "none"
      BY <1>9, <2>1, <3>2
    <3> QED
      BY <1>10, <2>1, <2>3, <3>3 DEF ShownForm, Rests
  <2> QED
    BY <2>2, <2>3
<1> QED
  BY <1>7, <1>8, <1>11, <1>12 DEF A

-----------------------------------------------------------------------------
(* Requests.  d is what became of c in a step.                             *)
Image(c, d) ==
  /\ d.offer = c.offer /\ d.m = c.m /\ d.edit = c.edit /\ d.visit = c.visit
  /\ d.base = c.base /\ d.was = c.was /\ d.got = c.got /\ d.stage = c.stage
  /\ d.keeps = c.keeps /\ (c.late => d.late)
(* What became of the requests, of which one is gone and one is new; those *)
(* closed are answered, or failed, about these resources.                  *)
CallsMove(gone, new, closed) ==
  /\ \A c \in calls : c # gone => \E d \in calls' : Image(c, d)
  /\ \A d \in calls' : d # new =>
       \E c \in calls :
         /\ c # gone /\ Image(c, d)
         /\ c.stage = "done" /\ closed \cap Answer(c) # {} => d.late
  /\ calls' \subseteq CallState

(* A request just sent.                                                    *)
New(c) ==
  /\ c \in CallState /\ c.m \in Sends(c.offer) /\ c.offer \in Pages[page].offers
  /\ c.edit.n = edits + 1 /\ c.edit.on \in c.m.on /\ c.visit = visit /\ c.latest
  /\ c.base = On(c.m.on, form.holds) /\ c.stage = "asked"
  /\ c.keeps = (IF form.sound THEN On(Pages[page].form.fills, answered \cap server) ELSE {})
None == [stage |-> "none"]

Sent(o, m, e, was) == [Call(o, m, e) EXCEPT !.was = was]

LEMMA NewCall ==
  ASSUME TabTypeOK, NEW o \in Pages[page].offers, NEW m \in Sends(o), NEW r \in m.on,
         NEW was \in SUBSET Edits, NEW e, e = Edit(edits + 1, r)
  PROVE  /\ New(Sent(o, m, e, was)) /\ Sent(o, m, e, was).offer = o
         /\ Sent(o, m, e, was).m = m /\ Sent(o, m, e, was).was = was
         /\ Sent(o, m, e, was).edit = e
         /\ New(Call(o, m, e)) /\ Call(o, m, e).m = m /\ Call(o, m, e).offer = o
         /\ Call(o, m, e).was = {} /\ Call(o, m, e).edit = e
<1>1. o \in Offers /\ m \in Mutations /\ page \in Routes
  BY OfferFacts DEF TabTypeOK
<1>2. /\ Edit(edits + 1, r) \in Edits /\ Edit(edits + 1, r).n = edits + 1
      /\ Edit(edits + 1, r).on = r
  BY <1>1, MutationFacts DEF TabTypeOK, Edit
<1>4. PICK b, p : b = On(m.on, form.holds)
                  /\ p = (IF form.sound THEN On(Pages[page].form.fills, answered \cap server)
                          ELSE {})
  OBVIOUS
<1>5. b \in SUBSET Edits /\ p \in SUBSET Edits /\ visit \in Nat
  BY <1>4 DEF On, TabTypeOK
<1>6. Call(o, m, e) = [offer |-> o, m |-> m, edit |-> e, visit |-> visit, latest |-> TRUE,
        base |-> b, was |-> {}, got |-> {}, stage |-> "asked", late |-> FALSE, keeps |-> p]
  BY <1>4 DEF Call
<1>12. e \in Edits /\ e.n = edits + 1 /\ e.on = r
  BY <1>2
<1>7. Call(o, m, e) \in CallState
  <2>1. PICK d, x : d = e /\ x = Call(o, m, e)
    OBVIOUS
  <2>2. x = [offer |-> o, m |-> m, edit |-> d, visit |-> visit, latest |-> TRUE,
        base |-> b, was |-> {}, got |-> {}, stage |-> "asked", late |-> FALSE, keeps |-> p]
    BY <1>6, <2>1
  <2>3. d \in Edits /\ o \in Offers /\ m \in Mutations
    BY <1>1, <1>12, <2>1
  <2>4. x \in CallState
    BY <1>5, <2>2, <2>3 DEF CallState
  <2> QED
    BY <2>1, <2>4
<1>13. /\ Call(o, m, e).offer = o /\ Call(o, m, e).m = m /\ Call(o, m, e).edit = e
       /\ Call(o, m, e).visit = visit /\ Call(o, m, e).latest /\ Call(o, m, e).base = b
       /\ Call(o, m, e).was = {} /\ Call(o, m, e).stage = "asked" /\ Call(o, m, e).keeps = p
  BY <1>6
<1>8. /\ New(Call(o, m, e)) /\ Call(o, m, e).m = m /\ Call(o, m, e).offer = o
      /\ Call(o, m, e).was = {}
  BY <1>4, <1>7, <1>12, <1>13 DEF New
<1>9. PICK c : c = Call(o, m, e)
  OBVIOUS
<1>10. /\ [c EXCEPT !.was = was] \in CallState /\ [c EXCEPT !.was = was].offer = c.offer
       /\ [c EXCEPT !.was = was].m = c.m /\ [c EXCEPT !.was = was].edit = c.edit
       /\ [c EXCEPT !.was = was].visit = c.visit /\ [c EXCEPT !.was = was].latest = c.latest
       /\ [c EXCEPT !.was = was].base = c.base /\ [c EXCEPT !.was = was].stage = c.stage
       /\ [c EXCEPT !.was = was].keeps = c.keeps
       /\ [c EXCEPT !.was = was].edit = c.edit /\ [c EXCEPT !.was = was].was = was
  BY <1>7, <1>9 DEF CallState
<1>11. New([c EXCEPT !.was = was])
  BY <1>8, <1>9, <1>10 DEF New
<1> QED
  BY <1>8, <1>9, <1>10, <1>11, <1>13 DEF Sent

(* A newer click takes the callbacks of the older one of its hook.         *)
LEMMA SupersededImages ==
  ASSUME calls \subseteq CallState, NEW by
  PROVE  LET cs == Superseded(calls, by) IN
         /\ cs \subseteq CallState
         /\ \A c \in calls : \E d \in cs : Image(c, d)
         /\ \A d \in cs : \E c \in calls :
              /\ Image(c, d)
              /\ c.latest /\ ~(c.visit = visit /\ c.offer.by = by) => d.latest
<1> DEFINE older(c) == c.visit = visit /\ c.offer.by = by
           after(c) == [c EXCEPT !.latest = @ /\ ~older(c)]
<1>1. \A c \in calls : older(c) \in BOOLEAN
  OBVIOUS
<1> HIDE DEF older
<1>2. ASSUME NEW c \in calls
      PROVE  /\ after(c) \in CallState /\ Image(c, after(c))
             /\ c.latest /\ ~older(c) => after(c).latest
  BY <1>1 DEF CallState, Image
<1>3. Superseded(calls, by) = {after(c) : c \in calls}
  BY DEF Superseded, older
<1> HIDE DEF after
<1> QED
  BY <1>2, <1>3 DEF older

(* Answers on their way are overtaken by one that arrives.                 *)
LEMMA OvertakenImages ==
  ASSUME NEW cs \in SUBSET CallState, NEW x
  PROVE  LET es == Overtaken(cs, x) IN
         /\ es \subseteq CallState
         /\ \A c \in cs : \E d \in es : Image(c, d)
         /\ \A d \in es : \E c \in cs :
              /\ Image(c, d) /\ d.latest = c.latest
              /\ c.stage = "done" /\ x.edit.on \in Answer(c) => d.late
<1> DEFINE hit(c) == c.stage = "done" /\ x.edit.on \in Answer(c)
           after(c) == [c EXCEPT !.late = @ \/ hit(c)]
<1>1. \A c \in cs : hit(c) \in BOOLEAN
  OBVIOUS
<1> HIDE DEF hit
<1>2. ASSUME NEW c \in cs
      PROVE  /\ after(c) \in CallState /\ Image(c, after(c)) /\ after(c).latest = c.latest
             /\ hit(c) => after(c).late
  BY <1>1 DEF CallState, Image
<1>3. Overtaken(cs, x) = {after(c) : c \in cs}
  BY DEF Overtaken, hit
<1> HIDE DEF after
<1> QED
  BY <1>2, <1>3 DEF hit

-----------------------------------------------------------------------------
(* Forms.                                                                  *)
FormState == [filled : BOOLEAN, holds : SUBSET Edits, sound : BOOLEAN]

LEMMA FilledForm ==
  ASSUME NEW f, NEW data \in SUBSET Edits, NEW old \in BOOLEAN, NEW cs
  PROVE  LET n == Filled(f, data, old, cs) IN
         /\ n \in FormState
         /\ \A e \in data : e.on \in f.fills => e \in n.holds
         /\ n.sound => ~old /\ \A c \in cs : c.m.on \cap f.fills = {}
<1>1. On(f.fills, data) \in SUBSET Edits
  BY DEF On
<1>2. PICK b : b = (~old /\ \A c \in cs : c.m.on \cap f.fills = {})
  OBVIOUS
<1>3. b \in BOOLEAN
  BY <1>2
<1>4. Filled(f, data, old, cs) = [filled |-> TRUE, holds |-> On(f.fills, data), sound |-> b]
  BY <1>2 DEF Filled
<1>5. Filled(f, data, old, cs) \in FormState
  BY <1>1, <1>3, <1>4 DEF FormState
<1>6. \A e \in data : e.on \in f.fills => e \in On(f.fills, data)
  BY DEF On
<1>7. /\ Filled(f, data, old, cs).holds = On(f.fills, data)
      /\ Filled(f, data, old, cs).sound = b
  BY <1>4
<1> QED
  BY <1>2, <1>5, <1>6, <1>7

LEMMA FillTyped ==
  ASSUME NEW p, NEW f \in FormState, NEW was, NEW c,
         \A k \in DOMAIN c : c[k] \in SlotState, NEW cs
  PROVE  Fill(p, f, was, c, cs) \in FormState
<1> DEFINE k == Pages[p].form.of
<1>1. CASE Pages[p].form.when = "never" \/ ~Has(c, k)
  BY <1>1 DEF Fill
<1>2. CASE Pages[p].form.when # "never" /\ Has(c, k)
  <2>1. k \in DOMAIN c
    BY <1>2, EmptySlot DEF Has, Slot
  <2>2. c[k].data \in SUBSET Edits /\ c[k].old \in BOOLEAN
    BY <2>1, SlotFields
  <2>3. Filled(Pages[p].form, c[k].data, c[k].old, cs) \in FormState
    BY <2>2, FilledForm
  <2> QED
    BY <1>2, <2>3 DEF Fill
<1> QED
  BY <1>1, <1>2

(* A form that is filled now, or is as good as before.                     *)
LEMMA FillGood ==
  ASSUME NEW p \in Routes, NEW f, NEW v, NEW was, NEW c,
         \A k \in DOMAIN c : c[k] \in SlotState, NEW cs, NEW ans, NEW srv,
         FormGood(f, p, v, cs, ans, srv),
         \A k \in DOMAIN c : c[k].has /\ ~c[k].old /\ Unguessed(k) =>
           \A e \in ans \cap srv : e.on \in Reads[k] =>
             e \in c[k].data \/ \E d \in cs : e.on \in d.m.on
  PROVE  FormGood(Fill(p, f, was, c, cs), p, v, cs, ans, srv)
<1> DEFINE F == Pages[p].form
           k == F.of
           n == Filled(F, c[k].data, c[k].old, cs)
<1>1. CASE F.when = "never" \/ ~Has(c, k)
  BY <1>1 DEF Fill
<1>2. CASE F.when # "never" /\ Has(c, k)
  <2>1. k \in DOMAIN c /\ c[k].has /\ Unguessed(k) /\ F.fills \subseteq Reads[k]
    BY <1>2, EmptySlot, PageFacts DEF Has, Slot
  <2>2. c[k].data \in SUBSET Edits /\ c[k].old \in BOOLEAN
    BY <2>1, SlotFields
  <2>3. /\ \A e \in c[k].data : e.on \in F.fills => e \in n.holds
        /\ n.sound => ~c[k].old /\ \A d \in cs : d.m.on \cap F.fills = {}
    BY <2>2, FilledForm
  <2> HIDE DEF n
  <2>4. FormGood(n, p, v, cs, ans, srv)
    <3> SUFFICES ASSUME n.sound
                 PROVE  /\ \A e \in ans \cap srv : e.on \in F.fills => e \in n.holds
                        /\ \A d \in cs : d.m.on \cap F.fills = {}
      BY DEF FormGood
    <3>1. ASSUME NEW e \in ans \cap srv, e.on \in F.fills  PROVE e \in n.holds
      <4>1. \A d \in cs : e.on \notin d.m.on
        BY <2>3, <3>1
      <4>2. e \in c[k].data
        BY <2>1, <2>3, <3>1, <4>1
      <4> QED
        BY <2>3, <3>1, <4>2
    <3> QED
      BY <2>3, <3>1
  <2>5. Fill(p, f, was, c, cs) = f \/ Fill(p, f, was, c, cs) = n
    BY <1>2 DEF Fill, n
  <2> QED
    BY <2>4, <2>5
<1> QED
  BY <1>1, <1>2

-----------------------------------------------------------------------------
(* Places.                                                                 *)
CacheState(c) == DOMAIN c \subseteq Keys /\ \A k \in DOMAIN c : c[k] \in SlotState

LEMMA MountForms ==
  ASSUME NEW c, CacheState(c), NEW ks \in SUBSET Keys
  PROVE  LET n == Mount(c, ks) IN
         /\ CacheState(n) /\ n \in [DOMAIN n -> SlotState]
         /\ DOMAIN n = DOMAIN c \cup ks
         /\ \A k \in ks : n[k].load # "none"
         /\ \A k \in DOMAIN c \ ks : n[k] = c[k]
         /\ \A k \in DOMAIN n : n[k] = Fetch(Slot(c, k)) \/ (k \in DOMAIN c /\ n[k] = c[k])
<1> DEFINE n == Mount(c, ks)
<1>1. \A k \in DOMAIN c : c[k] \in SlotState
  BY DEF CacheState
<1>2. /\ DOMAIN n = DOMAIN c \cup ks
      /\ \A k \in ks : n[k] = Fetch(Slot(c, k))
      /\ \A k \in DOMAIN c \ ks : n[k] = c[k]
      /\ n \in [DOMAIN c \cup ks -> SlotState]
  BY <1>1, MountSlots
<1>3. \A k \in ks : Fetch(Slot(c, k)).load # "none"
  BY <1>1, SlotTyped, FetchSlot
<1> QED
  BY <1>2, <1>3 DEF CacheState

LEMMA TurnPlace ==
  ASSUME TabTypeOK, NEW v, NEW c, CacheState(c), NEW f \in FormState, NEW cs,
         Turn(v, c, f, cs)
  PROVE  /\ page' = page /\ visit' = visit /\ tour' = tour
         /\ CacheState(cache') /\ cache' \in [DOMAIN cache' -> SlotState]
         /\ form' = Fill(page, f, cache, cache', cs) /\ form' \in FormState
         /\ DOMAIN cache' \subseteq DOMAIN c \cup Keys /\ DOMAIN c \subseteq DOMAIN cache'
         /\ \A k \in DOMAIN cache' :
              cache'[k] = Fetch(Slot(c, k)) \/ (k \in DOMAIN c /\ cache'[k] = c[k])
         /\ ShownKeys(page, view) \subseteq DOMAIN c =>
              \A k \in ShownKeys(page, view') :
                /\ k \in DOMAIN cache'
                /\ \/ cache'[k].load # "none"
                   \/ k \in ShownKeys(page, view) /\ cache'[k] = c[k]
<1> DEFINE next == IF v = Keeps THEN view ELSE v
           ks == ShownKeys(page, next) \ ShownKeys(page, view)
<1>1. /\ view' = next /\ cache' = Mount(c, ks) /\ form' = Fill(page, f, cache, cache', cs)
      /\ page' = page /\ visit' = visit /\ tour' = tour
  BY DEF Turn
<1>2. ks \in SUBSET Keys
  BY OfferFacts DEF TabTypeOK
<1>3. /\ CacheState(cache') /\ cache' \in [DOMAIN cache' -> SlotState]
      /\ DOMAIN cache' = DOMAIN c \cup ks
      /\ \A k \in ks : cache'[k].load # "none"
      /\ \A k \in DOMAIN c \ ks : cache'[k] = c[k]
      /\ \A k \in DOMAIN cache' :
           cache'[k] = Fetch(Slot(c, k)) \/ (k \in DOMAIN c /\ cache'[k] = c[k])
  <2>1. PICK n, w : n = cache' /\ w = ks
    OBVIOUS
  <2>2. n = Mount(c, w) /\ w \in SUBSET Keys
    BY <1>1, <1>2, <2>1
  <2> HIDE DEF ks
  <2>3. /\ CacheState(Mount(c, w)) /\ Mount(c, w) \in [DOMAIN Mount(c, w) -> SlotState]
        /\ DOMAIN Mount(c, w) = DOMAIN c \cup w
        /\ \A k \in w : Mount(c, w)[k].load # "none"
        /\ \A k \in DOMAIN c \ w : Mount(c, w)[k] = c[k]
        /\ \A k \in DOMAIN Mount(c, w) :
             Mount(c, w)[k] = Fetch(Slot(c, k)) \/ (k \in DOMAIN c /\ Mount(c, w)[k] = c[k])
    BY <2>2, MountForms
  <2> QED
    BY <2>1, <2>2, <2>3
<1>4. form' \in FormState
  BY <1>1, <1>3, FillTyped DEF CacheState
<1> QED
  BY <1>1, <1>2, <1>3, <1>4

LEMMA GoPlace ==
  ASSUME TabTypeOK, NEW p \in Routes, NEW c, CacheState(c), NEW cs, Go(p, c, cs)
  PROVE  /\ page' = p /\ visit' = visit + 1 /\ tour' = tour
         /\ CacheState(cache') /\ cache' \in [DOMAIN cache' -> SlotState]
         /\ form' = Fill(p, Unfilled, c, cache', cs) /\ form' \in FormState
         /\ DOMAIN c \subseteq DOMAIN cache'
         /\ \A k \in DOMAIN cache' :
              cache'[k] = Fetch(Slot(c, k)) \/ (k \in DOMAIN c /\ cache'[k] = c[k])
         /\ \A k \in ShownKeys(p, view') : k \in DOMAIN cache' /\ cache'[k].load # "none"
<1>1. /\ view' = Main /\ cache' = Mount(c, ShownKeys(p, Main))
      /\ form' = Fill(p, Unfilled, c, cache', cs)
      /\ page' = p /\ visit' = visit + 1 /\ tour' = tour
  BY DEF Go
<1>2. ShownKeys(p, Main) \in SUBSET Keys
  BY OfferFacts
<1>3. /\ CacheState(cache') /\ cache' \in [DOMAIN cache' -> SlotState]
      /\ DOMAIN cache' = DOMAIN c \cup ShownKeys(p, Main)
      /\ \A k \in ShownKeys(p, Main) : cache'[k].load # "none"
      /\ \A k \in DOMAIN cache' :
           cache'[k] = Fetch(Slot(c, k)) \/ (k \in DOMAIN c /\ cache'[k] = c[k])
  <2>1. PICK n, w : n = cache' /\ w = ShownKeys(p, Main)
    OBVIOUS
  <2>2. n = Mount(c, w) /\ w \in SUBSET Keys
    BY <1>1, <1>2, <2>1
  <2>3. /\ CacheState(Mount(c, w)) /\ Mount(c, w) \in [DOMAIN Mount(c, w) -> SlotState]
        /\ DOMAIN Mount(c, w) = DOMAIN c \cup w
        /\ \A k \in w : Mount(c, w)[k].load # "none"
        /\ \A k \in DOMAIN c \ w : Mount(c, w)[k] = c[k]
        /\ \A k \in DOMAIN Mount(c, w) :
             Mount(c, w)[k] = Fetch(Slot(c, k)) \/ (k \in DOMAIN c /\ Mount(c, w)[k] = c[k])
    BY <2>2, MountForms
  <2> QED
    BY <2>1, <2>2, <2>3
<1>4. Unfilled \in FormState
  BY DEF Unfilled, FormState
<1>5. form' \in FormState
  BY <1>1, <1>3, <1>4, FillTyped DEF CacheState
<1> QED
  BY <1>1, <1>3, <1>5

-----------------------------------------------------------------------------
(* What every step does to what is known.                                  *)

(* The answer of x is being taken in.                                      *)
PutMove(x) ==
  /\ x \in calls /\ x.stage = "done" /\ server' = server
  /\ answered' = answered \cup {x.edit}
ReadForm(k, t, closed)   == closed = {} /\ t.load = "read" /\ t.got = On(Reads[k], server)
LoadedForm(s, t, closed) ==
  /\ closed = {} /\ s.load = "read" /\ t.has /\ t.data = s.got
  /\ (s.late => t.old /\ t.stale)

SlotMove(k, s, t, x, closed) ==
  /\ t \in SlotState /\ Present(t)
  /\ LoadForm(k, s, t, closed) \/ ReadForm(k, t, closed)
  /\ \/ DataForm(k, s, t, closed) \/ GuessForm(k, t) \/ LoadedForm(s, t, closed)
     \/ PutMove(x) /\ PutForm(k, t, x)
SlotsMove(x, closed) ==
  \A k \in DOMAIN cache' : SlotMove(k, Slot(cache, k), cache'[k], x, closed)

ShowMove(k, s, t, x, closed) ==
  \/ t.load # "none" \/ t.failed
  \/ /\ k \in ShownKeys(page, view)
     /\ \/ ShownForm(k, s, t, closed) \/ LoadedForm(s, t, closed)
        \/ PutMove(x) /\ PutForm(k, t, x)
KeysMove ==
  \A k \in ShownKeys(page', view') :
    /\ k \in DOMAIN cache'
    /\ Guessed(k) => Guessed(k)' \/ cache'[k].load # "none" \/ cache'[k].failed
ShownMove(x, closed) ==
  \A k \in ShownKeys(page', view') :
    ShowMove(k, Slot(cache, k), cache'[k], x, closed) \/ Guessed(k)'

(* new is a request that took effect in this step.                         *)
Opens(new, e) == new \in calls' /\ new.stage = "done" /\ e.on \in new.m.on
KnownMove(gone, new, closed) ==
  /\ \A e \in Edits :
       /\ e \in answered' \cap server' =>
            e \in answered \cap server \/ e.on \in closed \/ Opens(new, e)
       /\ e \in server \cup answered =>
            e \in server' \cup answered' \/ e.on \in closed \/ Opens(new, e)
  /\ gone \in calls /\ gone.stage = "done" => gone.m.on \subseteq closed
  /\ new \in calls' /\ new.stage = "done" =>
       /\ new.got = On(Answer(new), server')
       /\ new.edit.on \in Answer(new) => new.edit \in server'
       /\ \A c \in calls : c # gone => c.edit # new.edit

Moved(gone, new, closed) ==
  /\ CallsMove(gone, new, closed) /\ KnownMove(gone, new, closed)
  /\ SlotsMove(gone, closed) /\ KeysMove /\ ShownMove(gone, closed)

(* What is open stays open, but for what is closed.                        *)
LEMMA OpenStays ==
  ASSUME NEW gone, NEW new, NEW closed, CallsMove(gone, new, closed),
         KnownMove(gone, new, closed), NEW e, e.on \notin closed
  PROVE  /\ UnderWay(e) => UnderWay(e)'
         /\ \A c \in calls : UnderWayBut(c, e) =>
              \E d \in calls' : d.stage = "done" /\ e.on \in d.m.on /\ d.edit # c.edit
<1>1. ASSUME NEW w \in calls, w.stage = "done", e.on \in w.m.on
      PROVE  \E d \in calls' : d.stage = "done" /\ e.on \in d.m.on /\ d.edit = w.edit
  <2>1. w # gone
    BY <1>1 DEF KnownMove
  <2>2. PICK d \in calls' : Image(w, d)
    BY <2>1 DEF CallsMove
  <2> QED
    BY <1>1, <2>2 DEF Image
<1>2. UnderWay(e) => UnderWay(e)'
  BY <1>1 DEF UnderWay
<1>3. ASSUME NEW c \in calls, UnderWayBut(c, e)
      PROVE  \E d \in calls' : d.stage = "done" /\ e.on \in d.m.on /\ d.edit # c.edit
  <2>1. PICK w \in calls : w.stage = "done" /\ e.on \in w.m.on /\ w.edit # c.edit
    BY <1>3 DEF UnderWayBut
  <2> QED
    BY <1>1, <2>1
<1> QED
  BY <1>2, <1>3

(* Data that know of an edit still know of it, or there is a request.      *)
LEMMA KnownStays ==
  ASSUME NEW gone, NEW new, NEW closed, CallsMove(gone, new, closed),
         KnownMove(gone, new, closed), NEW e \in Edits, e.on \notin closed, NEW data
  PROVE  /\ Agrees(e, data) \/ UnderWay(e) => Agrees(e, data)' \/ UnderWay(e)'
         /\ (e \in answered \cap server => e \in data \/ UnderWay(e)) =>
              (e \in answered' \cap server' => e \in data \/ UnderWay(e)')
         /\ Agrees(e, data) => Agrees(e, data)' \/ Opens(new, e)
<1>1. Opens(new, e) => UnderWay(e)'
  BY DEF Opens, UnderWay
<1>2. Agrees(e, data) => Agrees(e, data)' \/ Opens(new, e)
  BY DEF KnownMove, Agrees
<1>3. UnderWay(e) => UnderWay(e)'
  BY OpenStays
<1>4. e \in answered' \cap server' => e \in answered \cap server \/ Opens(new, e)
  BY DEF KnownMove
<1> QED
  BY <1>1, <1>2, <1>3, <1>4

(* The data of an answer that is taken in.                                 *)
LEMMA PutKnows ==
  ASSUME AnswerInv, EditInv, NEW x, NEW new, CallsMove(x, new, x.m.on), PutMove(x),
         ~x.late, NEW e \in Edits, e.on \in Answer(x)
  PROVE  Agrees(e, x.got)' \/ UnderWay(e)'
<1>1. x \in calls /\ x.stage = "done"
  BY DEF PutMove
<1>2. CASE UnderWayBut(x, e)
  <2>1. PICK w \in calls : w.stage = "done" /\ e.on \in w.m.on /\ w.edit # x.edit
    BY <1>2 DEF UnderWayBut
  <2>2. PICK d \in calls' : Image(w, d)
    BY <2>1 DEF CallsMove
  <2>3. d.stage = "done" /\ e.on \in d.m.on
    BY <2>1, <2>2 DEF Image
  <2> QED
    BY <2>3 DEF UnderWay
<1>3. CASE Agrees(e, x.got)
  <2>1. e = x.edit => e \in x.got /\ e \in answered'
    BY <1>1 DEF AnswerInv, PutMove
  <2> QED
    BY <1>3, <2>1 DEF Agrees, PutMove
<1> QED
  BY <1>1, <1>2, <1>3 DEF AnswerInv

LEMMA AnswerAbout ==
  ASSUME NEW c \in CallState, c.m \in Sends(c.offer), NEW k \in Keys, c.m.puts = k
  PROVE  Answer(c) = Reads[k]
<1>1. c.offer \in Offers /\ c.m \in Mutations
  BY CallFields
<1>2. PICK r \in Routes : c.offer \in Pages[r].offers
  BY <1>1 DEF Offers
<1>3. k # <<>> /\ c.m.on \subseteq Reads[k]
  BY <1>1, HooksAssumption
<1> QED
  BY <1>3 DEF Answer

LEMMA SlotsStay ==
  ASSUME TabTypeOK, EditInv, VisitInv, SlotInv, AnswerInv, CacheState(cache'),
         answered' \subseteq Edits, NEW gone, NEW new, NEW closed, Moved(gone, new, closed),
         PutMove(gone) => closed = gone.m.on
  PROVE  SlotInv'
<1> SUFFICES ASSUME NEW k \in DOMAIN cache'
             PROVE  /\ Present(cache'[k]) /\ About(k, cache'[k].data) /\ About(k, cache'[k].got)
                    /\ GotInv(k, cache[k])' /\ DataInv(k, cache[k])'
  BY DEF SlotInv
<1> DEFINE s == Slot(cache, k)
<1>1. PICK t : t = cache'[k]
  OBVIOUS
<1>2. SlotMove(k, s, t, gone, closed) /\ t \in SlotState /\ Present(t)
  BY <1>1 DEF Moved, SlotsMove, SlotMove
<1>3. k \in Keys /\ CallsMove(gone, new, closed) /\ KnownMove(gone, new, closed)
  BY DEF Moved, CacheState
<1>4. /\ s \in SlotState /\ About(k, s.data) /\ About(k, s.got)
      /\ GotInv(k, s) /\ DataInv(k, s)
  <2>1. CASE k \in DOMAIN cache
    BY <2>1 DEF SlotInv, Slot, TabTypeOK
  <2>2. CASE k \notin DOMAIN cache
    BY <2>2, EmptySlot DEF Slot, About, GotInv, DataInv
  <2> QED
    BY <2>1, <2>2
<1> HIDE DEF s
<1>5. PutMove(gone) /\ PutForm(k, t, gone) =>
        /\ gone \in CallState /\ Answer(gone) = Reads[k] /\ About(k, gone.got)
        /\ ~gone.late => \A e \in Edits : e.on \in Reads[k] =>
             Agrees(e, gone.got)' \/ UnderWay(e)'
  <2> SUFFICES ASSUME PutMove(gone), PutForm(k, t, gone)
               PROVE  /\ gone \in CallState /\ Answer(gone) = Reads[k] /\ About(k, gone.got)
                      /\ ~gone.late => \A e \in Edits : e.on \in Reads[k] =>
                           Agrees(e, gone.got)' \/ UnderWay(e)'
    OBVIOUS
  <2>1. gone \in calls /\ gone.stage = "done" /\ gone \in CallState
    BY DEF PutMove, TabTypeOK
  <2>2. Answer(gone) = Reads[k]
    BY <1>3, <2>1, AnswerAbout DEF VisitInv, PutForm
  <2>3. About(k, gone.got)
    BY <2>1, <2>2 DEF About, AnswerInv
  <2>4. ~gone.late => \A e \in Edits : e.on \in Reads[k] => Agrees(e, gone.got)' \/ UnderWay(e)'
    BY <1>3, <2>2, PutKnows
  <2> QED
    BY <2>1, <2>2, <2>3, <2>4
<1>6. About(k, t.data)
  <2>1. CASE DataForm(k, s, t, closed)
    BY <1>4, <2>1 DEF DataForm, About
  <2>2. CASE GuessForm(k, t)
    BY <2>2 DEF GuessForm
  <2>3. CASE LoadedForm(s, t, closed)
    BY <1>4, <2>3 DEF LoadedForm
  <2>4. CASE PutMove(gone) /\ PutForm(k, t, gone)
    BY <1>5, <2>4 DEF PutForm
  <2> QED
    BY <1>2, <2>1, <2>2, <2>3, <2>4 DEF SlotMove
<1>7. About(k, t.got)
  <2>1. CASE LoadForm(k, s, t, closed)
    BY <1>4, <2>1 DEF LoadForm, About
  <2>2. CASE ReadForm(k, t, closed)
    BY <2>2 DEF ReadForm, About, On
  <2> QED
    BY <1>2, <2>1, <2>2 DEF SlotMove
<1>8. ASSUME t.load = "read", ~t.late, NEW e \in Edits, e.on \in Reads[k]
      PROVE  Agrees(e, t.got)' \/ UnderWay(e)'
  <2>1. CASE LoadForm(k, s, t, closed)
    <3>1. s.load = "read" /\ ~s.late /\ t.got = s.got /\ closed \cap Reads[k] = {}
      BY <1>8, <2>1 DEF LoadForm
    <3>2. e.on \notin closed /\ (Agrees(e, t.got) \/ UnderWay(e))
      BY <1>4, <1>8, <3>1 DEF GotInv
    <3> QED
      BY <1>3, <3>2, KnownStays
  <2>2. CASE ReadForm(k, t, closed)
    <3>1. Agrees(e, t.got)
      BY <1>8, <2>2 DEF ReadForm, Agrees, On
    <3>2. e.on \notin closed
      BY <2>2 DEF ReadForm
    <3> QED
      BY <1>3, <3>1, <3>2, KnownStays
  <2> QED
    BY <1>2, <2>1, <2>2 DEF SlotMove
<1>9. ASSUME t.has, ~t.old, Unguessed(k), NEW e \in answered' \cap server', e.on \in Reads[k]
      PROVE  e \in t.data \/ UnderWay(e)'
  <2>0. e \in Edits
    OBVIOUS
  <2>1. CASE DataForm(k, s, t, closed)
    <3>1. s.has /\ ~s.old /\ t.data = s.data /\ closed \cap Reads[k] = {}
      BY <1>9, <2>1 DEF DataForm
    <3>2. e.on \notin closed /\ (e \in answered \cap server => e \in t.data \/ UnderWay(e))
      BY <1>4, <1>9, <3>1 DEF DataInv
    <3> QED
      BY <1>3, <1>9, <2>0, <3>2, KnownStays
  <2>2. CASE GuessForm(k, t)
    BY <1>9, <2>2 DEF GuessForm
  <2>3. CASE LoadedForm(s, t, closed)
    <3>1. s.load = "read" /\ ~s.late /\ t.data = s.got /\ closed = {}
      BY <1>4, <1>9, <2>3, SlotFields DEF LoadedForm
    <3>2. e.on \notin closed /\ (Agrees(e, t.data) \/ UnderWay(e))
      BY <1>4, <1>9, <2>0, <3>1 DEF GotInv
    <3>3. Agrees(e, t.data)' \/ UnderWay(e)'
      BY <1>3, <2>0, <3>2, KnownStays
    <3> QED
      BY <1>9, <3>3 DEF Agrees
  <2>4. CASE PutMove(gone) /\ PutForm(k, t, gone)
    <3>1. Agrees(e, gone.got)' \/ UnderWay(e)'
      BY <1>5, <1>9, <2>0, <2>4, CallFields DEF PutForm
    <3>2. t.data = gone.got
      BY <2>4 DEF PutForm
    <3> QED
      BY <1>9, <3>1, <3>2 DEF Agrees
  <2> QED
    BY <1>2, <2>1, <2>2, <2>3, <2>4 DEF SlotMove
<1> QED
  BY <1>1, <1>2, <1>6, <1>7, <1>8, <1>9 DEF GotInv, DataInv

LEMMA ShownStays ==
  ASSUME TabTypeOK, EditInv, VisitInv, SlotInv, ShownInv, AnswerInv, CacheState(cache'),
         NEW gone, NEW new, NEW closed, Moved(gone, new, closed),
         PutMove(gone) => closed = gone.m.on
  PROVE  ShownInv'
<1> SUFFICES ASSUME NEW k \in ShownKeys(page', view')
             PROVE  k \in DOMAIN cache' /\ RestInv(k, cache[k])'
  BY DEF ShownInv
<1> DEFINE s == Slot(cache, k)
<1>1. PICK t : t = cache'[k]
  OBVIOUS
<1>2. /\ k \in DOMAIN cache' /\ k \in Keys /\ t \in SlotState
      /\ ShowMove(k, s, t, gone, closed) \/ Guessed(k)'
      /\ Guessed(k) => Guessed(k)' \/ t.load # "none" \/ t.failed
  BY <1>1 DEF Moved, KeysMove, ShownMove, CacheState
<1>3. CallsMove(gone, new, closed) /\ KnownMove(gone, new, closed)
  BY DEF Moved
<1>4. s \in SlotState
  BY SlotTyped DEF TabTypeOK
<1>5. k \in ShownKeys(page, view) =>
        /\ RestInv(k, s)
        /\ s.load = "read" => k \in DOMAIN cache /\ GotInv(k, s)
  BY EmptySlot DEF ShownInv, SlotInv, Slot
<1> HIDE DEF s
<1> SUFFICES ASSUME Rests(t), NEW e \in Edits, e.on \in Reads[k], ~Guessed(k)'
             PROVE  Agrees(e, t.data)' \/ UnderWay(e)'
  BY <1>1, <1>2 DEF RestInv
<1>6. /\ t.load = "none" /\ ~t.failed /\ ~t.stale /\ ~Guessed(k)
      /\ k \in ShownKeys(page, view)
      /\ \/ ShownForm(k, s, t, closed) \/ LoadedForm(s, t, closed)
         \/ PutMove(gone) /\ PutForm(k, t, gone)
  BY <1>2 DEF Rests, ShowMove
<1>7. CASE ShownForm(k, s, t, closed)
  <2>1. t.data = s.data /\ Rests(s) /\ closed \cap Reads[k] = {}
    BY <1>6, <1>7 DEF ShownForm
  <2>2. e.on \notin closed /\ (Agrees(e, t.data) \/ UnderWay(e))
    BY <1>5, <1>6, <2>1 DEF RestInv
  <2> QED
    BY <1>3, <2>2, KnownStays
<1>8. CASE LoadedForm(s, t, closed)
  <2>1. s.load = "read" /\ ~s.late /\ t.data = s.got /\ closed = {}
    BY <1>4, <1>6, <1>8, SlotFields DEF LoadedForm
  <2>2. e.on \notin closed /\ (Agrees(e, t.data) \/ UnderWay(e))
    BY <1>5, <1>6, <2>1 DEF GotInv
  <2> QED
    BY <1>3, <2>2, KnownStays
<1>9. CASE PutMove(gone) /\ PutForm(k, t, gone)
  <2>1. gone \in calls /\ gone.stage = "done" /\ gone \in CallState
    BY <1>9 DEF PutMove, TabTypeOK
  <2>2. Answer(gone) = Reads[k]
    BY <1>2, <1>9, <2>1, AnswerAbout DEF VisitInv, PutForm
  <2>3. ~gone.late /\ t.data = gone.got
    BY <1>6, <1>9, <2>1, CallFields DEF PutForm
  <2>4. Agrees(e, gone.got)' \/ UnderWay(e)'
    BY <1>3, <1>9, <2>2, <2>3, PutKnows
  <2> QED
    BY <2>3, <2>4
<1> QED
  BY <1>6, <1>7, <1>8, <1>9

LEMMA AnswersStay ==
  ASSUME AnswerInv, NEW gone, NEW new, NEW closed, Moved(gone, new, closed)
  PROVE  AnswerInv'
<1>1. CallsMove(gone, new, closed) /\ KnownMove(gone, new, closed)
  BY DEF Moved
<1> SUFFICES ASSUME NEW d \in calls', d.stage = "done"
             PROVE  /\ \A e \in d.got : e.on \in Answer(d)
                    /\ d.edit.on \in Answer(d) => d.edit \in d.got
                    /\ ~d.late => \A e \in Edits : e.on \in Answer(d) =>
                         Agrees(e, d.got)' \/ UnderWayBut(d, e)'
  BY DEF AnswerInv, Answer
<1>2. CASE d = new
  <2>1. d.got = On(Answer(d), server') /\ (d.edit.on \in Answer(d) => d.edit \in server')
    BY <1>1, <1>2 DEF KnownMove
  <2> QED
    BY <2>1 DEF On, Agrees
<1>3. CASE d # new
  <2>1. PICK c \in calls :
          /\ c # gone /\ Image(c, d)
          /\ c.stage = "done" /\ closed \cap Answer(c) # {} => d.late
    BY <1>1, <1>3 DEF CallsMove
  <2>2. /\ c.stage = "done" /\ d.got = c.got /\ d.edit = c.edit /\ Answer(d) = Answer(c)
        /\ (c.late => d.late)
    BY <2>1 DEF Image, Answer
  <2>3. ASSUME ~d.late, NEW e \in Edits, e.on \in Answer(d)
        PROVE  Agrees(e, d.got)' \/ UnderWayBut(d, e)'
    <3>1. e.on \notin closed /\ (Agrees(e, d.got) \/ UnderWayBut(c, e))
      BY <2>1, <2>2, <2>3 DEF AnswerInv
    <3>2. CASE UnderWayBut(c, e)
      BY <1>1, <2>2, <3>1, <3>2, OpenStays DEF UnderWayBut
    <3>3. CASE Agrees(e, d.got)
      <4>1. Agrees(e, d.got)' \/ Opens(new, e)
        BY <1>1, <3>1, <3>3, KnownStays
      <4>2. Opens(new, e) => UnderWayBut(d, e)'
        BY <1>1, <2>1, <2>2 DEF Opens, UnderWayBut, KnownMove
      <4> QED
        BY <4>1, <4>2
    <3> QED
      BY <3>1, <3>2, <3>3
  <2> QED
    BY <2>2, <2>3 DEF AnswerInv
<1> QED
  BY <1>2, <1>3

-----------------------------------------------------------------------------
(* The steps.  c is what became of the cache, before the tab mounts what   *)
(* it shows next.                                                          *)
Placed(c) ==
  /\ CacheState(cache') /\ DOMAIN c \subseteq DOMAIN cache'
  /\ \A k \in DOMAIN cache' :
       cache'[k] = Fetch(Slot(c, k)) \/ (k \in DOMAIN c /\ cache'[k] = c[k])
  /\ \A k \in ShownKeys(page', view') :
       /\ k \in DOMAIN cache'
       /\ \/ cache'[k].load # "none"
          \/ k \in ShownKeys(page, view) /\ k \in DOMAIN c /\ cache'[k] = c[k]

LEMMA SameMove ==
  ASSUME TabTypeOK, SlotInv, NEW k \in DOMAIN cache, NEW x
  PROVE  /\ SlotMove(k, Slot(cache, k), cache[k], x, {})
         /\ k \in ShownKeys(page, view) => ShowMove(k, Slot(cache, k), cache[k], x, {})
<1>1. Slot(cache, k) = cache[k] /\ cache[k] \in SlotState /\ Present(cache[k])
  BY DEF Slot, TabTypeOK, SlotInv
<1> QED
  BY <1>1 DEF SlotMove, ShowMove, LoadForm, DataForm, ShownForm

LEMMA FetchMove ==
  ASSUME NEW k, NEW s \in SlotState, NEW t, NEW x, NEW closed,
         SlotMove(k, s, t, x, closed)
  PROVE  SlotMove(k, s, Fetch(t), x, closed)
<1>1. t \in SlotState
  BY DEF SlotMove
<1>2. PICK u : u = Fetch(t)
  OBVIOUS
<1>3. /\ u \in SlotState /\ u.load # "none" /\ u.has = t.has /\ u.data = t.data
      /\ u.failed = t.failed /\ u.stale = t.stale /\ u.old = t.old
      /\ \/ u = t
         \/ u.load = "asked" /\ u.got = {}
  BY <1>1, <1>2, FetchSlot
<1>4. Present(u)
  BY <1>3 DEF Present
<1>5. LoadForm(k, s, u, closed) \/ ReadForm(k, u, closed)
  BY <1>3 DEF SlotMove, LoadForm, ReadForm
<1>6. /\ DataForm(k, s, t, closed) => DataForm(k, s, u, closed)
      /\ GuessForm(k, t) => GuessForm(k, u)
      /\ LoadedForm(s, t, closed) => LoadedForm(s, u, closed)
      /\ PutForm(k, t, x) => PutForm(k, u, x)
  BY <1>3 DEF DataForm, GuessForm, LoadedForm, PutForm
<1>7. SlotMove(k, s, u, x, closed)
  BY <1>3, <1>4, <1>5, <1>6 DEF SlotMove
<1> QED
  BY <1>2, <1>7

LEMMA EmptyMove ==
  ASSUME NEW k, NEW s \in SlotState, NEW x, NEW closed
  PROVE  SlotMove(k, s, Fetch(Empty), x, closed)
<1>1. PICK u : u = Fetch(Empty)
  OBVIOUS
<1>2. /\ u \in SlotState /\ u.load # "none" /\ ~u.has /\ u.data = {}
      /\ u.load # "read" /\ u.got = {}
  BY <1>1, EmptySlot, FetchSlot
<1>3. SlotMove(k, s, u, x, closed)
  BY <1>2 DEF SlotMove, Present, LoadForm, DataForm
<1> QED
  BY <1>1, <1>3

LEMMA PlacedMoves ==
  ASSUME TabTypeOK, NEW c, Placed(c), NEW x, NEW new, NEW closed, CallsMove(x, new, closed),
         \A k \in DOMAIN c : SlotMove(k, Slot(cache, k), c[k], x, closed),
         \A k \in ShownKeys(page, view) \cap DOMAIN c :
           /\ ShowMove(k, Slot(cache, k), c[k], x, closed) \/ Guessed(k)'
           /\ x \in calls /\ x.m.guesses = k =>
                Guessed(k)' \/ c[k].load # "none" \/ c[k].failed
  PROVE  SlotsMove(x, closed) /\ KeysMove /\ ShownMove(x, closed)
<1>1. ASSUME NEW k \in DOMAIN cache'
      PROVE  SlotMove(k, Slot(cache, k), cache'[k], x, closed)
  <2>1. Slot(cache, k) \in SlotState
    BY SlotTyped DEF TabTypeOK
  <2>2. CASE k \in DOMAIN c
    BY <2>1, <2>2, FetchMove DEF Placed, Slot
  <2>3. CASE k \notin DOMAIN c
    <3>1. cache'[k] = Fetch(Empty)
      BY <2>3 DEF Placed, Slot
    <3> QED
      BY <2>1, <3>1, EmptyMove
  <2> QED
    BY <2>2, <2>3
<1>2. ASSUME NEW k \in ShownKeys(page', view')
      PROVE  /\ k \in DOMAIN cache'
             /\ Guessed(k) => Guessed(k)' \/ cache'[k].load # "none" \/ cache'[k].failed
             /\ ShowMove(k, Slot(cache, k), cache'[k], x, closed) \/ Guessed(k)'
  <2>1. k \in DOMAIN cache'
    BY DEF Placed
  <2>2. CASE cache'[k].load # "none"
    BY <2>1, <2>2 DEF ShowMove
  <2>3. CASE k \in ShownKeys(page, view) /\ k \in DOMAIN c /\ cache'[k] = c[k]
    <3>1. ASSUME NEW w \in calls, w.m.guesses = k, w # x
          PROVE  Guessed(k)'
      <4>1. PICK d \in calls' : Image(w, d)
        BY <3>1 DEF CallsMove
      <4> QED
        BY <3>1, <4>1 DEF Image, Guessed
    <3> QED
      BY <2>1, <2>3, <3>1 DEF Guessed
  <2> QED
    BY <2>1, <2>2, <2>3 DEF Placed
<1> QED
  BY <1>1, <1>2 DEF SlotsMove, KeysMove, ShownMove

LEMMA TurnPlaced ==
  ASSUME TabTypeOK, NEW v, NEW c, CacheState(c), NEW f \in FormState, NEW cs,
         Turn(v, c, f, cs), ShownKeys(page, view) \subseteq DOMAIN c
  PROVE  /\ page' = page /\ visit' = visit /\ tour' = tour /\ Placed(c)
         /\ cache' \in [DOMAIN cache' -> SlotState]
         /\ form' = Fill(page, f, cache, cache', cs) /\ form' \in FormState
<1>1. /\ page' = page /\ visit' = visit /\ tour' = tour
      /\ CacheState(cache') /\ cache' \in [DOMAIN cache' -> SlotState]
      /\ form' = Fill(page, f, cache, cache', cs) /\ form' \in FormState
      /\ DOMAIN cache' \subseteq DOMAIN c \cup Keys /\ DOMAIN c \subseteq DOMAIN cache'
      /\ \A k \in DOMAIN cache' :
           cache'[k] = Fetch(Slot(c, k)) \/ (k \in DOMAIN c /\ cache'[k] = c[k])
      /\ \A k \in ShownKeys(page, view') :
           /\ k \in DOMAIN cache'
           /\ \/ cache'[k].load # "none"
              \/ k \in ShownKeys(page, view) /\ cache'[k] = c[k]
  BY TurnPlace
<1> QED
  BY <1>1 DEF Placed

LEMMA GoPlaced ==
  ASSUME TabTypeOK, NEW p \in Routes, NEW c, CacheState(c), NEW cs, Go(p, c, cs)
  PROVE  /\ page' = p /\ visit' = visit + 1 /\ tour' = tour /\ Placed(c)
         /\ cache' \in [DOMAIN cache' -> SlotState]
         /\ form' = Fill(p, Unfilled, c, cache', cs) /\ form' \in FormState
<1>1. /\ page' = p /\ visit' = visit + 1 /\ tour' = tour
      /\ CacheState(cache') /\ cache' \in [DOMAIN cache' -> SlotState]
      /\ form' = Fill(p, Unfilled, c, cache', cs) /\ form' \in FormState
      /\ DOMAIN c \subseteq DOMAIN cache'
      /\ \A k \in DOMAIN cache' :
           cache'[k] = Fetch(Slot(c, k)) \/ (k \in DOMAIN c /\ cache'[k] = c[k])
      /\ \A k \in ShownKeys(p, view') : k \in DOMAIN cache' /\ cache'[k].load # "none"
  BY GoPlace
<1> QED
  BY <1>1 DEF Placed

(* A form that is filled, or stays, from data that know.                   *)
LEMMA FormFilled ==
  ASSUME SlotInv', CacheState(cache'), NEW p \in Routes, p = page', NEW f, NEW was,
         FormGood(f, p, visit', calls', answered', server'),
         form' = Fill(p, f, was, cache', calls')
  PROVE  FormInv'
<1>1. PICK c, cs, ans, srv, v :
        c = cache' /\ cs = calls' /\ ans = answered' /\ srv = server' /\ v = visit'
  OBVIOUS
<1>2. /\ \A k \in DOMAIN c : c[k] \in SlotState
      /\ FormGood(f, p, v, cs, ans, srv)
  BY <1>1 DEF CacheState
<1>3. ASSUME NEW k \in DOMAIN c, c[k].has, ~c[k].old, Unguessed(k), NEW e \in ans \cap srv,
             e.on \in Reads[k]
      PROVE  e \in c[k].data \/ \E d \in cs : e.on \in d.m.on
  <2>1. e \in c[k].data \/ UnderWay(e)'
    BY <1>1, <1>3 DEF SlotInv, DataInv
  <2> QED
    BY <1>1, <2>1 DEF UnderWay
<1>4. FormGood(Fill(p, f, was, c, cs), p, v, cs, ans, srv)
  BY <1>2, <1>3, FillGood
<1> QED
  BY <1>1, <1>4 DEF FormInv

LEMMA UnfilledGood ==
  ASSUME NEW p, NEW v, NEW cs, NEW ans, NEW srv
  PROVE  FormGood(Unfilled, p, v, cs, ans, srv)
BY DEF FormGood, Unfilled

-----------------------------------------------------------------------------
(* The inductive invariant, but for the types.                             *)
Known ==
  /\ EditInv /\ VisitInv /\ SlotInv /\ ShownInv /\ AnswerInv /\ WasInv
  /\ FormInv /\ KeepInv

(* A step that leaves the requests and what is stored alone.               *)
LEMMA QuietStep ==
  ASSUME TabTypeOK, Known, UNCHANGED <<server, jobs, calls, edits, answered>>,
         CacheState(cache'), SlotsMove(None, {}), KeysMove, ShownMove(None, {}),
         NEW f, NEW was, NEW p \in Routes, page' = p,
         \/ p = page /\ visit' = visit /\ f = form
         \/ visit' = visit + 1 /\ f = Unfilled,
         \/ form' = form /\ f = form
         \/ form' = Fill(p, f, was, cache', calls')
  PROVE  Known'
<1>1. CallsMove(None, None, {})
  BY DEF CallsMove, Image, TabTypeOK
<1>2. KnownMove(None, None, {})
  BY DEF KnownMove, None, Opens
<1>3. Moved(None, None, {})
  BY <1>1, <1>2 DEF Moved
<1>4. ~PutMove(None)
  BY DEF PutMove, None
<1>5. SlotInv' /\ ShownInv' /\ AnswerInv'
  BY <1>3, <1>4, SlotsStay, ShownStays, AnswersStay DEF Known, TabTypeOK
<1>6. EditInv' /\ WasInv' /\ KeepInv'
  BY DEF Known, EditInv, WasInv, KeepInv, About
<1>7. VisitInv'
  BY DEF Known, VisitInv, TabTypeOK, CallState
<1>8. FormGood(f, p, visit', calls', answered', server')
  BY UnfilledGood DEF Known, FormInv
<1>9. FormInv'
  <2>1. CASE form' = form /\ f = form
    BY <1>8, <2>1 DEF FormInv
  <2>2. CASE form' = Fill(p, f, was, cache', calls')
    BY <1>5, <1>8, <2>2, FormFilled
  <2> QED
    BY <2>1, <2>2
<1> QED
  BY <1>5, <1>6, <1>7, <1>9 DEF Known

(* A step that changes one slot, or none, and shows what was shown.        *)
LEMMA SlotStep ==
  ASSUME TabTypeOK, Known, UNCHANGED <<page, view>>, NEW k \in DOMAIN cache, NEW t,
         cache' = [cache EXCEPT ![k] = t],
         SlotMove(k, cache[k], t, None, {}),
         k \in ShownKeys(page, view) => ShowMove(k, cache[k], t, None, {})
  PROVE  /\ CacheState(cache') /\ DOMAIN cache' = DOMAIN cache
         /\ cache' \in [DOMAIN cache' -> SlotState]
         /\ CallsMove(None, None, {}) => SlotsMove(None, {}) /\ KeysMove /\ ShownMove(None, {})
<1>1. /\ DOMAIN cache' = DOMAIN cache /\ cache'[k] = t
      /\ \A j \in DOMAIN cache : j # k => cache'[j] = cache[j]
  OBVIOUS
<1>2. t \in SlotState
  BY DEF SlotMove
<1>3. CacheState(cache') /\ cache' \in [DOMAIN cache' -> SlotState]
  BY <1>2 DEF TabTypeOK, CacheState
<1>4. ASSUME CallsMove(None, None, {})
      PROVE  SlotsMove(None, {}) /\ KeysMove /\ ShownMove(None, {})
  <2>1. ASSUME NEW j \in DOMAIN cache'
        PROVE  /\ SlotMove(j, Slot(cache, j), cache'[j], None, {})
               /\ j \in ShownKeys(page, view) => ShowMove(j, Slot(cache, j), cache'[j], None, {})
    <3>1. CASE j = k
      BY <1>1, <3>1 DEF Slot
    <3>2. CASE j # k
      BY <1>1, <3>2, SameMove DEF Known
    <3> QED
      BY <3>1, <3>2
  <2>2. ShownKeys(page, view) \subseteq DOMAIN cache
    BY DEF Known, ShownInv
  <2>3. \A j : Guessed(j) => Guessed(j)'
    <3>1. \A c \in calls : c # None
      BY DEF TabTypeOK, CallState, None
    <3> QED
      BY <1>4, <3>1 DEF Guessed, CallsMove, Image
  <2> QED
    BY <1>1, <2>1, <2>2, <2>3 DEF SlotsMove, KeysMove, ShownMove
<1> QED
  BY <1>1, <1>3, <1>4

LEMMA SameCalls ==
  ASSUME TabTypeOK, calls' = calls
  PROVE  CallsMove(None, None, {}) /\ \A c \in calls : c # None
<1>1. \A c \in calls : c # None
  BY DEF TabTypeOK, CallState, None
<1> QED
  BY <1>1 DEF CallsMove, Image, TabTypeOK

LEMMA ReadStep ==
  ASSUME TabTypeOK, Known, NEW k \in DOMAIN cache, Read(k)
  PROVE  TabTypeOK' /\ Known'
<1>1. PICK s : s = cache[k]
  OBVIOUS
<1>2. PICK t : t = [s EXCEPT !.load = "read", !.got = On(Reads[k], server)]
  OBVIOUS
<1>3. /\ s \in SlotState /\ Present(s) /\ s.load = "asked"
      /\ On(Reads[k], server) \in SUBSET Edits
  BY <1>1 DEF Known, SlotInv, TabTypeOK, Read, On
<1>4. /\ t \in SlotState /\ t.load = "read" /\ t.got = On(Reads[k], server)
      /\ t.has = s.has /\ t.data = s.data /\ t.old = s.old /\ t.failed = s.failed
  BY <1>2, <1>3 DEF SlotState
<1>5. cache' = [cache EXCEPT ![k] = t]
  BY <1>1, <1>2 DEF Read
<1>6. SlotMove(k, cache[k], t, None, {}) /\ ShowMove(k, cache[k], t, None, {})
  BY <1>1, <1>4 DEF SlotMove, ShowMove, Present, ReadForm, DataForm
<1>7. UNCHANGED <<place, server, jobs, form, calls, bounds, answered>>
  BY DEF Read
<1>8. UNCHANGED <<page, view, visit, server, jobs, calls, edits, answered, form>>
  BY <1>7 DEF place, bounds
<1>9. /\ CacheState(cache') /\ cache' \in [DOMAIN cache' -> SlotState]
      /\ SlotsMove(None, {}) /\ KeysMove /\ ShownMove(None, {})
  BY <1>5, <1>6, <1>8, SlotStep, SameCalls
<1>10. page \in Routes
  BY DEF TabTypeOK
<1>11. Known'
  BY <1>8, <1>9, <1>10, QuietStep
<1>12. TabTypeOK'
  BY <1>7, <1>9 DEF TabTypeOK, place, bounds, CacheState
<1> QED
  BY <1>11, <1>12

LEMMA LoadStep ==
  ASSUME TabTypeOK, Known, NEW k \in DOMAIN cache, Load(k)
  PROVE  TabTypeOK' /\ Known'
<1>1. PICK s : s = cache[k]
  OBVIOUS
<1>2. PICK t : t = Loaded(s)
  OBVIOUS
<1>3. s \in SlotState /\ s.load = "read"
  BY <1>1 DEF TabTypeOK, Load
<1>4. /\ t \in SlotState /\ t.has = TRUE /\ t.data = s.got /\ t.load = "none"
      /\ t.got = {} /\ t.failed = FALSE /\ t.stale = s.late /\ t.old = s.late
  BY <1>2, <1>3, LoadedSlot
<1>5. cache' = [cache EXCEPT ![k] = t]
  BY <1>1, <1>2 DEF Load
<1>6. /\ SlotMove(k, cache[k], t, None, {})
      /\ k \in ShownKeys(page, view) => ShowMove(k, cache[k], t, None, {})
  BY <1>1, <1>3, <1>4 DEF SlotMove, ShowMove, Present, LoadForm, LoadedForm
<1>7. UNCHANGED <<place, server, jobs, calls, bounds, answered>>
  BY DEF Load
<1>8. UNCHANGED <<page, view, visit, server, jobs, calls, edits, answered>>
  BY <1>7 DEF place, bounds
<1>9. /\ CacheState(cache') /\ cache' \in [DOMAIN cache' -> SlotState]
      /\ SlotsMove(None, {}) /\ KeysMove /\ ShownMove(None, {})
  BY <1>5, <1>6, <1>8, SlotStep, SameCalls
<1>10. page \in Routes /\ form \in FormState
  BY DEF TabTypeOK, FormState
<1>11. form' = Fill(page, form, cache, cache', calls')
  BY <1>8 DEF Load
<1>12. Known'
  BY <1>8, <1>9, <1>10, <1>11, QuietStep
<1>13. form' \in FormState
  BY <1>9, <1>10, <1>11, FillTyped DEF CacheState
<1>14. TabTypeOK'
  BY <1>7, <1>9, <1>13 DEF TabTypeOK, place, bounds, CacheState, FormState
<1> QED
  BY <1>12, <1>14

LEMMA LoadFailsStep ==
  ASSUME TabTypeOK, Known, NEW k \in DOMAIN cache, LoadFails(k)
  PROVE  TabTypeOK' /\ Known'
<1>1. PICK s : s = cache[k]
  OBVIOUS
<1>2. PICK t : t = [s EXCEPT !.load = "none", !.got = {}, !.late = FALSE, !.failed = TRUE]
  OBVIOUS
<1>3. s \in SlotState
  BY <1>1 DEF TabTypeOK
<1>4. /\ t \in SlotState /\ t.load = "none" /\ t.got = {} /\ t.failed = TRUE
      /\ t.has = s.has /\ t.data = s.data /\ t.old = s.old
  BY <1>2, <1>3 DEF SlotState
<1>5. cache' = [cache EXCEPT ![k] = t]
  BY <1>1, <1>2 DEF LoadFails
<1>6. SlotMove(k, cache[k], t, None, {}) /\ ShowMove(k, cache[k], t, None, {})
  BY <1>1, <1>4 DEF SlotMove, ShowMove, Present, LoadForm, DataForm
<1>7. /\ UNCHANGED <<place, server, jobs, form, calls, edits, focus, answered>>
      /\ faults' = faults + 1
  BY DEF LoadFails
<1>8. UNCHANGED <<page, view, visit, server, jobs, calls, edits, answered, form>>
  BY <1>7 DEF place
<1>9. /\ CacheState(cache') /\ cache' \in [DOMAIN cache' -> SlotState]
      /\ SlotsMove(None, {}) /\ KeysMove /\ ShownMove(None, {})
  BY <1>5, <1>6, <1>8, SlotStep, SameCalls
<1>10. page \in Routes
  BY DEF TabTypeOK
<1>11. Known'
  BY <1>8, <1>9, <1>10, QuietStep
<1>12. TabTypeOK'
  BY <1>7, <1>9 DEF TabTypeOK, place, CacheState
<1> QED
  BY <1>11, <1>12

(* The tab mounts what it shows next, from the cache as it is.             *)
LEMMA PlacedQuiet ==
  ASSUME TabTypeOK, Known, UNCHANGED <<server, jobs, calls, edits, answered>>, Placed(cache),
         NEW f, NEW was, NEW p \in Routes, page' = p,
         \/ p = page /\ visit' = visit /\ f = form
         \/ visit' = visit + 1 /\ f = Unfilled,
         \/ form' = form /\ f = form
         \/ form' = Fill(p, f, was, cache', calls')
  PROVE  Known'
<1>1. CallsMove(None, None, {}) /\ \A c \in calls : c # None
  BY SameCalls
<1>2. \A k \in DOMAIN cache : SlotMove(k, Slot(cache, k), cache[k], None, {})
  BY SameMove DEF Known
<1>3. \A k \in ShownKeys(page, view) \cap DOMAIN cache :
        /\ ShowMove(k, Slot(cache, k), cache[k], None, {}) \/ Guessed(k)'
        /\ None \in calls /\ None.m.guesses = k =>
             Guessed(k)' \/ cache[k].load # "none" \/ cache[k].failed
  BY <1>1, SameMove DEF Known
<1>4. SlotsMove(None, {}) /\ KeysMove /\ ShownMove(None, {})
  BY <1>1, <1>2, <1>3, PlacedMoves
<1>5. CacheState(cache')
  BY DEF Placed
<1> QED
  BY <1>4, <1>5, QuietStep

LEMMA FocusStep ==
  ASSUME TabTypeOK, Known, Focus
  PROVE  TabTypeOK' /\ Known'
<1>1. CacheState(cache) /\ ShownKeys(page, view) \in SUBSET Keys /\ page \in Routes
  BY OfferFacts DEF TabTypeOK, CacheState
<1>2. /\ UNCHANGED <<place, server, jobs, form, calls, edits, faults, answered>>
      /\ focus' = focus + 1
  BY DEF Focus
<1>3. UNCHANGED <<page, view, visit, server, jobs, calls, edits, answered, form>>
  BY <1>2 DEF place
<1>4. PICK ks, c : ks = ShownKeys(page, view) /\ c = cache
  OBVIOUS
<1>10. CacheState(c) /\ ks \in SUBSET Keys
  BY <1>1, <1>4
<1>5. /\ CacheState(Mount(c, ks)) /\ Mount(c, ks) \in [DOMAIN Mount(c, ks) -> SlotState]
      /\ DOMAIN Mount(c, ks) = DOMAIN c \cup ks
      /\ \A k \in ks : Mount(c, ks)[k].load # "none"
      /\ \A k \in DOMAIN c \ ks : Mount(c, ks)[k] = c[k]
      /\ \A k \in DOMAIN Mount(c, ks) :
           Mount(c, ks)[k] = Fetch(Slot(c, k)) \/ (k \in DOMAIN c /\ Mount(c, ks)[k] = c[k])
  BY <1>10, MountForms
<1>6. cache' = Mount(c, ks)
  BY <1>4 DEF Focus
<1>7. Placed(cache) /\ cache' \in [DOMAIN cache' -> SlotState]
  BY <1>3, <1>4, <1>5, <1>6 DEF Placed
<1>8. Known'
  BY <1>1, <1>3, <1>7, PlacedQuiet
<1>9. TabTypeOK'
  BY <1>2, <1>7 DEF TabTypeOK, place, Placed, CacheState
<1> QED
  BY <1>8, <1>9

LEMMA TurnToStep ==
  ASSUME TabTypeOK, Known, NEW m \in Pages[page].moves, TurnTo(m)
  PROVE  TabTypeOK' /\ Known'
<1>1. /\ Turn(m.to, cache, form, calls) /\ UNCHANGED <<server, jobs, calls, bounds, answered>>
      /\ UNCHANGED <<server, jobs, calls, edits, answered>>
  BY DEF TurnTo, bounds
<1>2. /\ CacheState(cache) /\ page \in Routes /\ form \in FormState
      /\ ShownKeys(page, view) \subseteq DOMAIN cache
  BY DEF TabTypeOK, CacheState, FormState, Known, ShownInv
<1>3. /\ page' = page /\ visit' = visit /\ tour' = tour /\ Placed(cache)
      /\ cache' \in [DOMAIN cache' -> SlotState]
      /\ form' = Fill(page, form, cache, cache', calls) /\ form' \in FormState
  BY <1>1, <1>2, TurnPlaced
<1>4. form' = Fill(page, form, cache, cache', calls')
  BY <1>1, <1>3
<1>5. Known'
  BY <1>1, <1>2, <1>3, <1>4, PlacedQuiet
<1>6. TabTypeOK'
  BY <1>1, <1>3 DEF TabTypeOK, bounds, Placed, CacheState, FormState
<1> QED
  BY <1>5, <1>6

LEMMA FollowStep ==
  ASSUME TabTypeOK, Known, NEW p \in Pages[page].links, Follow(p)
  PROVE  TabTypeOK' /\ Known'
<1>1. /\ Go(p, cache, calls) /\ UNCHANGED <<server, jobs, calls, bounds, answered>>
      /\ UNCHANGED <<server, jobs, calls, edits, answered>>
  BY DEF Follow, bounds
<1>2. CacheState(cache) /\ p \in Routes
  BY OfferFacts DEF TabTypeOK, CacheState
<1>3. /\ page' = p /\ visit' = visit + 1 /\ tour' = tour /\ Placed(cache)
      /\ cache' \in [DOMAIN cache' -> SlotState]
      /\ form' = Fill(p, Unfilled, cache, cache', calls) /\ form' \in FormState
  BY <1>1, <1>2, GoPlaced
<1>4. form' = Fill(p, Unfilled, cache, cache', calls')
  BY <1>1, <1>3
<1>5. Known'
  BY <1>1, <1>2, <1>3, <1>4, PlacedQuiet
<1>6. TabTypeOK'
  BY <1>1, <1>2, <1>3 DEF TabTypeOK, bounds, Placed, CacheState, FormState
<1> QED
  BY <1>5, <1>6

(* A step that leaves the cache and what is shown alone.                   *)
LEMMA StillMoves ==
  ASSUME TabTypeOK, Known, UNCHANGED <<page, view, cache>>, NEW x,
         \A k : Guessed(k) => Guessed(k)'
  PROVE  SlotsMove(x, {}) /\ KeysMove /\ ShownMove(x, {}) /\ CacheState(cache')
<1>1. /\ \A k \in DOMAIN cache : SlotMove(k, Slot(cache, k), cache[k], x, {})
      /\ \A k \in ShownKeys(page, view) :
           k \in DOMAIN cache /\ ShowMove(k, Slot(cache, k), cache[k], x, {})
  BY SameMove DEF Known, ShownInv
<1>2. CacheState(cache')
  BY DEF TabTypeOK, CacheState
<1> QED
  BY <1>1, <1>2 DEF SlotsMove, KeysMove, ShownMove

LEMMA WorkStep ==
  ASSUME TabTypeOK, Known, NEW e \in jobs, Work(e)
  PROVE  TabTypeOK' /\ Known'
<1>1. /\ UNCHANGED <<page, view, visit, tour, cache, form, calls, edits, faults, focus, answered>>
      /\ server' = server \cup {e} /\ jobs' = jobs \ {e}
  BY DEF Work, place, bounds
<1>2. e \in Edits /\ e \notin answered
  BY DEF TabTypeOK, Known, EditInv
<1>3. CallsMove(None, None, {}) /\ \A k : Guessed(k) => Guessed(k)'
  BY <1>1, SameCalls DEF Guessed
<1>4. SlotsMove(None, {}) /\ KeysMove /\ ShownMove(None, {}) /\ CacheState(cache')
  BY <1>1, <1>3, StillMoves
<1>5. KnownMove(None, None, {})
  BY <1>1, <1>2 DEF KnownMove, None, Opens
<1>6. Moved(None, None, {}) /\ ~PutMove(None)
  BY <1>3, <1>4, <1>5 DEF Moved, PutMove, None
<1>7. SlotInv' /\ ShownInv' /\ AnswerInv'
  BY <1>1, <1>4, <1>6, SlotsStay, ShownStays, AnswersStay DEF Known, TabTypeOK
<1>8. EditInv' /\ WasInv' /\ KeepInv' /\ VisitInv'
  BY <1>1 DEF Known, EditInv, WasInv, KeepInv, VisitInv, About
<1>9. FormInv'
  BY <1>1, <1>2 DEF Known, FormInv, FormGood
<1>10. TabTypeOK'
  BY <1>1, <1>2 DEF TabTypeOK
<1> QED
  BY <1>7, <1>8, <1>9, <1>10 DEF Known

LEMMA AnswerOf ==
  ASSUME NEW c \in CallState, c.m \in Sends(c.offer)
  PROVE  /\ Answer(c) # {} => c.m.kind # "later"
         /\ \A m \in Mutations : m.on \cap Answer(c) # {} => m.on \subseteq Answer(c)
<1>1. c.offer \in Offers /\ c.m \in Mutations
  BY CallFields
<1>2. PICK r \in Routes : c.offer \in Pages[r].offers
  BY <1>1 DEF Offers
<1>3. c.offer.fills =>
        /\ c.m = c.offer.does /\ c.m.kind = "adds" /\ c.m.puts = <<>>
        /\ c.m.on = Pages[r].form.fills
        /\ \A m \in Mutations : m.on \cap c.m.on # {} => m.on \subseteq c.m.on
  <2> SUFFICES ASSUME c.offer.fills
               PROVE  /\ c.m = c.offer.does /\ c.m.kind = "adds" /\ c.m.puts = <<>>
                      /\ c.m.on = Pages[r].form.fills
                      /\ \A m \in Mutations : m.on \cap c.m.on # {} => m.on \subseteq c.m.on
    OBVIOUS
  <2>1. /\ c.offer.does.on = Pages[r].form.fills /\ c.offer.does.kind = "adds"
        /\ c.offer.chains = {} /\ c.offer.does.puts = <<>>
        /\ \A m \in Mutations : m.on \cap Pages[r].form.fills # {} =>
             m.on \subseteq Pages[r].form.fills
    BY <1>2, PageFacts
  <2>2. c.m = c.offer.does
    BY <2>1 DEF Sends
  <2> QED
    BY <2>1, <2>2
<1>4. CASE c.offer.fills
  <2>1. Answer(c) = c.m.on
    BY <1>3, <1>4 DEF Answer
  <2> QED
    BY <1>3, <1>4, <2>1
<1>5. CASE ~c.offer.fills
  <2>1. Answer(c) = (IF c.m.puts = <<>> THEN {} ELSE Reads[c.m.puts])
    BY <1>5 DEF Answer
  <2>2. c.m.puts # <<>> => c.m.puts \in Keys /\ c.m.kind # "later"
    BY <1>1, MutationFacts
  <2>3. \A m \in Mutations : c.m.puts \in Keys /\ m.on \cap Reads[c.m.puts] # {} =>
          m.on \subseteq Reads[c.m.puts]
    BY MutationFacts
  <2> QED
    BY <2>1, <2>2, <2>3
<1> QED
  BY <1>4, <1>5

(* A request takes effect.                                                 *)
LEMMA Served ==
  ASSUME TabTypeOK, Known, NEW c \in calls, Serve(c)
  PROVE  LET new == [c EXCEPT !.stage = "done", !.got = On(Answer(c), server')] IN
         /\ calls' = (calls \ {c}) \cup {new} /\ new \in CallState
         /\ server' \subseteq Edits
         /\ new.stage = "done" /\ new.got = On(Answer(new), server')
         /\ new.offer = c.offer /\ new.m = c.m /\ new.edit = c.edit
         /\ new.visit = c.visit /\ new.latest = c.latest /\ new.base = c.base
         /\ new.was = c.was /\ new.keeps = c.keeps
<1>1. /\ c \in CallState /\ c.edit \in Edits /\ c.base \subseteq Edits
      /\ c.m.kind \in {"adds", "whole", "later"}
  BY CallFields, MutationFacts DEF TabTypeOK
<1>2. server' \subseteq Edits
  BY <1>1 DEF Serve, TabTypeOK
<1>3. PICK g : g = On(Answer(c), server')
  OBVIOUS
<1>4. g \in SUBSET Edits
  BY <1>2, <1>3 DEF On
<1>5. PICK n : n = [c EXCEPT !.stage = "done", !.got = g]
  OBVIOUS
<1>6. /\ n \in CallState /\ n.stage = "done" /\ n.got = g
      /\ n.offer = c.offer /\ n.m = c.m /\ n.edit = c.edit
      /\ n.visit = c.visit /\ n.latest = c.latest /\ n.base = c.base
      /\ n.was = c.was /\ n.keeps = c.keeps
  BY <1>1, <1>4, <1>5 DEF CallState
<1>7. Answer(n) = Answer(c)
  BY <1>6 DEF Answer
<1>8. calls' = (calls \ {c}) \cup {n}
  BY <1>3, <1>5 DEF Serve
<1> QED
  BY <1>2, <1>3, <1>5, <1>6, <1>7, <1>8

LEMMA ServeStep ==
  ASSUME TabTypeOK, Known, NEW c \in calls, Serve(c)
  PROVE  TabTypeOK' /\ Known'
<1>1. PICK new : new = [c EXCEPT !.stage = "done", !.got = On(Answer(c), server')]
  OBVIOUS
<1>2. /\ calls' = (calls \ {c}) \cup {new} /\ new \in CallState
      /\ server' \subseteq Edits
      /\ new.stage = "done" /\ new.got = On(Answer(new), server')
      /\ new.offer = c.offer /\ new.m = c.m /\ new.edit = c.edit
      /\ new.visit = c.visit /\ new.latest = c.latest /\ new.base = c.base
      /\ new.was = c.was /\ new.keeps = c.keeps
  BY <1>1, Served
<1>3. /\ UNCHANGED <<page, view, visit, tour, cache, form, edits, faults, focus, answered>>
      /\ c.stage = "asked"
      /\ jobs' = IF c.m.kind = "later" THEN jobs \cup {c.edit} ELSE jobs
  BY DEF Serve, place, bounds
<1>4. /\ c \in CallState /\ c.m \in Mutations /\ c.edit \in Edits
      /\ c.m.kind \in {"adds", "whole", "later"}
      /\ c.edit.on \in c.m.on /\ c.edit.n <= edits /\ c.edit \notin answered
      /\ \A e \in c.base : e.on \in c.m.on
      /\ c.m \in Sends(c.offer)
      /\ \A d \in calls : d # c => d.edit # c.edit
  BY CallFields, MutationFacts DEF TabTypeOK, Known, EditInv, VisitInv
<1>5. /\ c.m.kind = "adds" => server' = server \cup {c.edit}
      /\ c.m.kind = "whole" =>
           server' = (server \ On(c.m.on, server)) \cup c.base \cup {c.edit}
      /\ c.m.kind = "later" => server' = server
  BY DEF Serve
<1>6. CallsMove(c, new, {})
  <2>1. \A d \in calls : d # c => d \in calls' /\ Image(d, d)
    BY <1>2 DEF Image
  <2>2. \A d \in calls' : d # new => d \in calls /\ d # c /\ Image(d, d)
    BY <1>2 DEF Image
  <2>3. calls' \subseteq CallState
    BY <1>2 DEF TabTypeOK
  <2> QED
    BY <2>1, <2>2, <2>3 DEF CallsMove
<1>7. KnownMove(c, new, {})
  <2>1. ASSUME NEW e \in Edits, e.on \notin c.m.on
        PROVE  e \in server' <=> e \in server
    BY <1>4, <1>5, <2>1 DEF On
  <2>2. \A e \in Edits : e.on \in c.m.on => Opens(new, e)
    BY <1>2 DEF Opens
  <2>3. new.edit.on \in Answer(new) => new.edit \in server'
    <3>1. Answer(new) = Answer(c)
      BY <1>2 DEF Answer
    <3>2. Answer(c) # {} => c.m.kind # "later"
      BY <1>4, AnswerOf
    <3> QED
      BY <1>2, <1>4, <1>5, <3>1, <3>2
  <2> QED
    BY <1>2, <1>3, <1>4, <2>1, <2>2, <2>3 DEF KnownMove
<1>8. \A k : Guessed(k) => Guessed(k)'
  BY <1>2 DEF Guessed
<1>9. SlotsMove(c, {}) /\ KeysMove /\ ShownMove(c, {}) /\ CacheState(cache')
  BY <1>3, <1>8, StillMoves
<1>10. Moved(c, new, {}) /\ ~PutMove(c)
  BY <1>3, <1>6, <1>7, <1>9 DEF Moved, PutMove
<1>11. SlotInv' /\ ShownInv' /\ AnswerInv'
  BY <1>3, <1>9, <1>10, SlotsStay, ShownStays, AnswersStay DEF Known, TabTypeOK
<1>12. EditInv'
  <2>1. ASSUME NEW d \in calls'
        PROVE  /\ d.edit.on \in d.m.on /\ d.edit.n <= edits' /\ d.edit \notin answered'
               /\ d.m.kind # "later" => d.edit \notin jobs'
               /\ \A e \in d.base : e.on \in d.m.on
    BY <1>2, <1>3, <1>4 DEF Known, EditInv
  <2>2. \A d, f \in calls' : d.edit = f.edit => d = f
    BY <1>2, <1>4 DEF Known, EditInv
  <2>3. (\A e \in answered' \cup jobs' : e.n <= edits') /\ answered' \cap jobs' = {}
    BY <1>3, <1>4 DEF Known, EditInv
  <2> QED
    BY <2>1, <2>2, <2>3 DEF EditInv
<1>13. VisitInv' /\ WasInv' /\ KeepInv'
  BY <1>2, <1>3 DEF Known, VisitInv, WasInv, KeepInv, About
<1>14. FormInv'
  <2> DEFINE fills == Pages[page].form.fills
  <2> SUFFICES ASSUME form.sound
               PROVE  /\ \A e \in answered \cap server' : e.on \in fills => e \in form.holds
                      /\ \A d \in calls' : d.m.on \cap fills # {} =>
                           /\ d.visit = visit
                           /\ d.m.kind = "whole" =>
                                /\ d.edit \in form.holds
                                /\ \A e \in d.base : e.on \in fills => e \in form.holds
    BY <1>3 DEF FormInv, FormGood
  <2>1. /\ \A e \in answered \cap server : e.on \in fills => e \in form.holds
        /\ \A d \in calls : d.m.on \cap fills # {} =>
             /\ d.visit = visit
             /\ d.m.kind = "whole" =>
                  /\ d.edit \in form.holds
                  /\ \A e \in d.base : e.on \in fills => e \in form.holds
    BY DEF Known, FormInv, FormGood
  <2>2. ASSUME NEW e \in answered \cap server', e.on \in fills  PROVE e \in form.holds
    <3>1. e \in server \/ (e \in c.base /\ c.m.kind = "whole")
      BY <1>4, <1>5, <2>2
    <3> QED
      BY <1>4, <2>1, <2>2, <3>1
  <2> QED
    BY <1>2, <2>1, <2>2
<1>15. TabTypeOK'
  <2>1. jobs' \subseteq Edits
    BY <1>3, <1>4 DEF TabTypeOK
  <2> QED
    BY <1>2, <1>3, <2>1 DEF TabTypeOK
<1> QED
  BY <1>11, <1>12, <1>13, <1>14, <1>15 DEF Known

(* Requests keep their edits, one each.                                    *)
LEMMA SupersededUnique ==
  ASSUME calls \subseteq CallState, \A c, d \in calls : c.edit = d.edit => c = d, NEW by
  PROVE  \A c, d \in Superseded(calls, by) : c.edit = d.edit => c = d
<1> DEFINE older(c) == c.visit = visit /\ c.offer.by = by
           after(c) == [c EXCEPT !.latest = @ /\ ~older(c)]
<1>1. \A c \in calls : after(c).edit = c.edit
  BY DEF CallState
<1>2. Superseded(calls, by) = {after(c) : c \in calls}
  BY DEF Superseded
<1> HIDE DEF after
<1> QED
  BY <1>1, <1>2

LEMMA OvertakenUnique ==
  ASSUME NEW cs \in SUBSET CallState, \A c, d \in cs : c.edit = d.edit => c = d, NEW x
  PROVE  \A c, d \in Overtaken(cs, x) : c.edit = d.edit => c = d
<1> DEFINE after(c) == [c EXCEPT !.late = @ \/ (c.stage = "done" /\ x.edit.on \in Answer(c))]
<1>1. \A c \in cs : after(c).edit = c.edit
  BY DEF CallState
<1>2. Overtaken(cs, x) = {after(c) : c \in cs}
  BY DEF Overtaken
<1> HIDE DEF after
<1> QED
  BY <1>1, <1>2

(* What is sent, and what becomes of the other requests, keeps their facts.*)
LEMMA SentStays ==
  ASSUME TabTypeOK, Known, NEW cs \in SUBSET CallState, NEW c, New(c),
         \A d \in cs : \E b \in calls : Image(b, d),
         \A d, f \in cs : d.edit = f.edit => d = f,
         calls' = cs \cup {c}, edits' = edits + 1, jobs' = jobs,
         answered' \subseteq Edits, \A e \in answered' : e.n <= edits, answered' \cap jobs = {},
         \A d \in cs : d.edit \notin answered',
         c.m.guesses # <<>> => About(c.m.guesses, c.was)
  PROVE  EditInv' /\ WasInv' /\ KeepInv' /\ calls' \subseteq CallState /\ edits' \in Nat
<1>1. /\ c \in CallState /\ c.edit.n = edits + 1 /\ c.edit.on \in c.m.on
      /\ c.base = On(c.m.on, form.holds) /\ edits \in Nat
      /\ c.keeps = (IF form.sound THEN On(Pages[page].form.fills, answered \cap server) ELSE {})
  BY DEF New, TabTypeOK
<1>2. \A d \in cs : d.edit.n <= edits /\ d.edit.n \in Nat
  <2> TAKE d \in cs
  <2>1. PICK b \in calls : Image(b, d)
    OBVIOUS
  <2>2. b.edit.n <= edits /\ b.edit \in Edits
    BY CallFields DEF Known, EditInv, TabTypeOK
  <2> QED
    BY <2>1, <2>2 DEF Image, Edits
<1>3. EditInv'
  <2>1. ASSUME NEW d \in calls'
        PROVE  /\ d.edit.on \in d.m.on /\ d.edit.n <= edits' /\ d.edit \notin answered'
               /\ d.m.kind # "later" => d.edit \notin jobs'
               /\ \A e \in d.base : e.on \in d.m.on
    <3>1. CASE d = c
      <4>1. c.edit \notin answered' /\ c.edit \notin jobs
        BY <1>1 DEF Known, EditInv
      <4> QED
        BY <1>1, <3>1, <4>1 DEF On
    <3>2. CASE d \in cs
      <4>1. PICK b \in calls : Image(b, d)
        BY <3>2
      <4> QED
        BY <1>1, <1>2, <3>2, <4>1 DEF Image, Known, EditInv
    <3> QED
      BY <3>1, <3>2
  <2>2. \A d, f \in calls' : d.edit = f.edit => d = f
    BY <1>1, <1>2
  <2>3. \A e \in answered' \cup jobs' : e.n <= edits'
    <3>1. \A e \in jobs : e.n <= edits /\ e.n \in Nat
      BY DEF Known, EditInv, TabTypeOK, Edits
    <3>2. \A e \in answered' : e.n <= edits /\ e.n \in Nat
      BY DEF Edits
    <3> QED
      BY <1>1, <3>1, <3>2
  <2> QED
    BY <2>1, <2>2, <2>3 DEF EditInv
<1>4. WasInv'
  BY DEF Known, WasInv, Image, About
<1>5. KeepInv'
  <2> SUFFICES ASSUME NEW d \in calls', NEW e \in d.keeps, d.m.kind = "whole", e.on \in d.m.on
               PROVE  e \in d.base
    BY DEF KeepInv
  <2>1. CASE d = c
    <3>1. form.sound /\ e \in answered \cap server /\ e.on \in Pages[page].form.fills
      BY <1>1, <2>1 DEF On
    <3>2. e \in form.holds
      BY <3>1 DEF Known, FormInv, FormGood
    <3> QED
      BY <1>1, <2>1, <3>2 DEF On
  <2>2. CASE d \in cs
    <3>1. PICK b \in calls : Image(b, d)
      BY <2>2
    <3> QED
      BY <3>1 DEF Image, Known, KeepInv
  <2> QED
    BY <2>1, <2>2
<1> QED
  BY <1>1, <1>3, <1>4, <1>5

LEMMA ClickStep ==
  ASSUME TabTypeOK, Known, NEW o \in Pages[page].offers, Click(o)
  PROVE  TabTypeOK' /\ Known'
<1>1. PICK r \in o.does.on :
       LET m == o.does
           e == Edit(edits + 1, r)
           k == m.guesses
           c == [Call(o, m, e) EXCEPT !.was = IF k = <<>> THEN {} ELSE cache[k].data]
           v == IF o.now = Keeps THEN view ELSE o.now
           cached == IF k = <<>> THEN cache ELSE [cache EXCEPT ![k] = Guess(@, e)]
       IN /\ calls' = Superseded(calls, o.by) \cup {c}
          /\ cache' = Mount(cached, ShownKeys(page, v) \ ShownKeys(page, view))
          /\ view' = v
          /\ form' = IF m.kind = "whole" THEN [form EXCEPT !.holds = @ \cup {e}]
                     ELSE form
  BY DEF Click
<1>2. PICK m, e, k : m = o.does /\ e = Edit(edits + 1, r) /\ k = m.guesses
  OBVIOUS
<1>3. PICK was : was = IF k = <<>> THEN {} ELSE cache[k].data
  OBVIOUS
<1>4. PICK c : c = [Call(o, m, e) EXCEPT !.was = was]
  OBVIOUS
<1>5. PICK cached, ks, cs :
        /\ cached = IF k = <<>> THEN cache ELSE [cache EXCEPT ![k] = Guess(@, e)]
        /\ ks = ShownKeys(page, view') \ ShownKeys(page, view)
        /\ cs = Superseded(calls, o.by)
  OBVIOUS
<1>6. /\ calls' = cs \cup {c} /\ cache' = Mount(cached, ks)
      /\ form' = IF m.kind = "whole" THEN [form EXCEPT !.holds = @ \cup {e}] ELSE form
  BY <1>1, <1>2, <1>3, <1>4, <1>5
<1>7. /\ o.again \/ ~Pending(o.by)
      /\ m.guesses # <<>> => Has(cache, m.guesses)
      /\ edits' = edits + 1
      /\ UNCHANGED <<tour, page, visit, server, jobs, faults, focus, answered>>
  BY <1>2 DEF Click
<1>8. /\ o \in Offers /\ m \in Mutations /\ m \in Sends(o) /\ page \in Routes /\ edits \in Nat
  BY <1>2, OfferFacts DEF TabTypeOK, Sends
<1>9. k # <<>> => /\ k \in DOMAIN cache /\ k \in Keys /\ m.on = Reads[k]
                  /\ cache[k] \in SlotState /\ About(k, cache[k].data) /\ ~Unguessed(k)
  <2>1. k # <<>> => k \in DOMAIN cache
    BY <1>2, <1>7, EmptySlot DEF Has, Slot
  <2> QED
    BY <1>2, <1>8, <2>1, MutationFacts DEF TabTypeOK, Known, SlotInv, Unguessed
<1>10. was \in SUBSET Edits /\ (k # <<>> => About(k, was))
  BY <1>3, <1>9, SlotFields
<1>11. /\ e \in Edits /\ e.on = r /\ r \in m.on
  BY <1>2, <1>8, MutationFacts DEF Edit
<1>12. New(c) /\ c.offer = o /\ c.m = m /\ c.was = was /\ c.edit = e
  <2>1. c = Sent(o, m, e, was)
    BY <1>4 DEF Sent
  <2>2. /\ New(Sent(o, m, e, was)) /\ Sent(o, m, e, was).offer = o
        /\ Sent(o, m, e, was).m = m /\ Sent(o, m, e, was).was = was
        /\ Sent(o, m, e, was).edit = e
    BY <1>2, <1>8, <1>10, <1>11, NewCall
  <2> QED
    BY <2>1, <2>2
<1>13. /\ cs \subseteq CallState
       /\ \A d \in calls : \E f \in cs : Image(d, f)
       /\ \A f \in cs : \E d \in calls :
            Image(d, f) /\ (d.latest /\ ~(d.visit = visit /\ d.offer.by = o.by) => f.latest)
  BY <1>5, SupersededImages DEF TabTypeOK
<1>14. \A d, f \in cs : d.edit = f.edit => d = f
  BY <1>5, SupersededUnique DEF TabTypeOK, Known, EditInv
<1>15. CallsMove(None, c, {})
  BY <1>6, <1>12, <1>13 DEF CallsMove, New, None, TabTypeOK, CallState
<1>16. KnownMove(None, c, {})
  BY <1>7, <1>12 DEF KnownMove, New, None
<1>17. /\ CacheState(cached) /\ DOMAIN cached = DOMAIN cache
       /\ k # <<>> => cached[k] = Guess(cache[k], e)
       /\ \A j \in DOMAIN cache : j # k => cached[j] = cache[j]
  <2>1. \A j \in DOMAIN cache : j # <<>>
    BY HooksAssumption DEF TabTypeOK
  <2>2. k # <<>> => Guess(cache[k], e) \in SlotState
    BY <1>9, <1>11, GuessSlot
  <2> QED
    BY <1>5, <1>9, <2>1, <2>2 DEF CacheState, TabTypeOK
<1>18. Placed(cached) /\ cache' \in [DOMAIN cache' -> SlotState]
  <2>1. ks \in SUBSET Keys
    BY <1>5, <1>8, OfferFacts
  <2>2. /\ CacheState(Mount(cached, ks))
        /\ Mount(cached, ks) \in [DOMAIN Mount(cached, ks) -> SlotState]
        /\ DOMAIN Mount(cached, ks) = DOMAIN cached \cup ks
        /\ \A j \in ks : Mount(cached, ks)[j].load # "none"
        /\ \A j \in DOMAIN cached \ ks : Mount(cached, ks)[j] = cached[j]
        /\ \A j \in DOMAIN Mount(cached, ks) :
             \/ Mount(cached, ks)[j] = Fetch(Slot(cached, j))
             \/ j \in DOMAIN cached /\ Mount(cached, ks)[j] = cached[j]
    BY <1>17, <2>1, MountForms
  <2>3. ShownKeys(page, view) \subseteq DOMAIN cached
    BY <1>17 DEF Known, ShownInv
  <2> QED
    BY <1>5, <1>6, <1>7, <2>2, <2>3 DEF Placed
<1>19. SlotsMove(None, {}) /\ KeysMove /\ ShownMove(None, {})
  <2>1. ASSUME NEW j \in DOMAIN cached
        PROVE  /\ SlotMove(j, Slot(cache, j), cached[j], None, {})
               /\ j \in ShownKeys(page, view) =>
                    ShowMove(j, Slot(cache, j), cached[j], None, {}) \/ Guessed(j)'
    <3>1. CASE j = k
      <4>1. k # <<>>
        BY <1>17, <3>1, HooksAssumption DEF TabTypeOK
      <4>2. PICK t : t = cached[k]
        OBVIOUS
      <4>7. PICK s : s = cache[k]
        OBVIOUS
      <4>8. s \in SlotState /\ t = Guess(s, e)
        BY <1>9, <1>17, <4>1, <4>2, <4>7
      <4>9. /\ t \in SlotState /\ t.has = TRUE /\ t.data = s.data \cup {e}
            /\ t.load = "none" /\ t.got = {}
        BY <1>11, <4>8, GuessSlot
      <4>3. /\ t \in SlotState /\ t.has = TRUE /\ t.data = cache[k].data \cup {e}
            /\ t.load = "none" /\ t.got = {}
        BY <4>7, <4>9
      <4>4. About(k, t.data)
        BY <1>9, <1>11, <4>1, <4>3 DEF About
      <4>5. SlotMove(k, Slot(cache, k), t, None, {})
        BY <1>9, <4>1, <4>3, <4>4 DEF SlotMove, Present, LoadForm, GuessForm
      <4>6. Guessed(k)'
        BY <1>2, <1>6, <1>12 DEF Guessed
      <4> QED
        BY <3>1, <4>2, <4>5, <4>6
    <3>2. CASE j # k
      BY <1>17, <3>2, SameMove DEF Known
    <3> QED
      BY <3>1, <3>2
  <2>2. None \notin calls
    BY DEF TabTypeOK, CallState, None
  <2> QED
    BY <1>15, <1>18, <2>1, <2>2, PlacedMoves
<1>20. Moved(None, c, {}) /\ ~PutMove(None)
  BY <1>15, <1>16, <1>19 DEF Moved, PutMove, None
<1>21. SlotInv' /\ ShownInv' /\ AnswerInv'
  BY <1>7, <1>18, <1>20, SlotsStay, ShownStays, AnswersStay
    DEF Known, TabTypeOK, Placed
<1>22. EditInv' /\ WasInv' /\ KeepInv' /\ calls' \subseteq CallState /\ edits' \in Nat
  <2>1. \A d \in cs : d.edit \notin answered'
    BY <1>7, <1>13 DEF Image, Known, EditInv
  <2>2. jobs' = jobs /\ answered' = answered
    BY DEF Click
  <2>3. /\ answered' \subseteq Edits /\ \A f \in answered' : f.n <= edits
        /\ answered' \cap jobs = {}
    BY <2>2 DEF TabTypeOK, Known, EditInv
  <2>4. c.m.guesses # <<>> => About(c.m.guesses, c.was)
    BY <1>2, <1>10, <1>12
  <2> QED
    BY <1>6, <1>7, <1>12, <1>13, <1>14, <2>1, <2>2, <2>3, <2>4, SentStays
<1>23. VisitInv'
  <2> SUFFICES ASSUME NEW f \in calls'
               PROVE  /\ f.m \in Sends(f.offer) /\ f.visit <= visit
                      /\ f.visit = visit =>
                           f.offer \in Pages[page].offers /\ (f.offer.fills => f.latest)
    BY <1>7 DEF VisitInv
  <2>1. CASE f = c
    BY <1>12, <2>1 DEF New, TabTypeOK
  <2>2. CASE f \in cs
    <3>1. PICK d \in calls :
            Image(d, f) /\ (d.latest /\ ~(d.visit = visit /\ d.offer.by = o.by) => f.latest)
      BY <1>13, <2>2
    <3>2. /\ d.m \in Sends(d.offer) /\ d.visit <= visit
          /\ d.visit = visit => d.offer \in Pages[page].offers /\ (d.offer.fills => d.latest)
      BY DEF Known, VisitInv
    <3>3. ASSUME d.visit = visit, d.offer.fills, d.offer.by = o.by  PROVE FALSE
      <4>1. ~o.again
        BY <1>8, <3>2, <3>3, PageFacts
      <4> QED
        BY <1>7, <3>3, <4>1 DEF Pending
    <3> QED
      BY <3>1, <3>2, <3>3 DEF Image
  <2> QED
    BY <1>6, <2>1, <2>2
<1>24. /\ form' \in FormState /\ form'.sound = form.sound
       /\ form.holds \subseteq form'.holds
       /\ m.kind = "whole" => e \in form'.holds
  BY <1>6, <1>11 DEF TabTypeOK, FormState
<1>25. FormInv'
  <2> DEFINE fills == Pages[page].form.fills
  <2> SUFFICES ASSUME form.sound
               PROVE  /\ \A x \in answered \cap server : x.on \in fills => x \in form'.holds
                      /\ \A d \in calls' : d.m.on \cap fills # {} =>
                           /\ d.visit = visit
                           /\ d.m.kind = "whole" =>
                                /\ d.edit \in form'.holds
                                /\ \A x \in d.base : x.on \in fills => x \in form'.holds
    BY <1>7, <1>24 DEF FormInv, FormGood
  <2>1. /\ \A x \in answered \cap server : x.on \in fills => x \in form.holds
        /\ \A d \in calls : d.m.on \cap fills # {} =>
             /\ d.visit = visit
             /\ d.m.kind = "whole" =>
                  /\ d.edit \in form.holds
                  /\ \A x \in d.base : x.on \in fills => x \in form.holds
    BY DEF Known, FormInv, FormGood
  <2>2. ASSUME NEW d \in calls', d.m.on \cap fills # {}
        PROVE  /\ d.visit = visit
               /\ d.m.kind = "whole" =>
                    /\ d.edit \in form'.holds
                    /\ \A x \in d.base : x.on \in fills => x \in form'.holds
    <3>1. CASE d = c
      BY <1>12, <1>24, <3>1 DEF New, On
    <3>2. CASE d \in cs
      <4>1. PICK b \in calls : Image(b, d)
        BY <1>13, <3>2
      <4> QED
        BY <1>24, <2>1, <2>2, <4>1 DEF Image
    <3> QED
      BY <1>6, <3>1, <3>2
  <2> QED
    BY <1>24, <2>1, <2>2
<1>26. TabTypeOK'
  <2>1. jobs' = jobs
    BY DEF Click
  <2> QED
    BY <1>7, <1>18, <1>22, <1>24, <2>1
      DEF TabTypeOK, FormState, Placed, CacheState
<1> QED
  BY <1>21, <1>22, <1>23, <1>25, <1>26 DEF Known

(* The requests that are left when one ends keep their facts.              *)
LEMMA ImagesStay ==
  ASSUME TabTypeOK, Known, calls' \subseteq CallState,
         \A d \in calls' : \E b \in calls : Image(b, d),
         \A d, f \in calls' : d.edit = f.edit => d = f,
         edits' = edits, jobs' = jobs,
         \A e \in answered' : e.n <= edits, answered' \cap jobs = {},
         \A d \in calls' : d.edit \notin answered'
  PROVE  EditInv' /\ WasInv' /\ KeepInv'
<1>1. EditInv'
  <2>1. ASSUME NEW d \in calls'
        PROVE  /\ d.edit.on \in d.m.on /\ d.edit.n <= edits' /\ d.edit \notin answered'
               /\ d.m.kind # "later" => d.edit \notin jobs'
               /\ \A e \in d.base : e.on \in d.m.on
    <3>1. PICK b \in calls : Image(b, d)
      OBVIOUS
    <3> QED
      BY <3>1 DEF Image, Known, EditInv
  <2>2. (\A e \in answered' \cup jobs' : e.n <= edits') /\ answered' \cap jobs' = {}
    BY DEF Known, EditInv
  <2> QED
    BY <2>1, <2>2 DEF EditInv
<1>2. WasInv' /\ KeepInv'
  BY DEF Known, WasInv, KeepInv, Image, About
<1> QED
  BY <1>1, <1>2

LEMMA VisitStays ==
  ASSUME TabTypeOK, Known, NEW new,
         \/ page' = page /\ visit' = visit
         \/ visit' = visit + 1,
         \A d \in calls' : d = new \/ \E b \in calls : Image(b, d) /\ d.latest = b.latest,
         new \in calls' => New(new)
  PROVE  VisitInv'
<1> SUFFICES ASSUME NEW d \in calls'
             PROVE  /\ d.m \in Sends(d.offer) /\ d.visit <= visit'
                    /\ d.visit = visit' =>
                         d.offer \in Pages[page'].offers /\ (d.offer.fills => d.latest)
  BY DEF VisitInv
<1>1. visit \in Nat
  BY DEF TabTypeOK
<1>2. CASE d = new
  BY <1>1, <1>2 DEF New
<1>3. CASE d # new
  <2>1. PICK b \in calls : Image(b, d) /\ d.latest = b.latest
    BY <1>3
  <2>2. /\ b.m \in Sends(b.offer) /\ b.visit <= visit /\ b.visit \in Nat
        /\ b.visit = visit => b.offer \in Pages[page].offers /\ (b.offer.fills => b.latest)
    BY CallFields DEF Known, VisitInv, TabTypeOK
  <2> QED
    BY <1>1, <2>1, <2>2 DEF Image
<1> QED
  BY <1>2, <1>3

(* A form that stays knows of the requests that are left.                  *)
LEMMA FormStays ==
  ASSUME TabTypeOK, Known, page' = page, visit' = visit, server' = server,
         \A e \in (answered' \cap server) \ answered :
           form.sound /\ e.on \in Pages[page].form.fills => e \in form.holds,
         NEW new, \A d \in calls' : d = new \/ \E b \in calls : Image(b, d),
         new \in calls' => new.m.on \cap Pages[page].form.fills = {}
  PROVE  FormGood(form, page, visit', calls', answered', server')
<1> DEFINE fills == Pages[page].form.fills
<1> SUFFICES ASSUME form.sound
             PROVE  /\ \A x \in answered' \cap server : x.on \in fills => x \in form.holds
                    /\ \A d \in calls' : d.m.on \cap fills # {} =>
                         /\ d.visit = visit
                         /\ d.m.kind = "whole" =>
                              /\ d.edit \in form.holds
                              /\ \A x \in d.base : x.on \in fills => x \in form.holds
  BY DEF FormGood
<1>1. /\ \A x \in answered \cap server : x.on \in fills => x \in form.holds
      /\ \A d \in calls : d.m.on \cap fills # {} =>
           /\ d.visit = visit
           /\ d.m.kind = "whole" =>
                /\ d.edit \in form.holds
                /\ \A x \in d.base : x.on \in fills => x \in form.holds
  BY DEF Known, FormInv, FormGood
<1>2. ASSUME NEW d \in calls', d.m.on \cap fills # {}
      PROVE  /\ d.visit = visit
             /\ d.m.kind = "whole" =>
                  /\ d.edit \in form.holds
                  /\ \A x \in d.base : x.on \in fills => x \in form.holds
  <2>1. PICK b \in calls : Image(b, d)
    BY <1>2
  <2> QED
    BY <1>1, <1>2, <2>1 DEF Image
<1> QED
  BY <1>1, <1>2

(* The requests left once c has ended, of which those its end overtakes    *)
(* are late.                                                               *)
LEMMA LeftOver ==
  ASSUME TabTypeOK, Known, NEW c \in calls
  PROVE  LET rest == Overtaken(calls \ {c}, c) IN
         /\ rest \subseteq CallState
         /\ \A d, f \in rest : d.edit = f.edit => d = f
         /\ \A b \in calls : b # c => \E d \in rest : Image(b, d)
         /\ \A d \in rest : d.edit # c.edit
         /\ \A d \in rest : \E b \in calls :
              /\ b # c /\ Image(b, d) /\ d.latest = b.latest
              /\ b.stage = "done" /\ c.m.on \cap Answer(b) # {} => d.late
<1>1. PICK cs : cs = calls \ {c}
  OBVIOUS
<1>2. /\ cs \in SUBSET CallState /\ cs \subseteq calls
      /\ \A d, f \in cs : d.edit = f.edit => d = f
      /\ \A d \in cs : d # c /\ d.edit # c.edit
  BY <1>1 DEF TabTypeOK, Known, EditInv
<1>3. PICK rest : rest = Overtaken(cs, c)
  OBVIOUS
<1>4. /\ rest \subseteq CallState
      /\ \A b \in cs : \E d \in rest : Image(b, d)
      /\ \A d \in rest : \E b \in cs :
           /\ Image(b, d) /\ d.latest = b.latest
           /\ b.stage = "done" /\ c.edit.on \in Answer(b) => d.late
  BY <1>2, <1>3, OvertakenImages
<1>5. \A d, f \in rest : d.edit = f.edit => d = f
  BY <1>2, <1>3, OvertakenUnique
<1>6. ASSUME NEW d \in rest
      PROVE  /\ d.edit # c.edit
             /\ \E b \in calls :
                  /\ b # c /\ Image(b, d) /\ d.latest = b.latest
                  /\ b.stage = "done" /\ c.m.on \cap Answer(b) # {} => d.late
  <2>1. PICK b \in cs :
          /\ Image(b, d) /\ d.latest = b.latest
          /\ b.stage = "done" /\ c.edit.on \in Answer(b) => d.late
    BY <1>4
  <2>2. c.edit.on \in c.m.on /\ c.m \in Mutations /\ b \in CallState /\ b.m \in Sends(b.offer)
    BY <1>2, CallFields DEF Known, EditInv, VisitInv, TabTypeOK
  <2>3. c.m.on \cap Answer(b) # {} => c.edit.on \in Answer(b)
    BY <2>2, AnswerOf
  <2> QED
    BY <1>2, <2>1, <2>3 DEF Image
<1>7. \A b \in calls : b # c => b \in cs
  BY <1>1
<1> QED
  BY <1>1, <1>3, <1>4, <1>5, <1>6, <1>7

LEMMA FailStep ==
  ASSUME TabTypeOK, Known, NEW c \in calls, Fail(c)
  PROVE  TabTypeOK' /\ Known'
<1>1. PICK v, closed, failed :
        /\ v = (IF c.visit = visit /\ c.latest THEN c.offer.errs ELSE Keeps)
        /\ closed = Closed(c) /\ failed = Failed(cache, c)
  OBVIOUS
<1>2. /\ calls' = (IF c.stage = "done" THEN Overtaken(calls \ {c}, c) ELSE calls \ {c})
      /\ Turn(v, failed, form, calls')
      /\ faults' = faults + 1
      /\ UNCHANGED <<server, jobs, edits, focus, answered>>
  BY <1>1 DEF Fail
<1>3. /\ c \in CallState /\ c.edit.on \in c.m.on /\ c.edit \notin answered
      /\ c.stage \in {"asked", "done"}
  BY CallFields DEF TabTypeOK, Known, EditInv
<1>4. /\ calls' \subseteq CallState
      /\ \A d, f \in calls' : d.edit = f.edit => d = f
      /\ \A b \in calls : b # c => \E d \in calls' : Image(b, d)
      /\ \A d \in calls' : \E b \in calls :
           /\ b # c /\ Image(b, d) /\ d.latest = b.latest
           /\ b.stage = "done" /\ closed \cap Answer(b) # {} => d.late
  <2>1. CASE c.stage = "done"
    <3>1. PICK rest : rest = Overtaken(calls \ {c}, c)
      OBVIOUS
    <3>2. /\ rest \subseteq CallState
          /\ \A d, f \in rest : d.edit = f.edit => d = f
          /\ \A b \in calls : b # c => \E d \in rest : Image(b, d)
          /\ \A d \in rest : \E b \in calls :
               /\ b # c /\ Image(b, d) /\ d.latest = b.latest
               /\ b.stage = "done" /\ c.m.on \cap Answer(b) # {} => d.late
      BY <3>1, LeftOver
    <3>3. calls' = rest /\ closed = c.m.on
      BY <1>1, <1>2, <2>1, <3>1 DEF Closed
    <3> QED
      BY <3>2, <3>3
  <2>2. CASE c.stage # "done"
    <3>1. calls' = calls \ {c} /\ closed = {}
      BY <1>1, <1>2, <2>2 DEF Closed
    <3> QED
      BY <3>1 DEF TabTypeOK, Known, EditInv, Image
  <2> QED
    BY <2>1, <2>2
<1>5. None \notin calls'
  BY <1>4 DEF CallState, None
<1>6. CallsMove(c, None, closed)
  BY <1>4 DEF CallsMove
<1>7. KnownMove(c, None, closed)
  BY <1>1, <1>2, <1>5 DEF KnownMove, Closed, Opens
<1>8. ~PutMove(c)
  BY <1>2, <1>3 DEF PutMove
<1>9. /\ DOMAIN failed = DOMAIN cache
      /\ \A k \in DOMAIN failed :
           /\ failed[k] \in SlotState /\ Present(failed[k])
           /\ LoadForm(k, cache[k], failed[k], closed)
           /\ DataForm(k, cache[k], failed[k], closed) \/ GuessForm(k, failed[k])
      /\ \A k \in ShownKeys(page, view) \cap DOMAIN cache :
           /\ ShownForm(k, cache[k], failed[k], closed)
           /\ c.m.guesses = k => failed[k].load # "none" \/ failed[k].failed
  BY <1>1, <1>3, FailedForms DEF Known
<1>10. \A k \in DOMAIN failed : SlotMove(k, Slot(cache, k), failed[k], c, closed)
  BY <1>9 DEF SlotMove, Slot
<1>11. /\ CacheState(failed) /\ ShownKeys(page, view) \subseteq DOMAIN failed
       /\ form \in FormState /\ page \in Routes
  BY <1>9 DEF CacheState, TabTypeOK, FormState, Known, ShownInv
<1>12. PICK cs : cs = calls'
  OBVIOUS
<1>13. /\ page' = page /\ visit' = visit /\ tour' = tour /\ Placed(failed)
       /\ cache' \in [DOMAIN cache' -> SlotState]
       /\ form' = Fill(page, form, cache, cache', cs) /\ form' \in FormState
  BY <1>2, <1>11, <1>12, TurnPlaced
<1>14. \A k \in ShownKeys(page, view) \cap DOMAIN failed :
         /\ ShowMove(k, Slot(cache, k), failed[k], c, closed) \/ Guessed(k)'
         /\ c \in calls /\ c.m.guesses = k =>
              Guessed(k)' \/ failed[k].load # "none" \/ failed[k].failed
  BY <1>9 DEF ShowMove, Slot
<1>15. SlotsMove(c, closed) /\ KeysMove /\ ShownMove(c, closed)
  BY <1>6, <1>10, <1>13, <1>14, PlacedMoves
<1>16. Moved(c, None, closed) /\ CacheState(cache')
  BY <1>6, <1>7, <1>13, <1>15 DEF Moved, Placed
<1>17. SlotInv' /\ ShownInv' /\ AnswerInv'
  BY <1>2, <1>8, <1>16, SlotsStay, ShownStays, AnswersStay DEF Known, TabTypeOK
<1>18. EditInv' /\ WasInv' /\ KeepInv'
  <2>1. \A d \in calls' : \E b \in calls : Image(b, d)
    BY <1>4
  <2>2. (\A e \in answered' : e.n <= edits) /\ answered' \cap jobs = {}
    BY <1>2 DEF Known, EditInv
  <2>3. \A d \in calls' : d.edit \notin answered'
    BY <1>2, <2>1 DEF Known, EditInv, Image
  <2>4. calls' \subseteq CallState /\ \A d, f \in calls' : d.edit = f.edit => d = f
    BY <1>4
  <2>5. edits' = edits /\ jobs' = jobs
    BY <1>2
  <2> QED
    BY <2>1, <2>2, <2>3, <2>4, <2>5, ImagesStay
<1>19. VisitInv'
  BY <1>4, <1>5, <1>13, VisitStays
<1>20. FormInv'
  <2>1. FormGood(form, page, visit', calls', answered', server')
    BY <1>2, <1>4, <1>5, <1>13, FormStays
  <2> QED
    BY <1>11, <1>12, <1>13, <1>16, <1>17, <2>1, FormFilled
<1>21. TabTypeOK'
  <2>1. calls' \subseteq CallState
    BY <1>4
  <2>2. /\ faults' = faults + 1
        /\ UNCHANGED <<server, jobs, edits, focus, answered>>
    BY <1>2
  <2> QED
    BY <1>13, <1>16, <2>1, <2>2 DEF TabTypeOK, FormState, CacheState
<1> QED
  BY <1>17, <1>18, <1>19, <1>20, <1>21 DEF Known

(* The requests once c has been answered; new is the one its success       *)
(* sends, if any.                                                          *)
LEMMA SucceedCalls ==
  ASSUME TabTypeOK, Known, NEW c \in calls, Succeed(c)
  PROVE  \E new :
           /\ CallsMove(c, new, c.m.on) /\ KnownMove(c, new, c.m.on)
           /\ new \in calls' => New(new) /\ new.m.on \cap Pages[page].form.fills = {}
           /\ c.offer.chains = {} => calls' = Overtaken(calls \ {c}, c)
           /\ \A d \in calls' : d = new \/ \E b \in calls : Image(b, d) /\ d.latest = b.latest
           /\ EditInv' /\ WasInv' /\ KeepInv' /\ calls' \subseteq CallState /\ edits' \in Nat
<1>1. PICK rest : rest = Overtaken(calls \ {c}, c)
  OBVIOUS
<1>2. /\ rest \subseteq CallState
      /\ \A d, f \in rest : d.edit = f.edit => d = f
      /\ \A b \in calls : b # c => \E d \in rest : Image(b, d)
      /\ \A d \in rest : d.edit # c.edit
      /\ \A d \in rest : \E b \in calls :
           /\ b # c /\ Image(b, d) /\ d.latest = b.latest
           /\ b.stage = "done" /\ c.m.on \cap Answer(b) # {} => d.late
  BY <1>1, LeftOver
<1>3. /\ c \in CallState /\ c.edit \in Edits /\ c.edit.on \in c.m.on /\ c.edit \notin answered
      /\ c.edit.n <= edits /\ (c.m.kind # "later" => c.edit \notin jobs)
      /\ c.stage = "done" /\ edits \in Nat /\ page \in Routes
  BY CallFields DEF TabTypeOK, Known, EditInv, Succeed
<1>4. /\ UNCHANGED <<server, jobs, faults, focus>>
      /\ answered' = IF c.m.kind = "later" THEN answered ELSE answered \cup {c.edit}
  BY DEF Succeed
<1>5. /\ answered' \subseteq Edits /\ \A e \in answered' : e.n <= edits
      /\ answered' \cap jobs = {}
      /\ \A d \in rest : d.edit \notin answered'
  <2>1. \A d \in rest : d.edit \notin answered
    BY <1>2 DEF Known, EditInv, Image
  <2> QED
    BY <1>2, <1>3, <1>4, <2>1 DEF TabTypeOK, Known, EditInv
<1>6. \A new : new.stage # "done" => KnownMove(c, new, c.m.on)
  BY <1>3, <1>4 DEF KnownMove
<1>7. \/ calls' = rest /\ edits' = edits
      \/ \E m \in c.offer.chains : \E r \in m.on :
           /\ c.visit = visit /\ c.latest
           /\ calls' = rest \cup {Call(c.offer, m, Edit(edits + 1, r))}
           /\ edits' = edits + 1
  BY <1>1 DEF Succeed
<1>8. CASE calls' = rest /\ edits' = edits
  <2>1. None \notin calls' /\ None.stage # "done"
    BY <1>2, <1>8 DEF CallState, None
  <2>2. CallsMove(c, None, c.m.on)
    BY <1>2, <1>8 DEF CallsMove
  <2>3. \A d \in calls' : \E b \in calls : Image(b, d) /\ d.latest = b.latest
    BY <1>2, <1>8
  <2>4. EditInv' /\ WasInv' /\ KeepInv'
    <3>1. \A d \in calls' : \E b \in calls : Image(b, d)
      BY <2>3
    <3>2. calls' \subseteq CallState /\ \A d, f \in calls' : d.edit = f.edit => d = f
      BY <1>2, <1>8
    <3>3. edits' = edits /\ jobs' = jobs /\ \A d \in calls' : d.edit \notin answered'
      BY <1>4, <1>5, <1>8
    <3> QED
      BY <1>5, <3>1, <3>2, <3>3, ImagesStay
  <2> QED
    BY <1>1, <1>2, <1>3, <1>6, <1>8, <2>1, <2>2, <2>3, <2>4
<1>9. ASSUME NEW m \in c.offer.chains, NEW r \in m.on, c.visit = visit, c.latest,
             calls' = rest \cup {Call(c.offer, m, Edit(edits + 1, r))},
             edits' = edits + 1
      PROVE  \E new :
           /\ CallsMove(c, new, c.m.on) /\ KnownMove(c, new, c.m.on)
           /\ new \in calls' => New(new) /\ new.m.on \cap Pages[page].form.fills = {}
           /\ c.offer.chains = {} => calls' = Overtaken(calls \ {c}, c)
           /\ \A d \in calls' : d = new \/ \E b \in calls : Image(b, d) /\ d.latest = b.latest
           /\ EditInv' /\ WasInv' /\ KeepInv' /\ calls' \subseteq CallState /\ edits' \in Nat
  <2>1. PICK o, e : o = c.offer /\ e = Edit(edits + 1, r)
    OBVIOUS
  <2>2. PICK new : new = Call(o, m, e)
    OBVIOUS
  <2>3. o \in Pages[page].offers /\ m \in Sends(o) /\ m \in o.chains
    BY <1>9, <2>1 DEF Known, VisitInv, Sends
  <2>4. PICK w \in SUBSET Edits : w = {}
    OBVIOUS
  <2>5. /\ New(Sent(o, m, e, w)) /\ Sent(o, m, e, w).offer = o
        /\ Sent(o, m, e, w).m = m /\ Sent(o, m, e, w).was = w
        /\ Sent(o, m, e, w).edit = e
        /\ New(Call(o, m, e)) /\ Call(o, m, e).m = m /\ Call(o, m, e).offer = o
        /\ Call(o, m, e).was = {} /\ Call(o, m, e).edit = e
    BY <2>1, <2>3, NewCall
  <2>6. New(new) /\ new.m = m /\ new.was = {} /\ calls' = rest \cup {new}
    BY <1>9, <2>1, <2>2, <2>5
  <2>7. new \in CallState /\ new.stage # "done"
    BY <2>6 DEF New
  <2>8. CallsMove(c, new, c.m.on)
    BY <1>2, <2>6, <2>7 DEF CallsMove
  <2>9. new.m.on \cap Pages[page].form.fills = {}
    BY <1>3, <2>3, <2>6, PageFacts
  <2>10. \A d \in calls' : d = new \/ \E b \in calls : Image(b, d) /\ d.latest = b.latest
    BY <1>2, <2>6
  <2>11. EditInv' /\ WasInv' /\ KeepInv' /\ calls' \subseteq CallState /\ edits' \in Nat
    <3>1. \A d \in rest : \E b \in calls : Image(b, d)
      BY <1>2
    <3>2. new.m.guesses # <<>> => About(new.m.guesses, new.was)
      BY <2>6 DEF About
    <3>3. edits' = edits + 1 /\ jobs' = jobs /\ rest \in SUBSET CallState
      BY <1>2, <1>4, <1>9
    <3> QED
      BY <1>2, <1>5, <2>6, <3>1, <3>2, <3>3, SentStays
  <2> QED
    BY <1>6, <1>9, <2>6, <2>7, <2>8, <2>9, <2>10, <2>11
<1> QED
  BY <1>7, <1>8, <1>9

(* The form that a success fills, or leaves.                               *)
LEMMA SucceedForm ==
  ASSUME TabTypeOK, Known, NEW c \in calls, Succeed(c), page' = page, visit' = visit,
         NEW new, CallsMove(c, new, c.m.on),
         new \in calls' => New(new) /\ new.m.on \cap Pages[page].form.fills = {},
         c.offer.chains = {} => calls' = Overtaken(calls \ {c}, c),
         NEW f, f = IF (c.visit = visit /\ c.latest) /\ c.offer.fills
                    THEN Filled(Pages[page].form, c.got, c.late, Overtaken(calls \ {c}, c))
                    ELSE form
  PROVE  f \in FormState /\ FormGood(f, page, visit', calls', answered', server')
<1> DEFINE here == c.visit = visit /\ c.latest
           F == Pages[page].form
<1>1. /\ c \in CallState /\ c.m \in Mutations /\ c.edit.on \in c.m.on /\ c.stage = "done"
      /\ c.m \in Sends(c.offer) /\ page \in Routes /\ form \in FormState
      /\ c.got \in SUBSET Edits /\ c.late \in BOOLEAN
      /\ c.visit = visit => c.offer \in Pages[page].offers /\ (c.offer.fills => c.latest)
  BY CallFields DEF TabTypeOK, FormState, Known, EditInv, VisitInv, Succeed
<1>2. /\ server' = server
      /\ answered' = IF c.m.kind = "later" THEN answered ELSE answered \cup {c.edit}
  BY DEF Succeed
<1>3. CASE here /\ c.offer.fills
  <2>1. PICK rest : rest = Overtaken(calls \ {c}, c)
    OBVIOUS
  <2>2. /\ c.offer.does.on = F.fills /\ c.offer.chains = {} /\ c.m.on = F.fills
        /\ F.fills = Answer(c) \/ F.fills \subseteq Answer(c)
    <3>1. c.offer.does.on = F.fills /\ c.offer.chains = {}
      BY <1>1, <1>3, PageFacts
    <3>2. c.m = c.offer.does
      BY <1>1, <3>1 DEF Sends
    <3> QED
      BY <1>3, <3>1, <3>2 DEF Answer
  <2>3. calls' = rest /\ f = Filled(F, c.got, c.late, rest)
    BY <1>3, <2>1, <2>2
  <2>4. /\ f \in FormState
        /\ \A e \in c.got : e.on \in F.fills => e \in f.holds
        /\ f.sound => ~c.late /\ \A d \in rest : d.m.on \cap F.fills = {}
    <3>1. PICK g : g = F
      OBVIOUS
    <3>2. /\ Filled(g, c.got, c.late, rest) \in FormState
          /\ \A e \in c.got : e.on \in g.fills => e \in Filled(g, c.got, c.late, rest).holds
          /\ Filled(g, c.got, c.late, rest).sound =>
               ~c.late /\ \A d \in rest : d.m.on \cap g.fills = {}
      BY <1>1, FilledForm
    <3> QED
      BY <2>3, <3>1, <3>2
  <2>5. ASSUME f.sound, NEW e \in answered' \cap server', e.on \in F.fills
        PROVE  e \in f.holds
    <3>1. e \in Edits /\ e.on \in Answer(c) /\ ~c.late
      BY <1>1, <1>2, <2>2, <2>4, <2>5, CallFields DEF TabTypeOK
    <3>2. ~UnderWayBut(c, e)
      <4> SUFFICES ASSUME NEW w \in calls, w.stage = "done", e.on \in w.m.on, w.edit # c.edit
                   PROVE  FALSE
        BY DEF UnderWayBut
      <4>1. PICK d \in calls' : Image(w, d)
        BY DEF CallsMove
      <4> QED
        BY <2>3, <2>4, <2>5, <4>1 DEF Image
    <3>3. Agrees(e, c.got)
      BY <1>1, <3>1, <3>2 DEF Known, AnswerInv
    <3>4. e \in c.got
      BY <1>1, <1>2, <2>5, <3>1, <3>3 DEF Agrees, Known, AnswerInv
    <3> QED
      BY <2>4, <2>5, <3>4
  <2> QED
    BY <2>3, <2>4, <2>5 DEF FormGood
<1>4. CASE ~(here /\ c.offer.fills)
  <2>1. f = form
    BY <1>4
  <2>2. ASSUME NEW e \in (answered' \cap server') \ answered, form.sound, e.on \in F.fills
        PROVE  e \in form.holds
    <3>1. e = c.edit /\ c.m.on \cap F.fills # {}
      BY <1>1, <1>2, <2>2
    <3>2. c.visit = visit /\ (c.m.kind = "whole" => c.edit \in form.holds)
      BY <2>2, <3>1 DEF Known, FormInv, FormGood
    <3>3. c.m.kind = "whole" \/ c.offer.fills
      BY <1>1, <3>1, <3>2, PageFacts
    <3> QED
      BY <1>1, <1>4, <3>1, <3>2, <3>3
  <2>3. \A d \in calls' : d = new \/ \E b \in calls : Image(b, d)
    BY DEF CallsMove
  <2> HIDE DEF here
  <2>4. FormGood(form, page, visit', calls', answered', server')
    BY <1>2, <2>2, <2>3, FormStays
  <2> QED
    BY <1>1, <2>1, <2>4
<1> QED
  BY <1>3, <1>4

LEMMA SucceedStep ==
  ASSUME TabTypeOK, Known, NEW c \in calls, Succeed(c)
  PROVE  TabTypeOK' /\ Known'
<1>1. PICK new :
        /\ CallsMove(c, new, c.m.on) /\ KnownMove(c, new, c.m.on)
        /\ new \in calls' => New(new) /\ new.m.on \cap Pages[page].form.fills = {}
        /\ c.offer.chains = {} => calls' = Overtaken(calls \ {c}, c)
        /\ \A d \in calls' : d = new \/ \E b \in calls : Image(b, d) /\ d.latest = b.latest
        /\ EditInv' /\ WasInv' /\ KeepInv' /\ calls' \subseteq CallState /\ edits' \in Nat
  BY SucceedCalls
<1>2. PICK cached, filled, cs, v :
        /\ cached = Answered(cache, c) /\ cs = calls'
        /\ filled = IF (c.visit = visit /\ c.latest) /\ c.offer.fills
                    THEN Filled(Pages[page].form, c.got, c.late, Overtaken(calls \ {c}, c))
                    ELSE form
        /\ v = (IF c.visit = visit /\ c.latest THEN c.offer.shift ELSE Keeps)
  OBVIOUS
<1>3. \/ c.visit = visit /\ c.offer.leave # Keeps /\ Go(c.offer.leave, cached, cs)
      \/ Turn(v, cached, filled, cs)
  BY <1>2 DEF Succeed
<1>4. /\ c \in CallState /\ c.m \in Mutations /\ c.edit \in Edits /\ c.edit.on \in c.m.on
      /\ c.stage = "done" /\ page \in Routes /\ form \in FormState
      /\ c.visit = visit => c.offer \in Pages[page].offers
  BY CallFields DEF TabTypeOK, FormState, Known, EditInv, VisitInv, Succeed
<1>5. /\ UNCHANGED <<server, jobs, faults, focus>>
      /\ answered' = IF c.m.kind = "later" THEN answered ELSE answered \cup {c.edit}
      /\ answered' \subseteq Edits
  BY <1>4 DEF Succeed, TabTypeOK
<1>6. /\ DOMAIN cached \subseteq Keys
      /\ DOMAIN cache \ {c.m.makes} \subseteq DOMAIN cached
      /\ \A k \in DOMAIN cached :
           /\ cached[k] \in SlotState /\ Present(cached[k])
           /\ LoadForm(k, Slot(cache, k), cached[k], c.m.on)
           /\ \/ DataForm(k, Slot(cache, k), cached[k], c.m.on)
              \/ PutForm(k, cached[k], c)
      /\ \A k \in ShownKeys(page, view) \cap DOMAIN cache :
           /\ k \in DOMAIN cached
           /\ \/ ShownForm(k, cache[k], cached[k], c.m.on)
              \/ PutForm(k, cached[k], c)
           /\ c.m.guesses = k => cached[k].load # "none" \/ cached[k].failed
  BY <1>2, <1>4, AnsweredForms DEF Known
<1>7. ASSUME NEW k \in DOMAIN cached, PutForm(k, cached[k], c)
      PROVE  PutMove(c)
  <2>1. c.m.puts # <<>>
    BY <1>6, <1>7, HooksAssumption DEF PutForm
  <2>2. c.m.kind # "later"
    BY <1>4, <2>1, MutationFacts
  <2> QED
    BY <1>4, <1>5, <2>2 DEF PutMove
<1>8. \A k \in DOMAIN cached : SlotMove(k, Slot(cache, k), cached[k], c, c.m.on)
  BY <1>6, <1>7 DEF SlotMove
<1>9. ShownKeys(page, view) \subseteq DOMAIN cache
  BY DEF Known, ShownInv
<1>10. CacheState(cached) /\ ShownKeys(page, view) \subseteq DOMAIN cached
  BY <1>6, <1>9 DEF CacheState
<1>11. \A k \in ShownKeys(page, view) \cap DOMAIN cached :
         /\ ShowMove(k, Slot(cache, k), cached[k], c, c.m.on) \/ Guessed(k)'
         /\ c \in calls /\ c.m.guesses = k =>
              Guessed(k)' \/ cached[k].load # "none" \/ cached[k].failed
  BY <1>6, <1>7, <1>9 DEF ShowMove, Slot
<1>12. ASSUME c.visit = visit, c.offer.leave # Keeps, Go(c.offer.leave, cached, cs)
       PROVE  /\ page' = c.offer.leave /\ page' \in Routes /\ visit' = visit + 1
              /\ tour' = tour /\ Placed(cached) /\ cache' \in [DOMAIN cache' -> SlotState]
              /\ form' = Fill(page', Unfilled, cached, cache', cs) /\ form' \in FormState
  <2>1. PICK p : p = c.offer.leave
    OBVIOUS
  <2>2. p \in Routes
    BY <1>4, <1>12, <2>1, OfferFacts
  <2>3. /\ page' = p /\ visit' = visit + 1 /\ tour' = tour /\ Placed(cached)
        /\ cache' \in [DOMAIN cache' -> SlotState]
        /\ form' = Fill(p, Unfilled, cached, cache', cs) /\ form' \in FormState
    BY <1>10, <1>12, <2>1, <2>2, GoPlaced
  <2> QED
    BY <2>1, <2>2, <2>3
<1>13. ASSUME Turn(v, cached, filled, cs), filled \in FormState
       PROVE  /\ page' = page /\ visit' = visit /\ tour' = tour /\ Placed(cached)
              /\ cache' \in [DOMAIN cache' -> SlotState]
              /\ form' = Fill(page, filled, cache, cache', cs) /\ form' \in FormState
  BY <1>10, <1>13, TurnPlaced
<1>14. filled \in FormState
  <2>1. c.got \in SUBSET Edits /\ c.late \in BOOLEAN
    BY <1>4, CallFields
  <2>2. Filled(Pages[page].form, c.got, c.late, Overtaken(calls \ {c}, c)) \in FormState
    BY <2>1, FilledForm
  <2> QED
    BY <1>2, <1>4, <2>2
<1>15. /\ Placed(cached) /\ tour' = tour /\ page' \in Routes /\ form' \in FormState
       /\ cache' \in [DOMAIN cache' -> SlotState]
       /\ \/ page' = page /\ visit' = visit
          \/ visit' = visit + 1
  BY <1>3, <1>4, <1>12, <1>13, <1>14
<1>16. SlotsMove(c, c.m.on) /\ KeysMove /\ ShownMove(c, c.m.on)
  BY <1>1, <1>8, <1>11, <1>15, PlacedMoves
<1>17. Moved(c, new, c.m.on) /\ CacheState(cache')
  BY <1>1, <1>15, <1>16 DEF Moved, Placed
<1>18. SlotInv' /\ ShownInv' /\ AnswerInv'
  BY <1>5, <1>17, SlotsStay, ShownStays, AnswersStay DEF Known
<1>19. VisitInv'
  BY <1>1, <1>15, VisitStays
<1>20. FormInv'
  <2>1. CASE Turn(v, cached, filled, cs)
    <3>1. /\ page' = page /\ visit' = visit
          /\ form' = Fill(page, filled, cache, cache', cs)
      BY <1>13, <1>14, <2>1
    <3>2. FormGood(filled, page, visit', calls', answered', server')
      BY <1>1, <1>2, <3>1, SucceedForm
    <3>3. PICK p : p = page
      OBVIOUS
    <3> QED
      BY <1>2, <1>4, <1>17, <1>18, <3>1, <3>2, FormFilled
  <2>2. CASE c.visit = visit /\ c.offer.leave # Keeps /\ Go(c.offer.leave, cached, cs)
    <3>1. PICK p \in Routes : p = page'
      BY <1>15
    <3>2. form' = Fill(p, Unfilled, cached, cache', calls')
      BY <1>2, <1>12, <2>2, <3>1
    <3>3. FormGood(Unfilled, p, visit', calls', answered', server')
      BY UnfilledGood
    <3> QED
      BY <1>17, <1>18, <3>1, <3>2, <3>3, FormFilled
  <2> QED
    BY <1>3, <2>1, <2>2
<1>21. TabTypeOK'
  <2>1. /\ DOMAIN cache' \subseteq Keys /\ calls' \subseteq CallState /\ edits' \in Nat
        /\ form' \in FormState
    BY <1>1, <1>15, <1>17 DEF CacheState
  <2> QED
    BY <1>5, <1>15, <2>1 DEF TabTypeOK, FormState
<1> QED
  BY <1>1, <1>18, <1>19, <1>20, <1>21 DEF Known

-----------------------------------------------------------------------------
(* The invariant holds at first, and every step keeps it.                  *)
LEMMA InitKnown ==
  ASSUME TabInit
  PROVE  TabTypeOK /\ Known
<1>1. /\ tour \in Tours /\ page = tour[1] /\ view = Main /\ visit = 1
      /\ server = {} /\ jobs = {} /\ calls = {} /\ answered = {}
      /\ form = Unfilled /\ edits = 0 /\ faults = 0 /\ focus = 0
  BY DEF TabInit
<1>2. page \in Routes
  <2>1. tour \in Seq(Routes) /\ tour # <<>>
    BY <1>1, WebClientAssumption
  <2> QED
    BY <1>1, <2>1
<1>3. PICK c, ks : c = <<>> /\ ks = ShownKeys(page, Main)
  OBVIOUS
<1>4. DOMAIN c = {} /\ CacheState(c) /\ ks \in SUBSET Keys
  BY <1>2, <1>3, OfferFacts DEF CacheState
<1>5. /\ CacheState(Mount(c, ks)) /\ Mount(c, ks) \in [DOMAIN Mount(c, ks) -> SlotState]
      /\ DOMAIN Mount(c, ks) = DOMAIN c \cup ks
      /\ \A k \in ks : Mount(c, ks)[k].load # "none"
      /\ \A k \in DOMAIN c \ ks : Mount(c, ks)[k] = c[k]
      /\ \A k \in DOMAIN Mount(c, ks) :
           Mount(c, ks)[k] = Fetch(Slot(c, k)) \/ (k \in DOMAIN c /\ Mount(c, ks)[k] = c[k])
  BY <1>4, MountForms
<1>6. cache = Mount(c, ks)
  BY <1>1, <1>3 DEF TabInit
<1>7. /\ DOMAIN cache = ks /\ CacheState(cache) /\ cache \in [DOMAIN cache -> SlotState]
      /\ \A k \in ks : cache[k] = Fetch(Empty)
  BY <1>4, <1>5, <1>6 DEF Slot
<1>8. \A k \in ks :
        /\ cache[k] \in SlotState /\ cache[k].load # "none" /\ ~cache[k].has
        /\ cache[k].data = {} /\ cache[k].load # "read" /\ cache[k].got = {}
  BY <1>7, EmptySlot, FetchSlot
<1>9. TabTypeOK
  BY <1>1, <1>2, <1>7 DEF TabTypeOK, CacheState, Unfilled
<1>10. EditInv /\ VisitInv /\ AnswerInv /\ WasInv /\ KeepInv
  BY <1>1 DEF EditInv, VisitInv, AnswerInv, WasInv, KeepInv
<1>11. SlotInv
  BY <1>7, <1>8 DEF SlotInv, Present, About, GotInv, DataInv
<1>12. ShownInv
  BY <1>1, <1>3, <1>7, <1>8 DEF ShownInv, RestInv, Rests
<1>13. FormInv
  BY <1>1 DEF FormInv, FormGood, Unfilled
<1> QED
  BY <1>9, <1>10, <1>11, <1>12, <1>13 DEF Known

LEMMA NextKnown ==
  ASSUME TabTypeOK, Known, [TabNext]_tabVars
  PROVE  TabTypeOK' /\ Known'
<1>1. ASSUME NEW o \in Pages[page].offers, Click(o)  PROVE TabTypeOK' /\ Known'
  BY <1>1, ClickStep
<1>2. ASSUME NEW c \in calls, Serve(c)  PROVE TabTypeOK' /\ Known'
  BY <1>2, ServeStep
<1>3. ASSUME NEW c \in calls, Succeed(c)  PROVE TabTypeOK' /\ Known'
  BY <1>3, SucceedStep
<1>4. ASSUME NEW c \in calls, Fail(c)  PROVE TabTypeOK' /\ Known'
  BY <1>4, FailStep
<1>5. ASSUME NEW e \in jobs, Work(e)  PROVE TabTypeOK' /\ Known'
  BY <1>5, WorkStep
<1>6. ASSUME NEW k \in DOMAIN cache, Read(k)  PROVE TabTypeOK' /\ Known'
  BY <1>6, ReadStep
<1>7. ASSUME NEW k \in DOMAIN cache, Load(k)  PROVE TabTypeOK' /\ Known'
  BY <1>7, LoadStep
<1>8. ASSUME NEW k \in DOMAIN cache, LoadFails(k)  PROVE TabTypeOK' /\ Known'
  BY <1>8, LoadFailsStep
<1>9. ASSUME Focus  PROVE TabTypeOK' /\ Known'
  BY <1>9, FocusStep
<1>10. ASSUME NEW m \in Pages[page].moves, TurnTo(m)  PROVE TabTypeOK' /\ Known'
  BY <1>10, TurnToStep
<1>11. ASSUME NEW p \in Pages[page].links \ {page}, Follow(p)  PROVE TabTypeOK' /\ Known'
  BY <1>11, FollowStep
<1>12. ASSUME UNCHANGED tabVars  PROVE TabTypeOK' /\ Known'
  <2>1. /\ UNCHANGED <<tour, page, view, visit, server, jobs, cache, form, calls, answered>>
        /\ UNCHANGED <<edits, faults, focus>>
    BY <1>12 DEF tabVars, place, bounds
  <2>2. TabTypeOK'
    BY <2>1 DEF TabTypeOK
  <2>3. EditInv' /\ VisitInv' /\ WasInv' /\ KeepInv' /\ FormInv'
    BY <2>1
      DEF Known, EditInv, VisitInv, WasInv, KeepInv, FormInv, FormGood, About
  <2>4. CallsMove(None, None, {}) /\ \A k : Guessed(k) => Guessed(k)'
    BY <2>1, SameCalls DEF Guessed
  <2>5. SlotsMove(None, {}) /\ KeysMove /\ ShownMove(None, {}) /\ CacheState(cache')
    BY <2>1, <2>4, StillMoves
  <2>6. KnownMove(None, None, {})
    BY <2>1 DEF KnownMove, None, Opens
  <2>7. Moved(None, None, {}) /\ ~PutMove(None)
    BY <2>4, <2>5, <2>6 DEF Moved, PutMove, None
  <2>8. SlotInv' /\ ShownInv' /\ AnswerInv'
    BY <2>1, <2>5, <2>7, SlotsStay, ShownStays, AnswersStay DEF Known, TabTypeOK
  <2> QED
    BY <2>2, <2>3, <2>8 DEF Known
<1> QED
  BY <1>1, <1>2, <1>3, <1>4, <1>5, <1>6, <1>7, <1>8, <1>9, <1>10, <1>11, <1>12
    DEF TabNext

-----------------------------------------------------------------------------
(* Every variable of the tab keeps its type, for every number of edits,    *)
(* faults and reloads and every tour.                                      *)
THEOREM WebTypes == TabSpec => []TabTypeOK
<1>1. TabInit => TabTypeOK /\ Known
  BY InitKnown
<1>2. TabTypeOK /\ Known /\ [TabNext]_tabVars => TabTypeOK' /\ Known'
  BY NextKnown
<1> QED
  BY <1>1, <1>2, PTL DEF TabSpec

(* What the invariant says of what is shown.                               *)
LEMMA KnownShown ==
  ASSUME TabTypeOK, Known
  PROVE  ReadsItsOwnWrites
<1> SUFFICES ASSUME NEW k \in ShownKeys(page, view),
                    Slot(cache, k).load = "none", ~Slot(cache, k).failed,
                    ~Slot(cache, k).stale,
                    \A c \in calls : c.edit.on \notin Reads[k]
             PROVE  /\ Slot(cache, k).has
                    /\ On(Reads[k], answered \cap server) \subseteq Slot(cache, k).data
                    /\ Slot(cache, k).data \subseteq server \cup answered
  BY DEF ReadsItsOwnWrites
<1>1. PICK s : s = Slot(cache, k)
  OBVIOUS
<1>2. /\ k \in Keys /\ s \in SlotState /\ Rests(s) /\ RestInv(k, s) /\ Present(s)
      /\ About(k, s.data)
  <2>1. k \in DOMAIN cache
    BY DEF Known, ShownInv
  <2> QED
    BY <1>1, <2>1 DEF Known, ShownInv, SlotInv, TabTypeOK, Slot, Rests
<1>3. ASSUME NEW c \in calls, NEW r \in c.m.on  PROVE r \notin Reads[k]
  <2>1. c.m \in Mutations /\ c.edit.on \in c.m.on /\ c.edit.on \notin Reads[k]
    BY CallFields DEF TabTypeOK, Known, EditInv
  <2>2. c.m.on \cap Reads[k] = {}
    BY <1>2, <2>1, MutationFacts
  <2> QED
    BY <2>2
<1>4. ~Guessed(k)
  <2> SUFFICES ASSUME NEW c \in calls, c.m.guesses = k  PROVE FALSE
    BY DEF Guessed
  <2>1. c.m \in Mutations /\ c.edit.on \in c.m.on /\ k # <<>>
    BY <1>2, CallFields, HooksAssumption DEF TabTypeOK, Known, EditInv
  <2>2. c.m.on = Reads[k]
    BY <2>1, MutationFacts
  <2> QED
    BY <1>3, <2>1, <2>2
<1>5. ASSUME NEW e \in Edits, e.on \in Reads[k]  PROVE Agrees(e, s.data)
  BY <1>2, <1>3, <1>4, <1>5 DEF RestInv, UnderWay
<1>6. s.has
  BY <1>2 DEF Rests, Present
<1>7. \A e \in On(Reads[k], answered \cap server) : e \in s.data
  BY <1>5 DEF On, Agrees, TabTypeOK
<1>8. \A e \in s.data : e \in server \cup answered
  BY <1>2, <1>5, SlotFields DEF About, Agrees
<1> QED
  BY <1>1, <1>6, <1>7, <1>8

(* Once nothing is under way, what a page shows has this user's saved      *)
(* edits and no guess of a request that failed, however answers of loads   *)
(* and saves crossed and whatever pages were left in between: the          *)
(* refresh, put or removal of each hook makes up for its write.            *)
THEOREM ShownIsOwn == TabSpec => []ReadsItsOwnWrites
<1>1. TabInit => TabTypeOK /\ Known
  BY InitKnown
<1>2. TabTypeOK /\ Known /\ [TabNext]_tabVars => TabTypeOK' /\ Known'
  BY NextKnown
<1>3. TabTypeOK /\ Known => ReadsItsOwnWrites
  BY KnownShown
<1> QED
  BY <1>1, <1>2, <1>3, PTL DEF TabSpec

(* Only a save that takes effect takes something away.                     *)
LEMMA NextSaves ==
  ASSUME TabTypeOK, Known, [TabNext]_tabVars
  PROVE  [\A e \in server : e \notin server' =>
            \E c \in calls \ calls' : e.on \in c.m.on /\ e \notin c.keeps]_tabVars
<1>1. ASSUME NEW c \in calls, Serve(c), NEW e \in server, e \notin server'
      PROVE  c \in calls \ calls' /\ e.on \in c.m.on /\ e \notin c.keeps
  <2>1. c.m.kind = "whole" /\ e \in On(c.m.on, server) /\ e \notin c.base
    <3>1. c.m.kind \in {"adds", "whole", "later"}
      BY CallFields, MutationFacts DEF TabTypeOK
    <3> QED
      BY <1>1, <3>1 DEF Serve
  <2>2. e.on \in c.m.on
    BY <2>1 DEF On
  <2>3. e \notin c.keeps
    BY <2>1, <2>2 DEF Known, KeepInv
  <2>4. c \notin calls'
    <3>1. PICK new : new = [c EXCEPT !.stage = "done", !.got = On(Answer(c), server')]
      OBVIOUS
    <3>2. calls' = (calls \ {c}) \cup {new} /\ new.stage = "done"
      BY <1>1, <3>1, Served
    <3> QED
      BY <1>1, <3>2 DEF Serve
  <2> QED
    BY <2>2, <2>3, <2>4
<1>2. ASSUME TabNext, ~\E c \in calls : Serve(c)  PROVE server \subseteq server'
  BY <1>2
    DEF TabNext, Click, Succeed, Fail, Work, Read, Load, LoadFails, Focus,
        TurnTo, Follow
<1> QED
  BY <1>1, <1>2 DEF tabVars

(* A request that writes a row whole takes back no edit of this user that  *)
(* its form had when it was sent: a form is filled from cached data that   *)
(* its own saves refresh, or fills by their answer.                        *)
THEOREM SavesKeep == TabSpec => SaveKeepsOwnWrites
<1>1. TabInit => TabTypeOK /\ Known
  BY InitKnown
<1>2. TabTypeOK /\ Known /\ [TabNext]_tabVars => TabTypeOK' /\ Known'
  BY NextKnown
<1>3. TabTypeOK /\ Known /\ [TabNext]_tabVars =>
        [\A e \in server : e \notin server' =>
           \E c \in calls \ calls' : e.on \in c.m.on /\ e \notin c.keeps]_tabVars
  BY NextSaves
<1> QED
  BY <1>1, <1>2, <1>3, PTL DEF TabSpec, SaveKeepsOwnWrites

-----------------------------------------------------------------------------
(* Tenancy.  The inductive invariant says what a request still knows of    *)
(* what it read before its write: an invitation stays one of its workspace *)
(* as long as that exists, a token of deletion stays with its workspace    *)
(* for good, and the administrator who removes another leaves one behind.  *)
USE TenancyAssumption DEF TenancyAssumption

(* What a request that has read a ticket or a workspace may rely on.       *)
Deleting == {"members", "mark", "delete"}
Removing == {"count", "remove"}
TicketInv ==
  \A q \in Request :
    /\ requests[q].pc = "accept" =>
         /\ requests[q].ticket \in Ticket
         /\ requests[q].workspace \in exists =>
              /\ tickets[requests[q].ticket].kind = "invite"
              /\ tickets[requests[q].ticket].workspace = requests[q].workspace
    /\ requests[q].pc \in Deleting =>
         /\ requests[q].ticket \in Ticket
         /\ tickets[requests[q].ticket].kind = "deletion"
         /\ tickets[requests[q].ticket].workspace = requests[q].workspace
         /\ requests[q].pc = "delete" => tickets[requests[q].ticket].state = "used"

(* What is not there has no members, and what was never made leaves no     *)
(* trace: no invitation, and nobody at work on one.                        *)
EmptyInv ==
  /\ \A w \in Workspace \ exists : \A u \in User : role[w][u] = "none"
  /\ \A t \in Ticket : tickets[t].kind = "invite" => tickets[t].workspace \in made
  /\ \A q \in Request : requests[q].pc \in {"invite", "accept", "provisionInvite"} \cup Removing
                          => requests[q].workspace \in made

(* Two removals on one workspace are on record; one alone finds that an    *)
(* administrator stays behind.                                             *)
Quiet == hasty = {} /\ mishaps = 0
RemovalInv ==
  /\ \A q, r \in Request :
       requests[q].pc \in Removing /\ requests[r].pc \in Removing /\ q # r
         /\ requests[q].workspace = requests[r].workspace
           => requests[q].workspace \in contested
  /\ Quiet => \A q \in Request :
       requests[q].pc = "remove" /\ requests[q].workspace \in exists \ contested
         => \E u \in User \ {requests[q].target} : IsAdmin(u, requests[q].workspace)

(* A workspace has an administrator, or waits for its first one: it has no *)
(* members and nobody invites to it, but for the invitation that was sent  *)
(* or is about to be.                                                      *)
Staffed(w) == \E u \in User : IsAdmin(u, w)
Vacant(w) ==
  /\ \A u \in User : role[w][u] = "none"
  /\ \A q \in Request : requests[q].pc = "invite" => requests[q].workspace # w
  /\ \A t \in Ticket : tickets[t].kind = "invite" /\ tickets[t].workspace = w
                         => tickets[t].role = "workspace_admin"
  /\ \/ \E t \in Ticket : tickets[t].kind = "invite" /\ tickets[t].workspace = w
                            /\ tickets[t].state = "open"
     \/ \E q \in Request : requests[q].pc = "provisionInvite" /\ requests[q].workspace = w
StaffInv ==
  Quiet => \A w \in exists \ (contested \cup lapsed) : Staffed(w) \/ Vacant(w)

-----------------------------------------------------------------------------
(* Edits of a request and of a ticket keep their types.                    *)
Pc == {"idle", "create", "invite", "accept", "count", "remove", "status", "act",
       "suspend", "reactivate", "provision", "provisionInvite", "deletion", "members",
       "mark", "delete", "sweep", "erase", "eraseRow"}

LEMMA RequestTypes ==
  /\ Idle \in RequestState
  /\ \A s \in RequestState :
       /\ \A pc \in Pc : [s EXCEPT !.pc = pc] \in RequestState
       /\ [s EXCEPT !.outrun = TRUE] \in RequestState
       /\ \A pc \in Pc, w \in Workspace :
            [s EXCEPT !.pc = pc, !.workspace = w] \in RequestState
       /\ \A pc \in Pc, us \in SUBSET User :
            [s EXCEPT !.pc = pc, !.members = us] \in RequestState
       /\ \A pc \in Pc, u \in User \cup {Nil} :
            [s EXCEPT !.pc = pc, !.target = u] \in RequestState
       /\ \A pc \in Pc, u \in User \cup {Nil} :
            /\ [s EXCEPT !.pc = pc, !.target = u, !.members = @ \ {u}] \in RequestState
            /\ [s EXCEPT !.pc = pc, !.members = @ \ {u}] \in RequestState
<1>1. Idle \in RequestState
  BY DEF Idle, RequestState, Role
<1>2. ASSUME NEW s \in RequestState, NEW pc \in Pc
      PROVE  [s EXCEPT !.pc = pc] \in RequestState
  BY DEF RequestState, Pc
<1>3. ASSUME NEW s \in RequestState
      PROVE  [s EXCEPT !.outrun = TRUE] \in RequestState
  BY DEF RequestState
<1>4. ASSUME NEW s \in RequestState, NEW pc \in Pc, NEW w \in Workspace
      PROVE  [s EXCEPT !.pc = pc, !.workspace = w] \in RequestState
  BY DEF RequestState, Pc
<1>5. ASSUME NEW s \in RequestState, NEW pc \in Pc, NEW us \in SUBSET User
      PROVE  [s EXCEPT !.pc = pc, !.members = us] \in RequestState
  BY DEF RequestState, Pc
<1>6. ASSUME NEW s \in RequestState, NEW pc \in Pc, NEW u \in User \cup {Nil}
      PROVE  [s EXCEPT !.pc = pc, !.target = u] \in RequestState
  BY DEF RequestState, Pc
<1>7. ASSUME NEW s \in RequestState, NEW pc \in Pc, NEW u \in User \cup {Nil}
      PROVE  [s EXCEPT !.pc = pc, !.target = u, !.members = @ \ {u}] \in RequestState
  BY DEF RequestState, Pc
<1>8. ASSUME NEW s \in RequestState, NEW pc \in Pc, NEW u \in User \cup {Nil}
      PROVE  [s EXCEPT !.pc = pc, !.members = @ \ {u}] \in RequestState
  <2>1. s.members \ {u} \in SUBSET User
    BY DEF RequestState
  <2> QED BY <1>5, <2>1
<1> QED BY <1>1, <1>2, <1>3, <1>4, <1>5, <1>6, <1>7, <1>8

LEMMA TicketTypes ==
  /\ Unissued \in TicketRow
  /\ \A s \in TicketRow, x \in {"open", "used", "expired"} :
       [s EXCEPT !.state = x] \in TicketRow
BY DEF Unissued, TicketRow, Role

LEMMA TypeStep == TypeOK /\ TicketInv /\ EmptyInv /\ [Next]_vars => TypeOK'
<1> SUFFICES ASSUME TypeOK /\ TicketInv /\ EmptyInv, [Next]_vars PROVE TypeOK'
  OBVIOUS
<1> USE DEF TypeOK, TicketInv, At, tenants, history
<1>1. ASSUME NEW q \in Request, NEW u \in User, CreateRead(q, u)
      PROVE  TypeOK'
  BY <1>1 DEF CreateRead, Begin, For, Idle, Rest,
            RequestState, TicketRow, Role
<1>2. ASSUME NEW q \in Request, NEW w \in Workspace, CreateWrite(q, w)
      PROVE  TypeOK'
  BY <1>2 DEF CreateWrite, Reply, Idle,
            RequestState, TicketRow, Role
<1>3. ASSUME NEW q \in Request, NEW u \in User, NEW w \in Workspace,
             NEW r \in Role, InviteRead(q, u, w, r)
      PROVE  TypeOK'
  BY <1>3 DEF InviteRead, Begin, For, Idle, Rest,
            RequestState, TicketRow, Role
<1>4. ASSUME NEW q \in Request, NEW t \in Ticket, InviteWrite(q, t)
      PROVE  TypeOK'
  BY <1>4 DEF InviteWrite, Reply, Idle, Issue, Unissued,
            RequestState, TicketRow, Role
<1>5. ASSUME NEW q \in Request, NEW u \in User, NEW t \in Ticket, AcceptRead(q, u, t)
      PROVE  TypeOK'
  BY <1>5 DEF AcceptRead, Begin, For, Idle, Rest, Open,
            RequestState, TicketRow, Role
<1>6. ASSUME NEW q \in Request, AcceptWrite(q)
      PROVE  TypeOK'
  <2> USE <1>6 DEF AcceptWrite, Reply, Idle
  <2>1. requests' \in [Request -> RequestState]
    BY RequestTypes DEF Pc
  <2>2. tickets' \in [Ticket -> TicketRow]
    <3>1. [tickets[requests[q].ticket] EXCEPT !.state = "used"] \in TicketRow
      BY TicketTypes
    <3> QED BY <3>1
  <2>3. role' \in [Workspace -> [User -> Role \cup {"none"}]]
    <3>1. tickets[requests[q].ticket].role \in Role
      BY DEF TicketRow
    <3> QED BY <3>1
  <2>4. made' \subseteq Workspace /\ exists' \subseteq made' /\ suspended' \subseteq exists'
    OBVIOUS
  <2> QED BY <2>1, <2>2, <2>3, <2>4
<1>7. ASSUME NEW q \in Request, NEW u \in User, NEW v \in User,
             NEW w \in Workspace, RemoveRead(q, u, w, v)
      PROVE  TypeOK'
  BY <1>7 DEF RemoveRead, RemoveBegins, For, Idle,
            RequestState, TicketRow, Role
<1>8. ASSUME NEW q \in Request, CountAdmins(q)
      PROVE  TypeOK'
  <2> USE <1>8 DEF CountAdmins, Reply, Goto, Idle, Rest
  <2>1. requests' \in [Request -> RequestState]
    <3>1. CASE Cardinality({u \in User : IsAdmin(u, requests[q].workspace)}) <= 1
      BY <3>1, RequestTypes
    <3>2. CASE ~(Cardinality({u \in User : IsAdmin(u, requests[q].workspace)}) <= 1)
      <4>1. [requests[q] EXCEPT !.pc = "remove"] \in RequestState
        BY RequestTypes DEF Pc
      <4> QED BY <3>2, <4>1
    <3> QED BY <3>1, <3>2
  <2>2. tickets' \in [Ticket -> TicketRow]
    BY TicketTypes
  <2>3. role' \in [Workspace -> [User -> Role \cup {"none"}]]
    OBVIOUS
  <2>4. made' \subseteq Workspace /\ exists' \subseteq made' /\ suspended' \subseteq exists'
    OBVIOUS
  <2> QED BY <2>1, <2>2, <2>3, <2>4
<1>9. ASSUME NEW q \in Request, RemoveWrite(q)
      PROVE  TypeOK'
  BY <1>9 DEF RemoveWrite, Reply, Idle,
            RequestState, TicketRow, Role
<1>10. ASSUME NEW q \in Request, NEW u \in User, NEW w \in Workspace,
             NEW named \in BOOLEAN, GuardRead(q, u, w, named)
      PROVE  TypeOK'
  BY <1>10 DEF GuardRead, Begin, For, Idle, Rest,
            RequestState, TicketRow, Role
<1>11. ASSUME NEW q \in Request, AssertWorkspaceActive(q)
      PROVE  TypeOK'
  <2> USE <1>11 DEF AssertWorkspaceActive, Reply, Goto, Idle, Rest
  <2>1. requests' \in [Request -> RequestState]
    <3>1. CASE requests[q].workspace \in suspended
      BY <3>1, RequestTypes
    <3>2. CASE requests[q].workspace \notin suspended
      <4>1. [requests[q] EXCEPT !.pc = "act"] \in RequestState
        BY RequestTypes DEF Pc
      <4> QED BY <3>2, <4>1
    <3> QED BY <3>1, <3>2
  <2>2. tickets' \in [Ticket -> TicketRow]
    BY TicketTypes
  <2>3. role' \in [Workspace -> [User -> Role \cup {"none"}]]
    OBVIOUS
  <2>4. made' \subseteq Workspace /\ exists' \subseteq made' /\ suspended' \subseteq exists'
    OBVIOUS
  <2> QED BY <2>1, <2>2, <2>3, <2>4
<1>12. ASSUME NEW q \in Request, Act(q)
      PROVE  TypeOK'
  BY <1>12 DEF Act, Reply, Idle, Rest,
            RequestState, TicketRow, Role
<1>13. ASSUME NEW q \in Request, NEW s \in SuperAdmin, NEW w \in Workspace,
             NEW pc \in {"suspend", "reactivate"}, AdminRead(q, s, w, pc)
      PROVE  TypeOK'
  BY <1>13 DEF AdminRead, Begin, For, Idle, Rest,
            RequestState, TicketRow, Role
<1>14. ASSUME NEW q \in Request, Suspend(q)
      PROVE  TypeOK'
  <2> USE <1>14 DEF Suspend, Idle
  <2>1. requests' \in [Request -> RequestState]
    BY RequestTypes DEF Pc
  <2>2. tickets' \in [Ticket -> TicketRow]
    BY TicketTypes
  <2>3. role' \in [Workspace -> [User -> Role \cup {"none"}]]
    OBVIOUS
  <2>4. made' \subseteq Workspace /\ exists' \subseteq made' /\ suspended' \subseteq exists'
    OBVIOUS
  <2> QED BY <2>1, <2>2, <2>3, <2>4
<1>15. ASSUME NEW q \in Request, Reactivate(q)
      PROVE  TypeOK'
  BY <1>15 DEF Reactivate, Reply, Idle,
            RequestState, TicketRow, Role
<1>16. ASSUME NEW q \in Request, NEW s \in SuperAdmin, NEW u \in User, ProvisionRead(q, s, u)
      PROVE  TypeOK'
  BY <1>16 DEF ProvisionRead, Begin, For, Idle, Rest,
            RequestState, TicketRow, Role
<1>17. ASSUME NEW q \in Request, NEW w \in Workspace, ProvisionWrite(q, w)
      PROVE  TypeOK'
  <2> USE <1>17 DEF ProvisionWrite
  <2>1. requests' \in [Request -> RequestState]
    BY RequestTypes DEF Pc
  <2>2. tickets' \in [Ticket -> TicketRow]
    BY TicketTypes
  <2>3. role' \in [Workspace -> [User -> Role \cup {"none"}]]
    OBVIOUS
  <2>4. made' \subseteq Workspace /\ exists' \subseteq made' /\ suspended' \subseteq exists'
    OBVIOUS
  <2> QED BY <2>1, <2>2, <2>3, <2>4
<1>18. ASSUME NEW q \in Request, NEW t \in Ticket, ProvisionInvite(q, t)
      PROVE  TypeOK'
  BY <1>18 DEF ProvisionInvite, Reply, Idle, Issue, Unissued,
            RequestState, TicketRow, Role
<1>19. ASSUME NEW q \in Request, NEW u \in User, NEW w \in Workspace, DeletionRead(q, u, w)
      PROVE  TypeOK'
  BY <1>19 DEF DeletionRead, Begin, For, Idle, Rest,
            RequestState, TicketRow, Role
<1>20. ASSUME NEW q \in Request, NEW t \in Ticket, DeletionWrite(q, t)
      PROVE  TypeOK'
  BY <1>20 DEF DeletionWrite, Reply, Idle, Issue, Unissued,
            RequestState, TicketRow, Role
<1>21. ASSUME NEW q \in Request, NEW u \in User, NEW w \in Workspace,
             NEW t \in Ticket, ConfirmRead(q, u, w, t)
      PROVE  TypeOK'
  BY <1>21 DEF ConfirmRead, Begin, For, Idle, Rest, Open,
            RequestState, TicketRow, Role
<1>22. ASSUME NEW q \in Request, NEW also \in BOOLEAN, ReadMembers(q, also)
      PROVE  TypeOK'
  <2> USE <1>22 DEF ReadMembers, Reply, Idle, Rest
  <2>1. requests' \in [Request -> RequestState]
    <3>1. Members(requests[q].workspace) \in SUBSET User
      BY DEF Members
    <3> DEFINE found == IF also THEN Members(requests[q].workspace) ELSE {}
    <3>2. [requests[q] EXCEPT !.pc = "mark", !.members = found] \in RequestState
      BY <3>1, RequestTypes DEF Pc
    <3>3. [requests EXCEPT ![q].pc = "mark", ![q].members = found] \in [Request -> RequestState]
      BY <3>2
    <3> QED BY <3>3, RequestTypes
  <2>2. tickets' \in [Ticket -> TicketRow]
    BY TicketTypes
  <2>3. role' \in [Workspace -> [User -> Role \cup {"none"}]]
    OBVIOUS
  <2>4. made' \subseteq Workspace /\ exists' \subseteq made' /\ suspended' \subseteq exists'
    OBVIOUS
  <2> QED BY <2>1, <2>2, <2>3, <2>4
<1>23. ASSUME NEW q \in Request, MarkConfirmed(q)
      PROVE  TypeOK'
  <2> USE <1>23 DEF MarkConfirmed, Goto
  <2>1. requests' \in [Request -> RequestState]
    BY RequestTypes DEF Pc
  <2>2. tickets' \in [Ticket -> TicketRow]
    BY TicketTypes
  <2>3. role' \in [Workspace -> [User -> Role \cup {"none"}]]
    OBVIOUS
  <2>4. made' \subseteq Workspace /\ exists' \subseteq made' /\ suspended' \subseteq exists'
    OBVIOUS
  <2> QED BY <2>1, <2>2, <2>3, <2>4
<1>24. ASSUME NEW q \in Request, DeleteWorkspace(q)
      PROVE  TypeOK'
  <2> USE <1>24 DEF DeleteWorkspace, Goto, Reply, Idle, Unissued
  <2>1. requests' \in [Request -> RequestState]
    <3>1. CASE requests[q].workspace \notin exists
      BY <3>1, RequestTypes
    <3>2. CASE requests[q].workspace \in exists
      <4>1. [requests[q] EXCEPT !.pc = "sweep"] \in RequestState
        BY RequestTypes DEF Pc
      <4> QED BY <3>2, <4>1
    <3> QED BY <3>1, <3>2
  <2>2. tickets' \in [Ticket -> TicketRow]
    BY TicketTypes
  <2>3. role' \in [Workspace -> [User -> Role \cup {"none"}]]
    OBVIOUS
  <2>4. made' \subseteq Workspace /\ exists' \subseteq made' /\ suspended' \subseteq exists'
    OBVIOUS
  <2> QED BY <2>1, <2>2, <2>3, <2>4
<1>25. ASSUME NEW q \in Request, NEW u \in User, Sweep(q, u)
      PROVE  TypeOK'
  <2> USE <1>25 DEF Sweep, Rest
  <2>1. requests' \in [Request -> RequestState]
    <3> DEFINE alone == \A w \in Workspace : role[w][u] = "none"
    <3>1. CASE alone
      <4>1. [requests[q] EXCEPT !.pc = "erase", !.target = u, !.members = @ \ {u}]
              \in RequestState
        BY RequestTypes DEF Pc
      <4> QED BY <3>1, <4>1
    <3>2. CASE ~alone
      <4>1. [requests[q] EXCEPT !.pc = "sweep", !.members = @ \ {u}] \in RequestState
        BY RequestTypes DEF Pc
      <4> QED BY <3>2, <4>1
    <3> QED BY <3>1, <3>2
  <2>2. tickets' \in [Ticket -> TicketRow]
    BY TicketTypes
  <2>3. role' \in [Workspace -> [User -> Role \cup {"none"}]]
    OBVIOUS
  <2>4. made' \subseteq Workspace /\ exists' \subseteq made' /\ suspended' \subseteq exists'
    OBVIOUS
  <2> QED BY <2>1, <2>2, <2>3, <2>4
<1>26. ASSUME NEW q \in Request, EraseAccount(q)
      PROVE  TypeOK'
  <2> USE <1>26 DEF EraseAccount, Goto, Rest
  <2>1. requests' \in [Request -> RequestState]
    BY RequestTypes DEF Pc
  <2>2. tickets' \in [Ticket -> TicketRow]
    BY TicketTypes
  <2>3. role' \in [Workspace -> [User -> Role \cup {"none"}]]
    OBVIOUS
  <2>4. made' \subseteq Workspace /\ exists' \subseteq made' /\ suspended' \subseteq exists'
    OBVIOUS
  <2> QED BY <2>1, <2>2, <2>3, <2>4
<1>27. ASSUME NEW q \in Request, EraseRow(q)
      PROVE  TypeOK'
  <2> USE <1>27 DEF EraseRow
  <2>1. requests' \in [Request -> RequestState]
    BY RequestTypes DEF Pc
  <2>2. tickets' \in [Ticket -> TicketRow]
    BY TicketTypes
  <2>3. role' \in [Workspace -> [User -> Role \cup {"none"}]]
    OBVIOUS
  <2>4. made' \subseteq Workspace /\ exists' \subseteq made' /\ suspended' \subseteq exists'
    OBVIOUS
  <2> QED BY <2>1, <2>2, <2>3, <2>4
<1>28. ASSUME NEW q \in Request, SweepDone(q)
      PROVE  TypeOK'
  BY <1>28 DEF SweepDone, Reply, Idle, Rest,
            RequestState, TicketRow, Role
<1>29. ASSUME NEW q \in Request, RequestFails(q)
      PROVE  TypeOK'
  <2> USE <1>29 DEF RequestFails, Reply, Idle
  <2>1. requests' \in [Request -> RequestState]
    <3>1. CASE ~(requests[q].pc \in {"erase", "eraseRow"})
      BY <3>1, RequestTypes
    <3>2. CASE requests[q].pc \in {"erase", "eraseRow"}
      <4>1. [requests[q] EXCEPT !.pc = "sweep", !.target = Nil] \in RequestState
        BY RequestTypes DEF Pc
      <4> QED BY <3>2, <4>1
    <3> QED BY <3>1, <3>2
  <2>2. tickets' \in [Ticket -> TicketRow]
    BY TicketTypes
  <2>3. role' \in [Workspace -> [User -> Role \cup {"none"}]]
    OBVIOUS
  <2>4. made' \subseteq Workspace /\ exists' \subseteq made' /\ suspended' \subseteq exists'
    OBVIOUS
  <2> QED BY <2>1, <2>2, <2>3, <2>4
<1>30. ASSUME NEW u \in User, SignUp(u)
      PROVE  TypeOK'
  BY <1>30 DEF SignUp,
            RequestState, TicketRow, Role
<1>31. ASSUME NEW t \in Ticket, TicketExpires(t)
      PROVE  TypeOK'
  <2> USE <1>31 DEF TicketExpires
  <2>1. requests' \in [Request -> RequestState]
    BY RequestTypes DEF Pc
  <2>2. tickets' \in [Ticket -> TicketRow]
    BY TicketTypes
  <2>3. role' \in [Workspace -> [User -> Role \cup {"none"}]]
    OBVIOUS
  <2>4. made' \subseteq Workspace /\ exists' \subseteq made' /\ suspended' \subseteq exists'
    OBVIOUS
  <2>5. lapsed' \subseteq Workspace
    BY DEF EmptyInv
  <2> QED BY <2>5, <2>1, <2>2, <2>3, <2>4
<1>32. CASE UNCHANGED vars
  BY <1>32 DEF vars, tenants, history
<1> HIDE DEF TypeOK, TicketInv
<1> QED
  BY <1>1, <1>2, <1>3, <1>4, <1>5, <1>6, <1>7, <1>8, <1>9, <1>10, <1>11,
     <1>12, <1>13, <1>14, <1>15, <1>16, <1>17, <1>18, <1>19, <1>20, <1>21,
     <1>22, <1>23, <1>24, <1>25, <1>26, <1>27, <1>28, <1>29, <1>30, <1>31,
     <1>32
  DEF Next, Membership, Guard, Administration, Deletion

(* A sweep looks at one member, and erases whom it finds nowhere else.     *)
LEMMA SweepMoves ==
  ASSUME TypeOK, NEW q \in Request, NEW u \in User, Sweep(q, u)
  PROVE  /\ requests'[q].pc \in {"sweep", "erase"}
         /\ \A r \in Request \ {q} : requests'[r] = requests[r]
         /\ requests'[q].pc = "erase" =>
              requests'[q].target = u /\ \A w \in Workspace : role[w][u] = "none"
         /\ requests'[q].pc = "sweep" => requests'[q].target = requests[q].target
         /\ UNCHANGED <<tenants, users, tickets, history, mishaps>>
<1> DEFINE alone == \A w \in Workspace : role[w][u] = "none"
<1>1. requests \in [Request -> RequestState] /\ requests[q] \in RequestState
  BY DEF TypeOK
<1>2. requests' = [requests EXCEPT ![q] = 
         [requests[q] EXCEPT !.pc = IF alone THEN "erase" ELSE "sweep",
                             !.target = IF alone THEN u ELSE @,
                             !.members = @ \ {u}]]
  BY <1>1 DEF Sweep
<1> HIDE DEF alone
<1>3. requests'[q] = [requests[q] EXCEPT !.pc = IF alone THEN "erase" ELSE "sweep",
                                         !.target = IF alone THEN u ELSE @,
                                         !.members = @ \ {u}]
  BY <1>1, <1>2
<1>4. /\ requests'[q].pc = IF alone THEN "erase" ELSE "sweep"
      /\ requests'[q].target = IF alone THEN u ELSE requests[q].target
  BY <1>1, <1>3 DEF RequestState
<1>5. \A r \in Request \ {q} : requests'[r] = requests[r]
  BY <1>1, <1>2
<1>6. UNCHANGED <<tenants, users, tickets, history, mishaps>>
  BY DEF Sweep, Rest, tenants, history
<1> QED BY <1>4, <1>5, <1>6 DEF alone

LEMMA TicketStep == TypeOK /\ TicketInv /\ EmptyInv /\ [Next]_vars => TicketInv'
<1> SUFFICES ASSUME TypeOK /\ TicketInv /\ EmptyInv, [Next]_vars PROVE TicketInv'
  OBVIOUS
<1> USE DEF TypeOK, TicketInv, EmptyInv, RequestState, TicketRow, Deleting, At,
            tenants, history
<1>1. ASSUME NEW q \in Request, NEW u \in User, CreateRead(q, u)
      PROVE  TicketInv'
  BY <1>1 DEF CreateRead, Begin, For, Idle, Rest
<1>2. ASSUME NEW q \in Request, NEW w \in Workspace, CreateWrite(q, w)
      PROVE  TicketInv'
  <2> USE <1>2 DEF CreateWrite, Reply, Idle
  <2>1. CASE requests[q].user \in users
    BY <2>1
  <2>2. CASE requests[q].user \notin users
    BY <2>2
  <2> QED BY <2>1, <2>2
<1>3. ASSUME NEW q \in Request, NEW u \in User, NEW w \in Workspace,
             NEW r \in Role, InviteRead(q, u, w, r)
      PROVE  TicketInv'
  BY <1>3 DEF InviteRead, Begin, For, Idle, Rest, IsAdmin
<1>4. ASSUME NEW q \in Request, NEW t \in Ticket, InviteWrite(q, t)
      PROVE  TicketInv'
  BY <1>4 DEF InviteWrite, Reply, Idle, Issue, Unissued
<1>5. ASSUME NEW q \in Request, NEW u \in User, NEW t \in Ticket, AcceptRead(q, u, t)
      PROVE  TicketInv'
  BY <1>5 DEF AcceptRead, Begin, For, Idle, Rest, Open
<1>6. ASSUME NEW q \in Request, AcceptWrite(q)
      PROVE  TicketInv'
  <2> USE <1>6 DEF AcceptWrite, Reply, Idle
  <2>1. CASE requests[q].workspace \in exists /\ requests[q].user \in users
    BY <2>1
  <2>2. CASE ~(requests[q].workspace \in exists /\ requests[q].user \in users)
    BY <2>2
  <2> QED BY <2>1, <2>2
<1>7. ASSUME NEW q \in Request, NEW u \in User, NEW v \in User,
             NEW w \in Workspace, RemoveRead(q, u, w, v)
      PROVE  TicketInv'
  BY <1>7 DEF RemoveRead, RemoveBegins, For, Idle, IsAdmin
<1>8. ASSUME NEW q \in Request, CountAdmins(q)
      PROVE  TicketInv'
  <2> USE <1>8 DEF CountAdmins, Reply, Goto, Idle, Rest
  <2>1. CASE Cardinality({u \in User : IsAdmin(u, requests[q].workspace)}) <= 1
    BY <2>1
  <2>2. CASE ~(Cardinality({u \in User : IsAdmin(u, requests[q].workspace)}) <= 1)
    BY <2>2
  <2> QED BY <2>1, <2>2
<1>9. ASSUME NEW q \in Request, RemoveWrite(q)
      PROVE  TicketInv'
  BY <1>9 DEF RemoveWrite, Reply, Idle
<1>10. ASSUME NEW q \in Request, NEW u \in User, NEW w \in Workspace,
             NEW named \in BOOLEAN, GuardRead(q, u, w, named)
      PROVE  TicketInv'
  BY <1>10 DEF GuardRead, Begin, For, Idle, Rest
<1>11. ASSUME NEW q \in Request, AssertWorkspaceActive(q)
      PROVE  TicketInv'
  <2> USE <1>11 DEF AssertWorkspaceActive, Reply, Goto, Idle, Rest
  <2>1. CASE requests[q].workspace \in suspended
    BY <2>1
  <2>2. CASE requests[q].workspace \notin suspended
    BY <2>2
  <2> QED BY <2>1, <2>2
<1>12. ASSUME NEW q \in Request, Act(q)
      PROVE  TicketInv'
  BY <1>12 DEF Act, Reply, Idle, Rest
<1>13. ASSUME NEW q \in Request, NEW s \in SuperAdmin, NEW w \in Workspace,
             NEW pc \in {"suspend", "reactivate"}, AdminRead(q, s, w, pc)
      PROVE  TicketInv'
  BY <1>13 DEF AdminRead, Begin, For, Idle, Rest
<1>14. ASSUME NEW q \in Request, Suspend(q)
      PROVE  TicketInv'
  BY <1>14 DEF Suspend, Idle
<1>15. ASSUME NEW q \in Request, Reactivate(q)
      PROVE  TicketInv'
  BY <1>15 DEF Reactivate, Reply, Idle
<1>16. ASSUME NEW q \in Request, NEW s \in SuperAdmin, NEW u \in User, ProvisionRead(q, s, u)
      PROVE  TicketInv'
  BY <1>16 DEF ProvisionRead, Begin, For, Idle, Rest
<1>17. ASSUME NEW q \in Request, NEW w \in Workspace, ProvisionWrite(q, w)
      PROVE  TicketInv'
  BY <1>17 DEF ProvisionWrite
<1>18. ASSUME NEW q \in Request, NEW t \in Ticket, ProvisionInvite(q, t)
      PROVE  TicketInv'
  BY <1>18 DEF ProvisionInvite, Reply, Idle, Issue, Unissued
<1>19. ASSUME NEW q \in Request, NEW u \in User, NEW w \in Workspace, DeletionRead(q, u, w)
      PROVE  TicketInv'
  BY <1>19 DEF DeletionRead, Begin, For, Idle, Rest
<1>20. ASSUME NEW q \in Request, NEW t \in Ticket, DeletionWrite(q, t)
      PROVE  TicketInv'
  BY <1>20 DEF DeletionWrite, Reply, Idle, Issue, Unissued
<1>21. ASSUME NEW q \in Request, NEW u \in User, NEW w \in Workspace,
             NEW t \in Ticket, ConfirmRead(q, u, w, t)
      PROVE  TicketInv'
  BY <1>21 DEF ConfirmRead, Begin, For, Idle, Rest, Open
<1>22. ASSUME NEW q \in Request, NEW also \in BOOLEAN, ReadMembers(q, also)
      PROVE  TicketInv'
  <2> USE <1>22 DEF ReadMembers, Members, Reply, Idle, Rest
  <2>1. CASE requests[q].workspace \in exists
    BY <2>1
  <2>2. CASE requests[q].workspace \notin exists
    BY <2>2
  <2> QED BY <2>1, <2>2
<1>23. ASSUME NEW q \in Request, MarkConfirmed(q)
      PROVE  TicketInv'
  BY <1>23 DEF MarkConfirmed, Goto
<1>24. ASSUME NEW q \in Request, DeleteWorkspace(q)
      PROVE  TicketInv'
  <2> USE <1>24 DEF DeleteWorkspace, Goto, Reply, Idle, Unissued
  <2>1. CASE requests[q].workspace \in exists
    BY <2>1
  <2>2. CASE requests[q].workspace \notin exists
    BY <2>2
  <2> QED BY <2>1, <2>2
<1>25. ASSUME NEW q \in Request, NEW u \in User, Sweep(q, u)
      PROVE  TicketInv'
  BY <1>25, SweepMoves
<1>26. ASSUME NEW q \in Request, EraseAccount(q)
      PROVE  TicketInv'
  BY <1>26 DEF EraseAccount, Goto, Rest
<1>27. ASSUME NEW q \in Request, EraseRow(q)
      PROVE  TicketInv'
  BY <1>27 DEF EraseRow
<1>28. ASSUME NEW q \in Request, SweepDone(q)
      PROVE  TicketInv'
  BY <1>28 DEF SweepDone, Reply, Idle, Rest
<1>29. ASSUME NEW q \in Request, RequestFails(q)
      PROVE  TicketInv'
  <2> USE <1>29 DEF RequestFails, Reply, Idle
  <2>1. CASE requests[q].pc \in {"erase", "eraseRow"}
    BY <2>1
  <2>2. CASE ~(requests[q].pc \in {"erase", "eraseRow"})
    BY <2>2
  <2> QED BY <2>1, <2>2
<1>30. ASSUME NEW u \in User, SignUp(u)
      PROVE  TicketInv'
  BY <1>30 DEF SignUp
<1>31. ASSUME NEW t \in Ticket, TicketExpires(t)
      PROVE  TicketInv'
  BY <1>31 DEF TicketExpires
<1>32. CASE UNCHANGED vars
  BY <1>32 DEF vars, tenants, history
<1> HIDE DEF TypeOK, TicketInv, EmptyInv
<1> QED
  BY <1>1, <1>2, <1>3, <1>4, <1>5, <1>6, <1>7, <1>8, <1>9, <1>10, <1>11,
     <1>12, <1>13, <1>14, <1>15, <1>16, <1>17, <1>18, <1>19, <1>20, <1>21,
     <1>22, <1>23, <1>24, <1>25, <1>26, <1>27, <1>28, <1>29, <1>30, <1>31,
     <1>32
  DEF Next, Membership, Guard, Administration, Deletion

LEMMA EmptyStep == TypeOK /\ TicketInv /\ EmptyInv /\ [Next]_vars => EmptyInv'
<1> SUFFICES ASSUME TypeOK /\ TicketInv /\ EmptyInv, [Next]_vars PROVE EmptyInv'
  OBVIOUS
<1> USE DEF TypeOK, TicketInv, EmptyInv, Removing, RequestState, TicketRow, At,
            tenants, history
<1>1. ASSUME NEW q \in Request, NEW u \in User, CreateRead(q, u)
      PROVE  EmptyInv'
  BY <1>1 DEF CreateRead, Begin, For, Idle, Rest
<1>2. ASSUME NEW q \in Request, NEW w \in Workspace, CreateWrite(q, w)
      PROVE  EmptyInv'
  <2> USE <1>2 DEF CreateWrite, Reply, Idle
  <2>1. CASE requests[q].user \in users
    BY <2>1
  <2>2. CASE requests[q].user \notin users
    BY <2>2
  <2> QED BY <2>1, <2>2
<1>3. ASSUME NEW q \in Request, NEW u \in User, NEW w \in Workspace,
             NEW r \in Role, InviteRead(q, u, w, r)
      PROVE  EmptyInv'
  BY <1>3 DEF InviteRead, Begin, For, Idle, Rest, IsAdmin
<1>4. ASSUME NEW q \in Request, NEW t \in Ticket, InviteWrite(q, t)
      PROVE  EmptyInv'
  BY <1>4 DEF InviteWrite, Reply, Idle, Issue, Unissued
<1>5. ASSUME NEW q \in Request, NEW u \in User, NEW t \in Ticket, AcceptRead(q, u, t)
      PROVE  EmptyInv'
  BY <1>5 DEF AcceptRead, Begin, For, Idle, Rest, Open
<1>6. ASSUME NEW q \in Request, AcceptWrite(q)
      PROVE  EmptyInv'
  <2> USE <1>6 DEF AcceptWrite, Reply, Idle
  <2>1. EmptyInv!1'
    <3>1. CASE requests[q].workspace \in exists /\ requests[q].user \in users
      BY <3>1
    <3>2. CASE ~(requests[q].workspace \in exists /\ requests[q].user \in users)
      BY <3>2
    <3> QED BY <3>1, <3>2
  <2>2. EmptyInv!2'
    <3>1. CASE requests[q].workspace \in exists /\ requests[q].user \in users
      BY <3>1
    <3>2. CASE ~(requests[q].workspace \in exists /\ requests[q].user \in users)
      BY <3>2
    <3> QED BY <3>1, <3>2
  <2>3. EmptyInv!3'
    <3>1. CASE requests[q].workspace \in exists /\ requests[q].user \in users
      BY <3>1
    <3>2. CASE ~(requests[q].workspace \in exists /\ requests[q].user \in users)
      BY <3>2
    <3> QED BY <3>1, <3>2
  <2> QED BY <2>1, <2>2, <2>3
<1>7. ASSUME NEW q \in Request, NEW u \in User, NEW v \in User,
             NEW w \in Workspace, RemoveRead(q, u, w, v)
      PROVE  EmptyInv'
  BY <1>7 DEF RemoveRead, RemoveBegins, For, Idle, IsAdmin
<1>8. ASSUME NEW q \in Request, CountAdmins(q)
      PROVE  EmptyInv'
  <2> USE <1>8 DEF CountAdmins, Reply, Goto, Idle, Rest
  <2>1. CASE Cardinality({u \in User : IsAdmin(u, requests[q].workspace)}) <= 1
    BY <2>1
  <2>2. CASE ~(Cardinality({u \in User : IsAdmin(u, requests[q].workspace)}) <= 1)
    BY <2>2
  <2> QED BY <2>1, <2>2
<1>9. ASSUME NEW q \in Request, RemoveWrite(q)
      PROVE  EmptyInv'
  BY <1>9 DEF RemoveWrite, Reply, Idle
<1>10. ASSUME NEW q \in Request, NEW u \in User, NEW w \in Workspace,
             NEW named \in BOOLEAN, GuardRead(q, u, w, named)
      PROVE  EmptyInv'
  BY <1>10 DEF GuardRead, Begin, For, Idle, Rest
<1>11. ASSUME NEW q \in Request, AssertWorkspaceActive(q)
      PROVE  EmptyInv'
  <2> USE <1>11 DEF AssertWorkspaceActive, Reply, Goto, Idle, Rest
  <2>1. CASE requests[q].workspace \in suspended
    BY <2>1
  <2>2. CASE requests[q].workspace \notin suspended
    BY <2>2
  <2> QED BY <2>1, <2>2
<1>12. ASSUME NEW q \in Request, Act(q)
      PROVE  EmptyInv'
  BY <1>12 DEF Act, Reply, Idle, Rest
<1>13. ASSUME NEW q \in Request, NEW s \in SuperAdmin, NEW w \in Workspace,
             NEW pc \in {"suspend", "reactivate"}, AdminRead(q, s, w, pc)
      PROVE  EmptyInv'
  BY <1>13 DEF AdminRead, Begin, For, Idle, Rest
<1>14. ASSUME NEW q \in Request, Suspend(q)
      PROVE  EmptyInv'
  BY <1>14 DEF Suspend, Idle
<1>15. ASSUME NEW q \in Request, Reactivate(q)
      PROVE  EmptyInv'
  BY <1>15 DEF Reactivate, Reply, Idle
<1>16. ASSUME NEW q \in Request, NEW s \in SuperAdmin, NEW u \in User, ProvisionRead(q, s, u)
      PROVE  EmptyInv'
  BY <1>16 DEF ProvisionRead, Begin, For, Idle, Rest
<1>17. ASSUME NEW q \in Request, NEW w \in Workspace, ProvisionWrite(q, w)
      PROVE  EmptyInv'
  BY <1>17 DEF ProvisionWrite
<1>18. ASSUME NEW q \in Request, NEW t \in Ticket, ProvisionInvite(q, t)
      PROVE  EmptyInv'
  BY <1>18 DEF ProvisionInvite, Reply, Idle, Issue, Unissued
<1>19. ASSUME NEW q \in Request, NEW u \in User, NEW w \in Workspace, DeletionRead(q, u, w)
      PROVE  EmptyInv'
  BY <1>19 DEF DeletionRead, Begin, For, Idle, Rest
<1>20. ASSUME NEW q \in Request, NEW t \in Ticket, DeletionWrite(q, t)
      PROVE  EmptyInv'
  BY <1>20 DEF DeletionWrite, Reply, Idle, Issue, Unissued
<1>21. ASSUME NEW q \in Request, NEW u \in User, NEW w \in Workspace,
             NEW t \in Ticket, ConfirmRead(q, u, w, t)
      PROVE  EmptyInv'
  BY <1>21 DEF ConfirmRead, Begin, For, Idle, Rest, Open
<1>22. ASSUME NEW q \in Request, NEW also \in BOOLEAN, ReadMembers(q, also)
      PROVE  EmptyInv'
  <2> USE <1>22 DEF ReadMembers, Members, Reply, Idle, Rest
  <2>1. CASE requests[q].workspace \in exists
    BY <2>1
  <2>2. CASE requests[q].workspace \notin exists
    BY <2>2
  <2> QED BY <2>1, <2>2
<1>23. ASSUME NEW q \in Request, MarkConfirmed(q)
      PROVE  EmptyInv'
  BY <1>23 DEF MarkConfirmed, Goto
<1>24. ASSUME NEW q \in Request, DeleteWorkspace(q)
      PROVE  EmptyInv'
  <2> USE <1>24 DEF DeleteWorkspace, Goto, Reply, Idle, Unissued
  <2>1. EmptyInv!1'
    <3>1. CASE requests[q].workspace \in exists
      BY <3>1
    <3>2. CASE ~(requests[q].workspace \in exists)
      BY <3>2
    <3> QED BY <3>1, <3>2
  <2>2. EmptyInv!2'
    <3>1. CASE requests[q].workspace \in exists
      BY <3>1
    <3>2. CASE ~(requests[q].workspace \in exists)
      BY <3>2
    <3> QED BY <3>1, <3>2
  <2>3. EmptyInv!3'
    <3>1. CASE requests[q].workspace \in exists
      BY <3>1
    <3>2. CASE ~(requests[q].workspace \in exists)
      BY <3>2
    <3> QED BY <3>1, <3>2
  <2> QED BY <2>1, <2>2, <2>3
<1>25. ASSUME NEW q \in Request, NEW u \in User, Sweep(q, u)
      PROVE  EmptyInv'
  BY <1>25, SweepMoves
<1>26. ASSUME NEW q \in Request, EraseAccount(q)
      PROVE  EmptyInv'
  BY <1>26 DEF EraseAccount, Goto, Rest
<1>27. ASSUME NEW q \in Request, EraseRow(q)
      PROVE  EmptyInv'
  BY <1>27 DEF EraseRow
<1>28. ASSUME NEW q \in Request, SweepDone(q)
      PROVE  EmptyInv'
  BY <1>28 DEF SweepDone, Reply, Idle, Rest
<1>29. ASSUME NEW q \in Request, RequestFails(q)
      PROVE  EmptyInv'
  <2> USE <1>29 DEF RequestFails, Reply, Idle
  <2>1. CASE requests[q].pc \in {"erase", "eraseRow"}
    BY <2>1
  <2>2. CASE ~(requests[q].pc \in {"erase", "eraseRow"})
    BY <2>2
  <2> QED BY <2>1, <2>2
<1>30. ASSUME NEW u \in User, SignUp(u)
      PROVE  EmptyInv'
  BY <1>30 DEF SignUp
<1>31. ASSUME NEW t \in Ticket, TicketExpires(t)
      PROVE  EmptyInv'
  BY <1>31 DEF TicketExpires
<1>32. CASE UNCHANGED vars
  BY <1>32 DEF vars, tenants, history
<1> HIDE DEF TypeOK, TicketInv, EmptyInv
<1> QED
  BY <1>1, <1>2, <1>3, <1>4, <1>5, <1>6, <1>7, <1>8, <1>9, <1>10, <1>11,
     <1>12, <1>13, <1>14, <1>15, <1>16, <1>17, <1>18, <1>19, <1>20, <1>21,
     <1>22, <1>23, <1>24, <1>25, <1>26, <1>27, <1>28, <1>29, <1>30, <1>31,
     <1>32
  DEF Next, Membership, Guard, Administration, Deletion

LEMMA ErasedStep ==
  TypeOK /\ ErasedHadNoWorkspace /\ [Next]_vars
    => ErasedHadNoWorkspace'
<1> SUFFICES ASSUME TypeOK /\ ErasedHadNoWorkspace,
                    [Next]_vars
             PROVE  ErasedHadNoWorkspace'
  OBVIOUS
<1> USE DEF TypeOK, ErasedHadNoWorkspace, BeingErased, RequestState, At,
            tenants, history
<1>1. ASSUME NEW q \in Request, NEW u \in User, CreateRead(q, u)
      PROVE  ErasedHadNoWorkspace'
  BY <1>1 DEF CreateRead, Begin, For, Idle, Rest
<1>2. ASSUME NEW q \in Request, NEW w \in Workspace, CreateWrite(q, w)
      PROVE  ErasedHadNoWorkspace'
  <2> USE <1>2 DEF CreateWrite, Reply, Idle
  <2>1. CASE requests[q].user \in users
    BY <2>1
  <2>2. CASE requests[q].user \notin users
    BY <2>2
  <2> QED BY <2>1, <2>2
<1>3. ASSUME NEW q \in Request, NEW u \in User, NEW w \in Workspace,
             NEW r \in Role, InviteRead(q, u, w, r)
      PROVE  ErasedHadNoWorkspace'
  BY <1>3 DEF InviteRead, Begin, For, Idle, Rest, IsAdmin
<1>4. ASSUME NEW q \in Request, NEW t \in Ticket, InviteWrite(q, t)
      PROVE  ErasedHadNoWorkspace'
  BY <1>4 DEF InviteWrite, Reply, Idle, Issue, Unissued
<1>5. ASSUME NEW q \in Request, NEW u \in User, NEW t \in Ticket, AcceptRead(q, u, t)
      PROVE  ErasedHadNoWorkspace'
  BY <1>5 DEF AcceptRead, Begin, For, Idle, Rest, Open
<1>6. ASSUME NEW q \in Request, AcceptWrite(q)
      PROVE  ErasedHadNoWorkspace'
  <2> USE <1>6 DEF AcceptWrite, Reply, Idle
  <2>1. CASE requests[q].workspace \in exists /\ requests[q].user \in users
    BY <2>1
  <2>2. CASE ~(requests[q].workspace \in exists /\ requests[q].user \in users)
    BY <2>2
  <2> QED BY <2>1, <2>2
<1>7. ASSUME NEW q \in Request, NEW u \in User, NEW v \in User,
             NEW w \in Workspace, RemoveRead(q, u, w, v)
      PROVE  ErasedHadNoWorkspace'
  BY <1>7 DEF RemoveRead, RemoveBegins, For, Idle, IsAdmin
<1>8. ASSUME NEW q \in Request, CountAdmins(q)
      PROVE  ErasedHadNoWorkspace'
  <2> USE <1>8 DEF CountAdmins, Reply, Goto, Idle, Rest
  <2>1. CASE Cardinality({u \in User : IsAdmin(u, requests[q].workspace)}) <= 1
    BY <2>1
  <2>2. CASE ~(Cardinality({u \in User : IsAdmin(u, requests[q].workspace)}) <= 1)
    BY <2>2
  <2> QED BY <2>1, <2>2
<1>9. ASSUME NEW q \in Request, RemoveWrite(q)
      PROVE  ErasedHadNoWorkspace'
  BY <1>9 DEF RemoveWrite, Reply, Idle
<1>10. ASSUME NEW q \in Request, NEW u \in User, NEW w \in Workspace,
             NEW named \in BOOLEAN, GuardRead(q, u, w, named)
      PROVE  ErasedHadNoWorkspace'
  BY <1>10 DEF GuardRead, Begin, For, Idle, Rest
<1>11. ASSUME NEW q \in Request, AssertWorkspaceActive(q)
      PROVE  ErasedHadNoWorkspace'
  <2> USE <1>11 DEF AssertWorkspaceActive, Reply, Goto, Idle, Rest
  <2>1. CASE requests[q].workspace \in suspended
    BY <2>1
  <2>2. CASE requests[q].workspace \notin suspended
    BY <2>2
  <2> QED BY <2>1, <2>2
<1>12. ASSUME NEW q \in Request, Act(q)
      PROVE  ErasedHadNoWorkspace'
  BY <1>12 DEF Act, Reply, Idle, Rest
<1>13. ASSUME NEW q \in Request, NEW s \in SuperAdmin, NEW w \in Workspace,
             NEW pc \in {"suspend", "reactivate"}, AdminRead(q, s, w, pc)
      PROVE  ErasedHadNoWorkspace'
  BY <1>13 DEF AdminRead, Begin, For, Idle, Rest
<1>14. ASSUME NEW q \in Request, Suspend(q)
      PROVE  ErasedHadNoWorkspace'
  BY <1>14 DEF Suspend, Idle
<1>15. ASSUME NEW q \in Request, Reactivate(q)
      PROVE  ErasedHadNoWorkspace'
  BY <1>15 DEF Reactivate, Reply, Idle
<1>16. ASSUME NEW q \in Request, NEW s \in SuperAdmin, NEW u \in User, ProvisionRead(q, s, u)
      PROVE  ErasedHadNoWorkspace'
  BY <1>16 DEF ProvisionRead, Begin, For, Idle, Rest
<1>17. ASSUME NEW q \in Request, NEW w \in Workspace, ProvisionWrite(q, w)
      PROVE  ErasedHadNoWorkspace'
  BY <1>17 DEF ProvisionWrite
<1>18. ASSUME NEW q \in Request, NEW t \in Ticket, ProvisionInvite(q, t)
      PROVE  ErasedHadNoWorkspace'
  BY <1>18 DEF ProvisionInvite, Reply, Idle, Issue, Unissued
<1>19. ASSUME NEW q \in Request, NEW u \in User, NEW w \in Workspace, DeletionRead(q, u, w)
      PROVE  ErasedHadNoWorkspace'
  BY <1>19 DEF DeletionRead, Begin, For, Idle, Rest
<1>20. ASSUME NEW q \in Request, NEW t \in Ticket, DeletionWrite(q, t)
      PROVE  ErasedHadNoWorkspace'
  BY <1>20 DEF DeletionWrite, Reply, Idle, Issue, Unissued
<1>21. ASSUME NEW q \in Request, NEW u \in User, NEW w \in Workspace,
             NEW t \in Ticket, ConfirmRead(q, u, w, t)
      PROVE  ErasedHadNoWorkspace'
  BY <1>21 DEF ConfirmRead, Begin, For, Idle, Rest, Open
<1>22. ASSUME NEW q \in Request, NEW also \in BOOLEAN, ReadMembers(q, also)
      PROVE  ErasedHadNoWorkspace'
  <2> USE <1>22 DEF ReadMembers, Members, Reply, Idle, Rest
  <2>1. CASE requests[q].workspace \in exists
    BY <2>1
  <2>2. CASE requests[q].workspace \notin exists
    BY <2>2
  <2> QED BY <2>1, <2>2
<1>23. ASSUME NEW q \in Request, MarkConfirmed(q)
      PROVE  ErasedHadNoWorkspace'
  BY <1>23 DEF MarkConfirmed, Goto
<1>24. ASSUME NEW q \in Request, DeleteWorkspace(q)
      PROVE  ErasedHadNoWorkspace'
  <2> USE <1>24 DEF DeleteWorkspace, Goto, Reply, Idle
  <2>1. \A u \in User : BeingErased(u)' => BeingErased(u)
    <3>1. \A r \in Request : requests'[r] = requests[r]
                              \/ requests'[r].pc \notin {"erase", "eraseRow"}
      OBVIOUS
    <3> QED BY <3>1
  <2>2. \A w \in Workspace, u \in User : role[w][u] = "none" => role'[w][u] = "none"
    OBVIOUS
  <2> QED BY <2>1, <2>2
<1>25. ASSUME NEW q \in Request, NEW u \in User, Sweep(q, u)
      PROVE  ErasedHadNoWorkspace'
  BY <1>25, SweepMoves
<1>26. ASSUME NEW q \in Request, EraseAccount(q)
      PROVE  ErasedHadNoWorkspace'
  BY <1>26 DEF EraseAccount, Goto, Rest
<1>27. ASSUME NEW q \in Request, EraseRow(q)
      PROVE  ErasedHadNoWorkspace'
  BY <1>27 DEF EraseRow
<1>28. ASSUME NEW q \in Request, SweepDone(q)
      PROVE  ErasedHadNoWorkspace'
  BY <1>28 DEF SweepDone, Reply, Idle, Rest
<1>29. ASSUME NEW q \in Request, RequestFails(q)
      PROVE  ErasedHadNoWorkspace'
  <2> USE <1>29 DEF RequestFails, Reply, Idle
  <2>1. CASE requests[q].pc \in {"erase", "eraseRow"}
    BY <2>1
  <2>2. CASE ~(requests[q].pc \in {"erase", "eraseRow"})
    BY <2>2
  <2> QED BY <2>1, <2>2
<1>30. ASSUME NEW u \in User, SignUp(u)
      PROVE  ErasedHadNoWorkspace'
  BY <1>30 DEF SignUp
<1>31. ASSUME NEW t \in Ticket, TicketExpires(t)
      PROVE  ErasedHadNoWorkspace'
  BY <1>31 DEF TicketExpires
<1>32. CASE UNCHANGED vars
  BY <1>32 DEF vars, tenants, history
<1> HIDE DEF TypeOK, TicketInv, EmptyInv, ErasedHadNoWorkspace
<1> QED
  BY <1>1, <1>2, <1>3, <1>4, <1>5, <1>6, <1>7, <1>8, <1>9, <1>10, <1>11,
     <1>12, <1>13, <1>14, <1>15, <1>16, <1>17, <1>18, <1>19, <1>20, <1>21,
     <1>22, <1>23, <1>24, <1>25, <1>26, <1>27, <1>28, <1>29, <1>30, <1>31,
     <1>32
  DEF Next, Membership, Guard, Administration, Deletion

LEMMA DeletedStep ==
  TypeOK /\ TicketInv /\ DeletedWasConfirmed /\ [Next]_vars
    => DeletedWasConfirmed'
<1> SUFFICES ASSUME TypeOK /\ TicketInv /\ DeletedWasConfirmed,
                    [Next]_vars
             PROVE  DeletedWasConfirmed'
  OBVIOUS
<1> USE DEF TypeOK, TicketInv, Deleting, DeletedWasConfirmed, RequestState,
            TicketRow, At, tenants, history
<1>1. ASSUME NEW q \in Request, NEW u \in User, CreateRead(q, u)
      PROVE  DeletedWasConfirmed'
  BY <1>1 DEF CreateRead, Begin, For, Idle, Rest
<1>2. ASSUME NEW q \in Request, NEW w \in Workspace, CreateWrite(q, w)
      PROVE  DeletedWasConfirmed'
  <2> USE <1>2 DEF CreateWrite, Reply, Idle
  <2>1. CASE requests[q].user \in users
    BY <2>1
  <2>2. CASE requests[q].user \notin users
    BY <2>2
  <2> QED BY <2>1, <2>2
<1>3. ASSUME NEW q \in Request, NEW u \in User, NEW w \in Workspace,
             NEW r \in Role, InviteRead(q, u, w, r)
      PROVE  DeletedWasConfirmed'
  BY <1>3 DEF InviteRead, Begin, For, Idle, Rest, IsAdmin
<1>4. ASSUME NEW q \in Request, NEW t \in Ticket, InviteWrite(q, t)
      PROVE  DeletedWasConfirmed'
  BY <1>4 DEF InviteWrite, Reply, Idle, Issue, Unissued
<1>5. ASSUME NEW q \in Request, NEW u \in User, NEW t \in Ticket, AcceptRead(q, u, t)
      PROVE  DeletedWasConfirmed'
  BY <1>5 DEF AcceptRead, Begin, For, Idle, Rest, Open
<1>6. ASSUME NEW q \in Request, AcceptWrite(q)
      PROVE  DeletedWasConfirmed'
  <2> USE <1>6 DEF AcceptWrite, Reply, Idle
  <2>1. CASE requests[q].workspace \in exists /\ requests[q].user \in users
    BY <2>1
  <2>2. CASE ~(requests[q].workspace \in exists /\ requests[q].user \in users)
    BY <2>2
  <2> QED BY <2>1, <2>2
<1>7. ASSUME NEW q \in Request, NEW u \in User, NEW v \in User,
             NEW w \in Workspace, RemoveRead(q, u, w, v)
      PROVE  DeletedWasConfirmed'
  BY <1>7 DEF RemoveRead, RemoveBegins, For, Idle, IsAdmin
<1>8. ASSUME NEW q \in Request, CountAdmins(q)
      PROVE  DeletedWasConfirmed'
  <2> USE <1>8 DEF CountAdmins, Reply, Goto, Idle, Rest
  <2>1. CASE Cardinality({u \in User : IsAdmin(u, requests[q].workspace)}) <= 1
    BY <2>1
  <2>2. CASE ~(Cardinality({u \in User : IsAdmin(u, requests[q].workspace)}) <= 1)
    BY <2>2
  <2> QED BY <2>1, <2>2
<1>9. ASSUME NEW q \in Request, RemoveWrite(q)
      PROVE  DeletedWasConfirmed'
  BY <1>9 DEF RemoveWrite, Reply, Idle
<1>10. ASSUME NEW q \in Request, NEW u \in User, NEW w \in Workspace,
             NEW named \in BOOLEAN, GuardRead(q, u, w, named)
      PROVE  DeletedWasConfirmed'
  BY <1>10 DEF GuardRead, Begin, For, Idle, Rest
<1>11. ASSUME NEW q \in Request, AssertWorkspaceActive(q)
      PROVE  DeletedWasConfirmed'
  <2> USE <1>11 DEF AssertWorkspaceActive, Reply, Goto, Idle, Rest
  <2>1. CASE requests[q].workspace \in suspended
    BY <2>1
  <2>2. CASE requests[q].workspace \notin suspended
    BY <2>2
  <2> QED BY <2>1, <2>2
<1>12. ASSUME NEW q \in Request, Act(q)
      PROVE  DeletedWasConfirmed'
  BY <1>12 DEF Act, Reply, Idle, Rest
<1>13. ASSUME NEW q \in Request, NEW s \in SuperAdmin, NEW w \in Workspace,
             NEW pc \in {"suspend", "reactivate"}, AdminRead(q, s, w, pc)
      PROVE  DeletedWasConfirmed'
  BY <1>13 DEF AdminRead, Begin, For, Idle, Rest
<1>14. ASSUME NEW q \in Request, Suspend(q)
      PROVE  DeletedWasConfirmed'
  BY <1>14 DEF Suspend, Idle
<1>15. ASSUME NEW q \in Request, Reactivate(q)
      PROVE  DeletedWasConfirmed'
  BY <1>15 DEF Reactivate, Reply, Idle
<1>16. ASSUME NEW q \in Request, NEW s \in SuperAdmin, NEW u \in User, ProvisionRead(q, s, u)
      PROVE  DeletedWasConfirmed'
  BY <1>16 DEF ProvisionRead, Begin, For, Idle, Rest
<1>17. ASSUME NEW q \in Request, NEW w \in Workspace, ProvisionWrite(q, w)
      PROVE  DeletedWasConfirmed'
  BY <1>17 DEF ProvisionWrite
<1>18. ASSUME NEW q \in Request, NEW t \in Ticket, ProvisionInvite(q, t)
      PROVE  DeletedWasConfirmed'
  BY <1>18 DEF ProvisionInvite, Reply, Idle, Issue, Unissued
<1>19. ASSUME NEW q \in Request, NEW u \in User, NEW w \in Workspace, DeletionRead(q, u, w)
      PROVE  DeletedWasConfirmed'
  BY <1>19 DEF DeletionRead, Begin, For, Idle, Rest
<1>20. ASSUME NEW q \in Request, NEW t \in Ticket, DeletionWrite(q, t)
      PROVE  DeletedWasConfirmed'
  BY <1>20 DEF DeletionWrite, Reply, Idle, Issue, Unissued
<1>21. ASSUME NEW q \in Request, NEW u \in User, NEW w \in Workspace,
             NEW t \in Ticket, ConfirmRead(q, u, w, t)
      PROVE  DeletedWasConfirmed'
  BY <1>21 DEF ConfirmRead, Begin, For, Idle, Rest, Open
<1>22. ASSUME NEW q \in Request, NEW also \in BOOLEAN, ReadMembers(q, also)
      PROVE  DeletedWasConfirmed'
  <2> USE <1>22 DEF ReadMembers, Members, Reply, Idle, Rest
  <2>1. CASE requests[q].workspace \in exists
    BY <2>1
  <2>2. CASE requests[q].workspace \notin exists
    BY <2>2
  <2> QED BY <2>1, <2>2
<1>23. ASSUME NEW q \in Request, MarkConfirmed(q)
      PROVE  DeletedWasConfirmed'
  BY <1>23 DEF MarkConfirmed, Goto
<1>24. ASSUME NEW q \in Request, DeleteWorkspace(q)
      PROVE  DeletedWasConfirmed'
  <2> USE <1>24 DEF DeleteWorkspace, Goto, Reply, Idle, Unissued
  <2>1. CASE requests[q].workspace \in exists
    BY <2>1
  <2>2. CASE requests[q].workspace \notin exists
    BY <2>2
  <2> QED BY <2>1, <2>2
<1>25. ASSUME NEW q \in Request, NEW u \in User, Sweep(q, u)
      PROVE  DeletedWasConfirmed'
  BY <1>25, SweepMoves
<1>26. ASSUME NEW q \in Request, EraseAccount(q)
      PROVE  DeletedWasConfirmed'
  BY <1>26 DEF EraseAccount, Goto, Rest
<1>27. ASSUME NEW q \in Request, EraseRow(q)
      PROVE  DeletedWasConfirmed'
  BY <1>27 DEF EraseRow
<1>28. ASSUME NEW q \in Request, SweepDone(q)
      PROVE  DeletedWasConfirmed'
  BY <1>28 DEF SweepDone, Reply, Idle, Rest
<1>29. ASSUME NEW q \in Request, RequestFails(q)
      PROVE  DeletedWasConfirmed'
  <2> USE <1>29 DEF RequestFails, Reply, Idle
  <2>1. CASE requests[q].pc \in {"erase", "eraseRow"}
    BY <2>1
  <2>2. CASE ~(requests[q].pc \in {"erase", "eraseRow"})
    BY <2>2
  <2> QED BY <2>1, <2>2
<1>30. ASSUME NEW u \in User, SignUp(u)
      PROVE  DeletedWasConfirmed'
  BY <1>30 DEF SignUp
<1>31. ASSUME NEW t \in Ticket, TicketExpires(t)
      PROVE  DeletedWasConfirmed'
  BY <1>31 DEF TicketExpires
<1>32. CASE UNCHANGED vars
  BY <1>32 DEF vars, tenants, history
<1> HIDE DEF TypeOK, TicketInv, EmptyInv, DeletedWasConfirmed
<1> QED
  BY <1>1, <1>2, <1>3, <1>4, <1>5, <1>6, <1>7, <1>8, <1>9, <1>10, <1>11,
     <1>12, <1>13, <1>14, <1>15, <1>16, <1>17, <1>18, <1>19, <1>20, <1>21,
     <1>22, <1>23, <1>24, <1>25, <1>26, <1>27, <1>28, <1>29, <1>30, <1>31,
     <1>32
  DEF Next, Membership, Guard, Administration, Deletion

LEMMA SuspendedStep == TypeOK /\ SuspendedIsShut /\ [Next]_vars => SuspendedIsShut'
<1> SUFFICES ASSUME TypeOK /\ SuspendedIsShut, [Next]_vars PROVE SuspendedIsShut'
  OBVIOUS
<1> USE DEF TypeOK, SuspendedIsShut, RequestState, At, tenants, history
<1>1. ASSUME NEW q \in Request, NEW u \in User, CreateRead(q, u)
      PROVE  SuspendedIsShut'
  BY <1>1 DEF CreateRead, Begin, For, Idle, Rest
<1>2. ASSUME NEW q \in Request, NEW w \in Workspace, CreateWrite(q, w)
      PROVE  SuspendedIsShut'
  <2> USE <1>2 DEF CreateWrite, Reply, Idle
  <2>1. CASE requests[q].user \in users
    BY <2>1
  <2>2. CASE requests[q].user \notin users
    BY <2>2
  <2> QED BY <2>1, <2>2
<1>3. ASSUME NEW q \in Request, NEW u \in User, NEW w \in Workspace,
             NEW r \in Role, InviteRead(q, u, w, r)
      PROVE  SuspendedIsShut'
  BY <1>3 DEF InviteRead, Begin, For, Idle, Rest, IsAdmin
<1>4. ASSUME NEW q \in Request, NEW t \in Ticket, InviteWrite(q, t)
      PROVE  SuspendedIsShut'
  BY <1>4 DEF InviteWrite, Reply, Idle, Issue, Unissued
<1>5. ASSUME NEW q \in Request, NEW u \in User, NEW t \in Ticket, AcceptRead(q, u, t)
      PROVE  SuspendedIsShut'
  BY <1>5 DEF AcceptRead, Begin, For, Idle, Rest, Open
<1>6. ASSUME NEW q \in Request, AcceptWrite(q)
      PROVE  SuspendedIsShut'
  <2> USE <1>6 DEF AcceptWrite, Reply, Idle
  <2>1. CASE requests[q].workspace \in exists /\ requests[q].user \in users
    BY <2>1
  <2>2. CASE ~(requests[q].workspace \in exists /\ requests[q].user \in users)
    BY <2>2
  <2> QED BY <2>1, <2>2
<1>7. ASSUME NEW q \in Request, NEW u \in User, NEW v \in User,
             NEW w \in Workspace, RemoveRead(q, u, w, v)
      PROVE  SuspendedIsShut'
  BY <1>7 DEF RemoveRead, RemoveBegins, For, Idle, IsAdmin
<1>8. ASSUME NEW q \in Request, CountAdmins(q)
      PROVE  SuspendedIsShut'
  <2> USE <1>8 DEF CountAdmins, Reply, Goto, Idle, Rest
  <2>1. CASE Cardinality({u \in User : IsAdmin(u, requests[q].workspace)}) <= 1
    BY <2>1
  <2>2. CASE ~(Cardinality({u \in User : IsAdmin(u, requests[q].workspace)}) <= 1)
    BY <2>2
  <2> QED BY <2>1, <2>2
<1>9. ASSUME NEW q \in Request, RemoveWrite(q)
      PROVE  SuspendedIsShut'
  BY <1>9 DEF RemoveWrite, Reply, Idle
<1>10. ASSUME NEW q \in Request, NEW u \in User, NEW w \in Workspace,
             NEW named \in BOOLEAN, GuardRead(q, u, w, named)
      PROVE  SuspendedIsShut'
  BY <1>10 DEF GuardRead, Begin, For, Idle, Rest
<1>11. ASSUME NEW q \in Request, AssertWorkspaceActive(q)
      PROVE  SuspendedIsShut'
  <2> USE <1>11 DEF AssertWorkspaceActive, Reply, Goto, Idle, Rest
  <2>1. CASE requests[q].workspace \in suspended
    BY <2>1
  <2>2. CASE requests[q].workspace \notin suspended
    BY <2>2
  <2> QED BY <2>1, <2>2
<1>12. ASSUME NEW q \in Request, Act(q)
      PROVE  SuspendedIsShut'
  BY <1>12 DEF Act, Reply, Idle, Rest
<1>13. ASSUME NEW q \in Request, NEW s \in SuperAdmin, NEW w \in Workspace,
             NEW pc \in {"suspend", "reactivate"}, AdminRead(q, s, w, pc)
      PROVE  SuspendedIsShut'
  BY <1>13 DEF AdminRead, Begin, For, Idle, Rest
<1>14. ASSUME NEW q \in Request, Suspend(q)
      PROVE  SuspendedIsShut'
  BY <1>14 DEF Suspend, Idle
<1>15. ASSUME NEW q \in Request, Reactivate(q)
      PROVE  SuspendedIsShut'
  BY <1>15 DEF Reactivate, Reply, Idle
<1>16. ASSUME NEW q \in Request, NEW s \in SuperAdmin, NEW u \in User, ProvisionRead(q, s, u)
      PROVE  SuspendedIsShut'
  BY <1>16 DEF ProvisionRead, Begin, For, Idle, Rest
<1>17. ASSUME NEW q \in Request, NEW w \in Workspace, ProvisionWrite(q, w)
      PROVE  SuspendedIsShut'
  BY <1>17 DEF ProvisionWrite
<1>18. ASSUME NEW q \in Request, NEW t \in Ticket, ProvisionInvite(q, t)
      PROVE  SuspendedIsShut'
  BY <1>18 DEF ProvisionInvite, Reply, Idle, Issue, Unissued
<1>19. ASSUME NEW q \in Request, NEW u \in User, NEW w \in Workspace, DeletionRead(q, u, w)
      PROVE  SuspendedIsShut'
  BY <1>19 DEF DeletionRead, Begin, For, Idle, Rest
<1>20. ASSUME NEW q \in Request, NEW t \in Ticket, DeletionWrite(q, t)
      PROVE  SuspendedIsShut'
  BY <1>20 DEF DeletionWrite, Reply, Idle, Issue, Unissued
<1>21. ASSUME NEW q \in Request, NEW u \in User, NEW w \in Workspace,
             NEW t \in Ticket, ConfirmRead(q, u, w, t)
      PROVE  SuspendedIsShut'
  BY <1>21 DEF ConfirmRead, Begin, For, Idle, Rest, Open
<1>22. ASSUME NEW q \in Request, NEW also \in BOOLEAN, ReadMembers(q, also)
      PROVE  SuspendedIsShut'
  <2> USE <1>22 DEF ReadMembers, Members, Reply, Idle, Rest
  <2>1. CASE requests[q].workspace \in exists
    BY <2>1
  <2>2. CASE requests[q].workspace \notin exists
    BY <2>2
  <2> QED BY <2>1, <2>2
<1>23. ASSUME NEW q \in Request, MarkConfirmed(q)
      PROVE  SuspendedIsShut'
  BY <1>23 DEF MarkConfirmed, Goto
<1>24. ASSUME NEW q \in Request, DeleteWorkspace(q)
      PROVE  SuspendedIsShut'
  <2> USE <1>24 DEF DeleteWorkspace, Goto, Reply, Idle, Unissued
  <2>1. CASE requests[q].workspace \in exists
    BY <2>1
  <2>2. CASE requests[q].workspace \notin exists
    BY <2>2
  <2> QED BY <2>1, <2>2
<1>25. ASSUME NEW q \in Request, NEW u \in User, Sweep(q, u)
      PROVE  SuspendedIsShut'
  BY <1>25, SweepMoves
<1>26. ASSUME NEW q \in Request, EraseAccount(q)
      PROVE  SuspendedIsShut'
  BY <1>26 DEF EraseAccount, Goto, Rest
<1>27. ASSUME NEW q \in Request, EraseRow(q)
      PROVE  SuspendedIsShut'
  BY <1>27 DEF EraseRow
<1>28. ASSUME NEW q \in Request, SweepDone(q)
      PROVE  SuspendedIsShut'
  BY <1>28 DEF SweepDone, Reply, Idle, Rest
<1>29. ASSUME NEW q \in Request, RequestFails(q)
      PROVE  SuspendedIsShut'
  <2> USE <1>29 DEF RequestFails, Reply, Idle
  <2>1. CASE requests[q].pc \in {"erase", "eraseRow"}
    BY <2>1
  <2>2. CASE ~(requests[q].pc \in {"erase", "eraseRow"})
    BY <2>2
  <2> QED BY <2>1, <2>2
<1>30. ASSUME NEW u \in User, SignUp(u)
      PROVE  SuspendedIsShut'
  BY <1>30 DEF SignUp
<1>31. ASSUME NEW t \in Ticket, TicketExpires(t)
      PROVE  SuspendedIsShut'
  BY <1>31 DEF TicketExpires
<1>32. CASE UNCHANGED vars
  BY <1>32 DEF vars, tenants, history
<1> HIDE DEF TypeOK, TicketInv, EmptyInv, SuspendedIsShut
<1> QED
  BY <1>1, <1>2, <1>3, <1>4, <1>5, <1>6, <1>7, <1>8, <1>9, <1>10, <1>11,
     <1>12, <1>13, <1>14, <1>15, <1>16, <1>17, <1>18, <1>19, <1>20, <1>21,
     <1>22, <1>23, <1>24, <1>25, <1>26, <1>27, <1>28, <1>29, <1>30, <1>31,
     <1>32
  DEF Next, Membership, Guard, Administration, Deletion

(* Both hold on as long as no administrator goes and no request begins to  *)
(* remove, or to invite.                                                   *)
LEMMA RemovalFrame ==
  ASSUME RemovalInv, Quiet' => Quiet, contested \subseteq contested',
         Quiet' => \A w \in exists \cap exists', u \in User : IsAdmin(u, w) => IsAdmin(u, w)',
         \A r \in Request : requests'[r].pc \in Removing =>
           /\ requests'[r].pc = requests[r].pc
           /\ requests'[r].workspace = requests[r].workspace
           /\ requests'[r].target = requests[r].target
           /\ requests'[r].workspace \in exists' => requests'[r].workspace \in exists
  PROVE  RemovalInv'
<1>1. ASSUME NEW q \in Request, NEW r \in Request,
             requests'[q].pc \in Removing, requests'[r].pc \in Removing, q # r,
             requests'[q].workspace = requests'[r].workspace
      PROVE  requests'[q].workspace \in contested'
  BY <1>1 DEF RemovalInv
<1>2. ASSUME Quiet', NEW q \in Request, requests'[q].pc = "remove",
             requests'[q].workspace \in exists' \ contested'
      PROVE  \E u \in User \ {requests'[q].target} : IsAdmin(u, requests[q].workspace)'
  <2>1. PICK u \in User \ {requests[q].target} : IsAdmin(u, requests[q].workspace)
    BY <1>2 DEF RemovalInv, Removing
  <2>2. IsAdmin(u, requests[q].workspace)'
    BY <1>2, <2>1 DEF Removing
  <2> QED BY <1>2, <2>1, <2>2 DEF Removing
<1> QED BY <1>1, <1>2 DEF RemovalInv, IsAdmin, Removing

LEMMA StaffFrame ==
  ASSUME StaffInv, Quiet' => Quiet, contested \subseteq contested', lapsed' = lapsed,
         exists' = exists, role' = role, tickets' = tickets,
         \A r \in Request :
           /\ requests'[r].pc = "invite" =>
                requests[r].pc = "invite" /\ requests'[r].workspace = requests[r].workspace
           /\ requests[r].pc = "provisionInvite" =>
                requests'[r].pc = "provisionInvite"
                  /\ requests'[r].workspace = requests[r].workspace
  PROVE  StaffInv'
<1> SUFFICES ASSUME Quiet', NEW w \in exists \ (contested \cup lapsed)
             PROVE  Staffed(w)' \/ Vacant(w)'
  BY DEF StaffInv
<1>1. Staffed(w) => Staffed(w)'
  BY DEF Staffed, IsAdmin
<1>2. Vacant(w) => Vacant(w)'
  BY DEF Vacant
<1> QED BY <1>1, <1>2 DEF StaffInv

LEMMA RemovalStep ==
  TypeOK /\ EmptyInv /\ ErasedHadNoWorkspace /\ RemovalInv /\ [Next]_vars
    => RemovalInv'
<1> SUFFICES ASSUME TypeOK /\ EmptyInv /\ ErasedHadNoWorkspace /\ RemovalInv,
                    [Next]_vars
             PROVE  RemovalInv'
  OBVIOUS
<1> USE DEF TypeOK, EmptyInv, ErasedHadNoWorkspace, BeingErased, Quiet,
            Removing, IsAdmin, RequestState, TicketRow, At, tenants, history
<1>1. ASSUME NEW q \in Request, NEW u \in User, CreateRead(q, u)
      PROVE  RemovalInv'
  BY <1>1, RemovalFrame DEF CreateRead, Begin, For, Idle, Rest
<1>2. ASSUME NEW q \in Request, NEW w \in Workspace, CreateWrite(q, w)
      PROVE  RemovalInv'
  <2> USE <1>2 DEF CreateWrite, Reply, Idle
  <2>1. CASE requests[q].user \in users
    BY <2>1, RemovalFrame
  <2>2. CASE requests[q].user \notin users
    BY <2>2, RemovalFrame
  <2> QED BY <2>1, <2>2
<1>3. ASSUME NEW q \in Request, NEW u \in User, NEW w \in Workspace,
             NEW r \in Role, InviteRead(q, u, w, r)
      PROVE  RemovalInv'
  BY <1>3, RemovalFrame DEF InviteRead, Begin, For, Idle, Rest, IsAdmin
<1>4. ASSUME NEW q \in Request, NEW t \in Ticket, InviteWrite(q, t)
      PROVE  RemovalInv'
  BY <1>4, RemovalFrame DEF InviteWrite, Reply, Idle, Issue, Unissued
<1>5. ASSUME NEW q \in Request, NEW u \in User, NEW t \in Ticket, AcceptRead(q, u, t)
      PROVE  RemovalInv'
  BY <1>5, RemovalFrame DEF AcceptRead, Begin, For, Idle, Rest, Open
<1>6. ASSUME NEW q \in Request, AcceptWrite(q)
      PROVE  RemovalInv'
  <2> USE <1>6 DEF AcceptWrite, Reply, Idle
  <2>1. CASE requests[q].workspace \in exists /\ requests[q].user \in users
    BY <2>1, RemovalFrame
  <2>2. CASE ~(requests[q].workspace \in exists /\ requests[q].user \in users)
    BY <2>2, RemovalFrame
  <2> QED BY <2>1, <2>2
<1>7. ASSUME NEW q \in Request, NEW u \in User, NEW v \in User,
             NEW w \in Workspace, RemoveRead(q, u, w, v)
      PROVE  RemovalInv'
  BY <1>7 DEF RemovalInv, RemoveRead, RemoveBegins, For, Idle, IsAdmin
<1>8. ASSUME NEW q \in Request, CountAdmins(q)
      PROVE  RemovalInv'
  <2> USE <1>8 DEF CountAdmins, Reply, Goto, Idle, Rest
  <2> DEFINE w == requests[q].workspace
             admins == {u \in User : IsAdmin(u, w)}
  <2>1. CASE Cardinality(admins) <= 1
    <3>1. /\ requests'[q].pc = "idle"
          /\ \A r \in Request \ {q} : requests'[r] = requests[r]
      BY <2>1
    <3> QED BY <3>1, RemovalFrame
  <2>2. CASE ~(Cardinality(admins) <= 1)
    <3>1. PICK u \in User \ {requests[q].target} : IsAdmin(u, w)
      <4>1. ASSUME admins \subseteq {requests[q].target} PROVE FALSE
        <5>1. admins = {} \/ admins = {requests[q].target}
          BY <4>1
        <5>2. Cardinality(admins) = 0 \/ Cardinality(admins) = 1
          BY <5>1, FS_EmptySet, FS_Singleton
        <5> QED BY <2>2, <5>2
      <4> QED BY <4>1
    <3>2. /\ requests'[q] = [requests[q] EXCEPT !.pc = "remove"]
          /\ \A r \in Request \ {q} : requests'[r] = requests[r]
      BY <2>2
    <3>3. /\ requests'[q].pc = "remove" /\ requests'[q].workspace = w
          /\ requests'[q].target = requests[q].target
      BY <3>2
    <3> HIDE DEF RequestState, w, admins
    <3>4. \A r \in Request : requests'[r].pc \in Removing =>
            requests[r].pc \in Removing /\ requests'[r].workspace = requests[r].workspace
      BY <3>2, <3>3 DEF w
    <3>5. ASSUME NEW r \in Request, NEW x \in Request, r # x,
                 requests'[r].pc \in Removing, requests'[x].pc \in Removing,
                 requests'[r].workspace = requests'[x].workspace
          PROVE  requests'[r].workspace \in contested'
      BY <3>4, <3>5 DEF RemovalInv
    <3>6. ASSUME Quiet', NEW r \in Request, requests'[r].pc = "remove",
                 requests'[r].workspace \in exists' \ contested'
          PROVE  \E v \in User \ {requests'[r].target} :
                   role'[requests'[r].workspace][v] = "workspace_admin"
      <4>1. CASE r = q
        BY <3>1, <3>3, <4>1
      <4>2. CASE r # q
        BY <3>2, <3>6, <4>2 DEF RemovalInv
      <4> QED BY <4>1, <4>2
    <3> HIDE DEF Removing, Quiet
    <3> QED BY <3>5, <3>6 DEF RemovalInv
  <2> QED BY <2>1, <2>2
<1>9. ASSUME NEW q \in Request, RemoveWrite(q)
      PROVE  RemovalInv'
  BY <1>9 DEF RemovalInv, RemoveWrite, Reply, Idle
<1>10. ASSUME NEW q \in Request, NEW u \in User, NEW w \in Workspace,
             NEW named \in BOOLEAN, GuardRead(q, u, w, named)
      PROVE  RemovalInv'
  BY <1>10, RemovalFrame DEF GuardRead, Begin, For, Idle, Rest
<1>11. ASSUME NEW q \in Request, AssertWorkspaceActive(q)
      PROVE  RemovalInv'
  <2>1. /\ requests'[q].pc \in {"idle", "act"}
        /\ \A r \in Request \ {q} : requests'[r] = requests[r]
    BY <1>11 DEF AssertWorkspaceActive, Reply, Goto, Idle, Rest
  <2>2. requests[q].pc # "provisionInvite" /\ UNCHANGED <<tenants, tickets, history, mishaps>>
    BY <1>11 DEF AssertWorkspaceActive, Reply, Goto, Idle, Rest
  <2> HIDE DEF RequestState
  <2> QED BY <2>1, <2>2, RemovalFrame
<1>12. ASSUME NEW q \in Request, Act(q)
      PROVE  RemovalInv'
  BY <1>12, RemovalFrame DEF Act, Reply, Idle, Rest
<1>13. ASSUME NEW q \in Request, NEW s \in SuperAdmin, NEW w \in Workspace,
             NEW pc \in {"suspend", "reactivate"}, AdminRead(q, s, w, pc)
      PROVE  RemovalInv'
  BY <1>13, RemovalFrame DEF AdminRead, Begin, For, Idle, Rest
<1>14. ASSUME NEW q \in Request, Suspend(q)
      PROVE  RemovalInv'
  BY <1>14, RemovalFrame DEF Suspend, Idle
<1>15. ASSUME NEW q \in Request, Reactivate(q)
      PROVE  RemovalInv'
  BY <1>15, RemovalFrame DEF Reactivate, Reply, Idle
<1>16. ASSUME NEW q \in Request, NEW s \in SuperAdmin, NEW u \in User, ProvisionRead(q, s, u)
      PROVE  RemovalInv'
  BY <1>16, RemovalFrame DEF ProvisionRead, Begin, For, Idle, Rest
<1>17. ASSUME NEW q \in Request, NEW w \in Workspace, ProvisionWrite(q, w)
      PROVE  RemovalInv'
  BY <1>17, RemovalFrame DEF ProvisionWrite
<1>18. ASSUME NEW q \in Request, NEW t \in Ticket, ProvisionInvite(q, t)
      PROVE  RemovalInv'
  BY <1>18, RemovalFrame DEF ProvisionInvite, Reply, Idle, Issue, Unissued
<1>19. ASSUME NEW q \in Request, NEW u \in User, NEW w \in Workspace, DeletionRead(q, u, w)
      PROVE  RemovalInv'
  BY <1>19, RemovalFrame DEF DeletionRead, Begin, For, Idle, Rest
<1>20. ASSUME NEW q \in Request, NEW t \in Ticket, DeletionWrite(q, t)
      PROVE  RemovalInv'
  BY <1>20, RemovalFrame DEF DeletionWrite, Reply, Idle, Issue, Unissued
<1>21. ASSUME NEW q \in Request, NEW u \in User, NEW w \in Workspace,
             NEW t \in Ticket, ConfirmRead(q, u, w, t)
      PROVE  RemovalInv'
  BY <1>21, RemovalFrame DEF ConfirmRead, Begin, For, Idle, Rest, Open
<1>22. ASSUME NEW q \in Request, NEW also \in BOOLEAN, ReadMembers(q, also)
      PROVE  RemovalInv'
  <2>1. /\ requests'[q].pc \in {"idle", "mark"}
        /\ \A r \in Request \ {q} : requests'[r] = requests[r]
    BY <1>22 DEF ReadMembers, Reply, Idle, Rest
  <2>2. requests[q].pc # "provisionInvite" /\ UNCHANGED <<tenants, tickets, history, mishaps>>
    BY <1>22 DEF ReadMembers, Reply, Idle, Rest
  <2> HIDE DEF RequestState
  <2> QED BY <2>1, <2>2, RemovalFrame
<1>23. ASSUME NEW q \in Request, MarkConfirmed(q)
      PROVE  RemovalInv'
  BY <1>23, RemovalFrame DEF MarkConfirmed, Goto
<1>24. ASSUME NEW q \in Request, DeleteWorkspace(q)
      PROVE  RemovalInv'
  <2>1. /\ requests'[q].pc \in {"idle", "sweep"}
        /\ \A r \in Request \ {q} : requests'[r] = requests[r]
    BY <1>24 DEF DeleteWorkspace, Goto, Reply, Idle
  <2>2. /\ UNCHANGED <<history, mishaps>> /\ exists' \subseteq exists
        /\ \A w \in exists', u \in User : role'[w][u] = role[w][u]
    BY <1>24 DEF DeleteWorkspace
  <2> HIDE DEF RequestState
  <2> QED BY <2>1, <2>2, RemovalFrame
<1>25. ASSUME NEW q \in Request, NEW u \in User, Sweep(q, u)
      PROVE  RemovalInv'
  BY <1>25, SweepMoves, RemovalFrame
<1>26. ASSUME NEW q \in Request, EraseAccount(q)
      PROVE  RemovalInv'
  BY <1>26, RemovalFrame DEF EraseAccount, Goto, Rest
<1>27. ASSUME NEW q \in Request, EraseRow(q)
      PROVE  RemovalInv'
  BY <1>27, RemovalFrame DEF EraseRow
<1>28. ASSUME NEW q \in Request, SweepDone(q)
      PROVE  RemovalInv'
  BY <1>28, RemovalFrame DEF SweepDone, Reply, Idle, Rest
<1>29. ASSUME NEW q \in Request, RequestFails(q)
      PROVE  RemovalInv'
  <2>1. /\ requests'[q].pc \in {"idle", "sweep"}
        /\ \A r \in Request \ {q} : requests'[r] = requests[r]
    BY <1>29 DEF RequestFails, Reply, Idle
  <2>2. UNCHANGED <<tenants, history>> /\ ~Quiet'
    BY <1>29 DEF RequestFails
  <2> HIDE DEF RequestState
  <2> QED BY <2>1, <2>2, RemovalFrame
<1>30. ASSUME NEW u \in User, SignUp(u)
      PROVE  RemovalInv'
  BY <1>30, RemovalFrame DEF SignUp
<1>31. ASSUME NEW t \in Ticket, TicketExpires(t)
      PROVE  RemovalInv'
  BY <1>31, RemovalFrame DEF TicketExpires
<1>32. CASE UNCHANGED vars
  BY <1>32, RemovalFrame DEF vars, tenants, history
<1> HIDE DEF TypeOK, TicketInv, EmptyInv, RemovalInv
<1> QED
  BY <1>1, <1>2, <1>3, <1>4, <1>5, <1>6, <1>7, <1>8, <1>9, <1>10, <1>11,
     <1>12, <1>13, <1>14, <1>15, <1>16, <1>17, <1>18, <1>19, <1>20, <1>21,
     <1>22, <1>23, <1>24, <1>25, <1>26, <1>27, <1>28, <1>29, <1>30, <1>31,
     <1>32
  DEF Next, Membership, Guard, Administration, Deletion

LEMMA StaffStep ==
  TypeOK /\ TicketInv /\ EmptyInv /\ ErasedHadNoWorkspace /\ RemovalInv
   /\ StaffInv /\ [Next]_vars
    => StaffInv'
<1> SUFFICES ASSUME TypeOK /\ TicketInv /\ EmptyInv /\ ErasedHadNoWorkspace
                    /\ RemovalInv /\ StaffInv,
                    [Next]_vars
             PROVE  StaffInv'
  OBVIOUS
<1> USE DEF TypeOK, TicketInv, EmptyInv, ErasedHadNoWorkspace, BeingErased,
            Quiet, RequestState, TicketRow, At, tenants, history
<1>1. ASSUME NEW q \in Request, NEW u \in User, CreateRead(q, u)
      PROVE  StaffInv'
  BY <1>1, StaffFrame DEF CreateRead, Begin, For, Idle, Rest
<1>2. ASSUME NEW q \in Request, NEW w \in Workspace, CreateWrite(q, w)
      PROVE  StaffInv'
  <2> USE <1>2 DEF RemovalInv, StaffInv, Staffed, Vacant,
            Deleting, Removing, IsAdmin, CreateWrite, Reply, Idle
  <2>1. CASE requests[q].user \in users
    BY <2>1
  <2>2. CASE requests[q].user \notin users
    BY <2>2
  <2> QED BY <2>1, <2>2
<1>3. ASSUME NEW q \in Request, NEW u \in User, NEW w \in Workspace,
             NEW r \in Role, InviteRead(q, u, w, r)
      PROVE  StaffInv'
  BY <1>3 DEF RemovalInv, StaffInv, Staffed, Vacant,
            Deleting, Removing, IsAdmin, InviteRead, Begin, For, Idle, Rest, IsAdmin
<1>4. ASSUME NEW q \in Request, NEW t \in Ticket, InviteWrite(q, t)
      PROVE  StaffInv'
  BY <1>4 DEF RemovalInv, StaffInv, Staffed, Vacant,
            Deleting, Removing, IsAdmin, InviteWrite, Reply, Idle, Issue, Unissued
<1>5. ASSUME NEW q \in Request, NEW u \in User, NEW t \in Ticket, AcceptRead(q, u, t)
      PROVE  StaffInv'
  BY <1>5, StaffFrame DEF AcceptRead, Begin, For, Idle, Rest, Open
<1>6. ASSUME NEW q \in Request, AcceptWrite(q)
      PROVE  StaffInv'
  <2> SUFFICES ASSUME Quiet', NEW w \in exists' \ (contested' \cup lapsed')
               PROVE  Staffed(w)' \/ Vacant(w)'
    BY DEF StaffInv
  <2> USE <1>6 DEF AcceptWrite, Reply, Idle
  <2> DEFINE u == requests[q].user
             t == requests[q].ticket
             writes == requests[q].workspace \in exists /\ u \in users
  <2>1. Staffed(w) \/ Vacant(w)
    BY DEF StaffInv
  <2>2. /\ requests'[q].pc = "idle" /\ requests[q].pc = "accept"
        /\ \A r \in Request \ {q} : requests'[r] = requests[r]
    OBVIOUS
  <2>3. CASE ~writes
    <3>1. UNCHANGED <<tenants, tickets, history, mishaps>>
      BY <2>3
    <3> HIDE DEF RequestState, TicketRow, TicketInv, EmptyInv, writes
    <3>2. StaffInv'
      BY <2>2, <3>1, StaffFrame
    <3> QED BY <3>2 DEF StaffInv
  <2>4. CASE writes /\ Staffed(w)
    <3>1. PICK v \in User : role[w][v] = "workspace_admin"
      BY <2>4 DEF Staffed, IsAdmin
    <3>2. role' = [role EXCEPT ![requests[q].workspace][u] =
                     IF @ = "none" THEN tickets[t].role ELSE @]
      BY <2>4
    <3> HIDE DEF RequestState, TicketRow, TicketInv, EmptyInv, writes, t
    <3>3. role'[w][v] = "workspace_admin"
      BY <3>1, <3>2
    <3> QED BY <3>3 DEF Staffed, IsAdmin
  <2>5. CASE writes /\ Vacant(w) /\ requests[q].workspace = w
    <3>1. /\ t \in Ticket /\ tickets[t].kind = "invite" /\ tickets[t].workspace = w
      BY <2>2, <2>5
    <3>2. tickets[t].role = "workspace_admin" /\ role[w][u] = "none"
      BY <2>5, <3>1 DEF Vacant
    <3>3. role'[w][u] = "workspace_admin"
      BY <2>5, <3>2
    <3> QED BY <2>5, <3>3 DEF Staffed, IsAdmin
  <2>6. CASE writes /\ Vacant(w) /\ requests[q].workspace # w
    <3>1. \A v \in User : role'[w][v] = role[w][v]
      BY <2>6
    <3>2. /\ t \in Ticket /\ tickets[t].workspace # w
      BY <2>2, <2>6
    <3>3. /\ tickets'[t].workspace # w
          /\ \A x \in Ticket \ {t} : tickets'[x] = tickets[x]
      BY <2>6, <3>2
    <3> HIDE DEF RequestState, TicketRow, TicketInv, EmptyInv, t, u
    <3> QED BY ONLY <2>2, <2>6, <3>1, <3>2, <3>3 DEF Vacant
  <2> QED BY <2>1, <2>3, <2>4, <2>5, <2>6
<1>7. ASSUME NEW q \in Request, NEW u \in User, NEW v \in User,
             NEW w \in Workspace, RemoveRead(q, u, w, v)
      PROVE  StaffInv'
  BY <1>7, StaffFrame DEF RemoveRead, RemoveBegins, For, Idle, IsAdmin
<1>8. ASSUME NEW q \in Request, CountAdmins(q)
      PROVE  StaffInv'
  <2> USE <1>8 DEF CountAdmins, Reply, Goto, Idle, Rest
  <2>1. CASE Cardinality({u \in User : IsAdmin(u, requests[q].workspace)}) <= 1
    BY <2>1, StaffFrame
  <2>2. CASE ~(Cardinality({u \in User : IsAdmin(u, requests[q].workspace)}) <= 1)
    BY <2>2, StaffFrame
  <2> QED BY <2>1, <2>2
<1>9. ASSUME NEW q \in Request, RemoveWrite(q)
      PROVE  StaffInv'
  BY <1>9 DEF RemovalInv, StaffInv, Staffed, Vacant,
            Deleting, Removing, IsAdmin, RemoveWrite, Reply, Idle
<1>10. ASSUME NEW q \in Request, NEW u \in User, NEW w \in Workspace,
             NEW named \in BOOLEAN, GuardRead(q, u, w, named)
      PROVE  StaffInv'
  BY <1>10, StaffFrame DEF GuardRead, Begin, For, Idle, Rest
<1>11. ASSUME NEW q \in Request, AssertWorkspaceActive(q)
      PROVE  StaffInv'
  <2>1. /\ requests'[q].pc \in {"idle", "act"}
        /\ \A r \in Request \ {q} : requests'[r] = requests[r]
    BY <1>11 DEF AssertWorkspaceActive, Reply, Goto, Idle, Rest
  <2>2. requests[q].pc # "provisionInvite" /\ UNCHANGED <<tenants, tickets, history, mishaps>>
    BY <1>11 DEF AssertWorkspaceActive, Reply, Goto, Idle, Rest
  <2> HIDE DEF RequestState
  <2> QED BY <2>1, <2>2, StaffFrame
<1>12. ASSUME NEW q \in Request, Act(q)
      PROVE  StaffInv'
  BY <1>12, StaffFrame DEF Act, Reply, Idle, Rest
<1>13. ASSUME NEW q \in Request, NEW s \in SuperAdmin, NEW w \in Workspace,
             NEW pc \in {"suspend", "reactivate"}, AdminRead(q, s, w, pc)
      PROVE  StaffInv'
  BY <1>13, StaffFrame DEF AdminRead, Begin, For, Idle, Rest
<1>14. ASSUME NEW q \in Request, Suspend(q)
      PROVE  StaffInv'
  BY <1>14, StaffFrame DEF Suspend, Idle
<1>15. ASSUME NEW q \in Request, Reactivate(q)
      PROVE  StaffInv'
  BY <1>15, StaffFrame DEF Reactivate, Reply, Idle
<1>16. ASSUME NEW q \in Request, NEW s \in SuperAdmin, NEW u \in User, ProvisionRead(q, s, u)
      PROVE  StaffInv'
  BY <1>16, StaffFrame DEF ProvisionRead, Begin, For, Idle, Rest
<1>17. ASSUME NEW q \in Request, NEW w \in Workspace, ProvisionWrite(q, w)
      PROVE  StaffInv'
  BY <1>17 DEF RemovalInv, StaffInv, Staffed, Vacant,
            Deleting, Removing, IsAdmin, ProvisionWrite
<1>18. ASSUME NEW q \in Request, NEW t \in Ticket, ProvisionInvite(q, t)
      PROVE  StaffInv'
  BY <1>18 DEF RemovalInv, StaffInv, Staffed, Vacant,
            Deleting, Removing, IsAdmin, ProvisionInvite, Reply, Idle, Issue, Unissued
<1>19. ASSUME NEW q \in Request, NEW u \in User, NEW w \in Workspace, DeletionRead(q, u, w)
      PROVE  StaffInv'
  BY <1>19, StaffFrame DEF DeletionRead, Begin, For, Idle, Rest
<1>20. ASSUME NEW q \in Request, NEW t \in Ticket, DeletionWrite(q, t)
      PROVE  StaffInv'
  BY <1>20 DEF RemovalInv, StaffInv, Staffed, Vacant,
            Deleting, Removing, IsAdmin, DeletionWrite, Reply, Idle, Issue, Unissued
<1>21. ASSUME NEW q \in Request, NEW u \in User, NEW w \in Workspace,
             NEW t \in Ticket, ConfirmRead(q, u, w, t)
      PROVE  StaffInv'
  BY <1>21, StaffFrame DEF ConfirmRead, Begin, For, Idle, Rest, Open
<1>22. ASSUME NEW q \in Request, NEW also \in BOOLEAN, ReadMembers(q, also)
      PROVE  StaffInv'
  <2>1. /\ requests'[q].pc \in {"idle", "mark"}
        /\ \A r \in Request \ {q} : requests'[r] = requests[r]
    BY <1>22 DEF ReadMembers, Reply, Idle, Rest
  <2>2. requests[q].pc # "provisionInvite" /\ UNCHANGED <<tenants, tickets, history, mishaps>>
    BY <1>22 DEF ReadMembers, Reply, Idle, Rest
  <2> HIDE DEF RequestState
  <2> QED BY <2>1, <2>2, StaffFrame
<1>23. ASSUME NEW q \in Request, MarkConfirmed(q)
      PROVE  StaffInv'
  BY <1>23 DEF RemovalInv, StaffInv, Staffed, Vacant,
            Deleting, Removing, IsAdmin, MarkConfirmed, Goto
<1>24. ASSUME NEW q \in Request, DeleteWorkspace(q)
      PROVE  StaffInv'
  <2> SUFFICES ASSUME Quiet', NEW w \in exists' \ (contested' \cup lapsed')
               PROVE  Staffed(w)' \/ Vacant(w)'
    BY DEF StaffInv
  <2> USE <1>24 DEF DeleteWorkspace, Goto, Reply, Idle, Unissued
  <2>1. Staffed(w) \/ Vacant(w)
    BY DEF StaffInv
  <2>2. /\ requests'[q].pc \in {"idle", "sweep"} /\ requests[q].pc = "delete"
        /\ \A r \in Request \ {q} : requests'[r] = requests[r]
    OBVIOUS
  <2>3. /\ w # requests[q].workspace
        /\ \A v \in User : role'[w][v] = role[w][v]
    OBVIOUS
  <2>4. \A x \in Ticket :
          \/ tickets'[x] = tickets[x]
          \/ tickets'[x].kind = "none" /\ tickets[x].workspace # w
    BY <2>3
  <2>5. Staffed(w) => Staffed(w)'
    BY <2>3 DEF Staffed, IsAdmin
  <2> HIDE DEF RequestState, TicketRow, TicketInv, EmptyInv
  <2>6. Vacant(w) => Vacant(w)'
    BY ONLY <2>2, <2>3, <2>4 DEF Vacant
  <2> QED BY <2>1, <2>5, <2>6
<1>25. ASSUME NEW q \in Request, NEW u \in User, Sweep(q, u)
      PROVE  StaffInv'
  <2>1. requests[q].pc = "sweep"
    BY <1>25 DEF Sweep
  <2> HIDE DEF RequestState
  <2> QED BY <1>25, <2>1, SweepMoves, StaffFrame
<1>26. ASSUME NEW q \in Request, EraseAccount(q)
      PROVE  StaffInv'
  BY <1>26, StaffFrame DEF EraseAccount, Goto, Rest
<1>27. ASSUME NEW q \in Request, EraseRow(q)
      PROVE  StaffInv'
  <2> SUFFICES ASSUME Quiet', NEW w \in exists' \ (contested' \cup lapsed')
               PROVE  Staffed(w)' \/ Vacant(w)'
    BY DEF StaffInv
  <2> USE <1>27 DEF EraseRow
  <2>1. Staffed(w) \/ Vacant(w)
    BY DEF StaffInv
  <2>2. \A v \in User : role'[w][v] = role[w][v]
    BY DEF ErasedHadNoWorkspace, BeingErased
  <2>3. /\ requests'[q].pc = "sweep" /\ requests[q].pc = "eraseRow"
        /\ \A r \in Request \ {q} : requests'[r] = requests[r]
    OBVIOUS
  <2>4. Staffed(w) => Staffed(w)'
    BY <2>2 DEF Staffed, IsAdmin
  <2> HIDE DEF RequestState, TicketRow, TicketInv, EmptyInv
  <2>5. Vacant(w) => Vacant(w)'
    BY <2>2, <2>3 DEF Vacant
  <2> QED BY <2>1, <2>4, <2>5
<1>28. ASSUME NEW q \in Request, SweepDone(q)
      PROVE  StaffInv'
  BY <1>28, StaffFrame DEF SweepDone, Reply, Idle, Rest
<1>29. ASSUME NEW q \in Request, RequestFails(q)
      PROVE  StaffInv'
  BY <1>29 DEF RequestFails, StaffInv
<1>30. ASSUME NEW u \in User, SignUp(u)
      PROVE  StaffInv'
  BY <1>30, StaffFrame DEF SignUp
<1>31. ASSUME NEW t \in Ticket, TicketExpires(t)
      PROVE  StaffInv'
  BY <1>31 DEF RemovalInv, StaffInv, Staffed, Vacant,
            Deleting, Removing, IsAdmin, TicketExpires
<1>32. CASE UNCHANGED vars
  BY <1>32, StaffFrame DEF vars, tenants, history
<1> HIDE DEF TypeOK, TicketInv, EmptyInv, StaffInv
<1> QED
  BY <1>1, <1>2, <1>3, <1>4, <1>5, <1>6, <1>7, <1>8, <1>9, <1>10, <1>11,
     <1>12, <1>13, <1>14, <1>15, <1>16, <1>17, <1>18, <1>19, <1>20, <1>21,
     <1>22, <1>23, <1>24, <1>25, <1>26, <1>27, <1>28, <1>29, <1>30, <1>31,
     <1>32
  DEF Next, Membership, Guard, Administration, Deletion

-----------------------------------------------------------------------------
IInv ==
  /\ TypeOK /\ TicketInv /\ EmptyInv
  /\ ErasedHadNoWorkspace /\ DeletedWasConfirmed /\ SuspendedIsShut
  /\ RemovalInv /\ StaffInv

LEMMA Inductive == Spec => []IInv
<1>1. Init => IInv
  BY
    DEF Init, IInv, TypeOK, TicketInv, EmptyInv, ErasedHadNoWorkspace,
        BeingErased,
    DeletedWasConfirmed, SuspendedIsShut, RemovalInv, StaffInv, Deleting, Removing,
    At, Idle, RequestState, Unissued, TicketRow, Role
<1>2. IInv /\ [Next]_vars => IInv'
  BY TypeStep, TicketStep, EmptyStep, ErasedStep, DeletedStep, SuspendedStep,
    RemovalStep, StaffStep DEF IInv
<1> QED BY <1>1, <1>2, PTL DEF Spec

(* Every variable keeps its type.                                          *)
THEOREM TenancyTypes == Spec => []TypeOK
BY Inductive, PTL DEF IInv

(* The account of a person who is still in a workspace is not erased with  *)
(* another workspace, whoever else is at work: sweep counts after the      *)
(* workspace went, and only who joins after the count is `hasty'.          *)
THEOREM OnlyTheLonelyAreErased == Spec => []ErasedHadNoWorkspace
BY Inductive, PTL DEF IInv

(* No workspace is gone without a confirmed request of its own; a token    *)
(* stays with its workspace from the mail to the deletion.                 *)
THEOREM DeletionsWereConfirmed == Spec => []DeletedWasConfirmed
BY Inductive, PTL DEF IInv

(* No request passes the guard of a suspended workspace.                   *)
THEOREM SuspensionShuts == Spec => []SuspendedIsShut
BY Inductive, PTL DEF IInv

(* Without faults, a workspace has an administrator, or somebody is        *)
(* invited as one, however many members come and go, unless two removals   *)
(* ran at once, an invitation expired or somebody joined while being       *)
(* erased.                                                                 *)
THEOREM AnAdminStays == Spec => []KeepsAnAdmin
<1>1. IInv => KeepsAnAdmin
  BY
    DEF IInv, StaffInv, Staffed, Vacant, KeepsAnAdmin, HasAdmin, Quiet,
        IsAdmin, At, Open
<1> QED BY <1>1, Inductive, PTL
=============================================================================
