------------------------ MODULE ContentPiecesProofs ------------------------
(***************************************************************************)
(* What ContentPieces promises, proved for every set of pieces, templates, *)
(* edits and requests.                                                     *)
(*                                                                         *)
(* The invariants say little of the requests in flight, and the steps that *)
(* could break them are the writes of such requests.  The strengthening is *)
(* in two layers.  Sound says what each request carries from its read to   *)
(* its write: only lengths and growing sets, so that no other request can  *)
(* take it away.  Alone says what a request read and no other request has  *)
(* changed, which holds of the pieces that are not overlapped.             *)
(***************************************************************************)
EXTENDS ContentPieces, TLAPS

USE ContentPiecesAssumption

(* The largest slideIndex of a template has its slide.                     *)
LEMMA SlideCountCovers ==
  ASSUME NEW l \in AllLayouts
  PROVE  /\ SlideCount(l) \in Nat
         /\ \A z \in l : z + 1 <= SlideCount(l)
<1>1. CASE l = {}
  BY <1>1 DEF SlideCount
<1>2. CASE l # {}
  <2>1. PICK m \in l : \A z \in l : z <= m
    BY <1>2
  <2>2. \A z \in l : z \in Nat
    BY DEF AllLayouts
  <2>3. \E m1 \in l : \A z \in l : m1 >= z
    BY <2>1, <2>2
  <2>4. Max(l) \in l /\ \A z \in l : Max(l) >= z
    BY <2>3 DEF Max
  <2>5. Max(l) \in Nat /\ SlideCount(l) = Max(l) + 1
    BY <1>2, <2>2, <2>4 DEF SlideCount
  <2> QED
    BY <2>2, <2>4, <2>5
<1> QED
  BY <1>1, <1>2

(* New slides are slides.                                                  *)
LEMMA BlankType ==
  ASSUME NEW n \in Nat
  PROVE  Blank(n) \in Seq(Slide) /\ Len(Blank(n)) = n
<1>1. BlankSlide \in Slide
  BY DEF BlankSlide, Slide, ImageSource, Picture
<1> QED
  BY <1>1 DEF Blank

LEMMA IdleType == Idle \in HandlerState
<1>1. <<>> \in Seq(Picture)
  OBVIOUS
<1> QED
  BY <1>1 DEF Idle, HandlerState

LEMMA ToStatusType ==
  ASSUME NEW op \in {"submit", "decide"}, NEW target \in ContentPieceStatus
  PROVE  ToStatus(op, target) \in HandlerState
BY IdleType DEF ToStatus, HandlerState

LEMMA BackgroundsType ==
  ASSUME NEW k, slides[k] \in Seq(Slide)
  PROVE  Backgrounds(k) \in Seq(Picture) /\ Len(Backgrounds(k)) = Len(slides[k])
<1>1. \A i \in DOMAIN slides[k] : slides[k][i] \in Slide
  OBVIOUS
<1>2. \A i \in DOMAIN slides[k] : slides[k][i].bg \in Picture
  BY <1>1 DEF Slide
<1>3. DOMAIN slides[k] = 1..Len(slides[k]) /\ Len(slides[k]) \in Nat
  OBVIOUS
<1> QED
  BY <1>2, <1>3 DEF Backgrounds

-----------------------------------------------------------------------------
(* What a request carries from its read to its write.                      *)
Carries(h) ==
  LET r == handlers[h] IN
  /\ r.pc = "idle" => r = Idle
  /\ r.pc # "idle" => r.piece \in Piece
  /\ r.pc = "status" =>
       r.op \in {"submit", "decide"} /\ r.to \in {"pending_approval", "approved", "rejected"}
  /\ r.pc \in {"audit", "notify"} /\ r.to = "approved" => r.piece \in everApproved
  /\ r.pc = "notify" => r.to = "approved"
  /\ r.pc \in {"find", "slides", "template"} => r.op = "template" /\ r.to \in Template
  /\ r.pc = "find" => r.i <= Len(slides[r.piece])
  /\ r.pc = "slides" => r.n > r.i
  /\ r.pc = "template" => r.n <= Len(slides[r.piece])
  /\ r.pc = "edit" => r.op = "edit" /\ r.edit \in Edits /\ r.i \in DOMAIN slides[r.piece]
  /\ r.pc = "render" => r.op = "render" /\ Len(r.seen) <= Len(slides[r.piece])

Covered ==
  \A k \in Piece \ outgrown : SlideCount(zones[template[k]]) <= Len(slides[k])

Sound == TypeOK /\ Covered /\ \A h \in Handler : Carries(h)

(* What no step takes away from a request in flight.                       *)
Grows ==
  /\ \A k \in Piece : Len(slides[k]) <= Len(slides'[k])
  /\ everApproved \subseteq everApproved'

LEMMA OthersCarryOn ==
  ASSUME Sound, TypeOK', Grows, NEW g \in Handler, handlers'[g] = handlers[g]
  PROVE  Carries(g)'
<1>1. Carries(g) /\ handlers[g] \in HandlerState
  BY DEF Sound, TypeOK
<1>2. \A k \in Piece : /\ Len(slides[k]) \in Nat /\ Len(slides'[k]) \in Nat
                       /\ DOMAIN slides[k] = 1..Len(slides[k])
                       /\ DOMAIN slides'[k] = 1..Len(slides'[k])
  BY DEF Sound, TypeOK
<1>4. handlers[g].i \in Nat /\ handlers[g].n \in Nat /\ Len(handlers[g].seen) \in Nat
  BY <1>1 DEF HandlerState
<1>5. ASSUME handlers[g].pc # "idle"
      PROVE  /\ handlers[g].piece \in Piece
             /\ Len(slides[handlers[g].piece]) <= Len(slides'[handlers[g].piece])
             /\ handlers[g].piece \in everApproved => handlers[g].piece \in everApproved'
  BY <1>1, <1>5 DEF Carries, Grows
<1>6. handlers[g].pc = "template" => handlers[g].n <= Len(slides'[handlers[g].piece])
  BY <1>1, <1>2, <1>4, <1>5 DEF Carries
<1>7. handlers[g].pc = "edit" => handlers[g].i \in DOMAIN slides'[handlers[g].piece]
  BY <1>1, <1>2, <1>4, <1>5 DEF Carries
<1>8. handlers[g].pc = "render" => Len(handlers[g].seen) <= Len(slides'[handlers[g].piece])
  BY <1>1, <1>2, <1>4, <1>5 DEF Carries
<1>9. handlers[g].pc = "find" => handlers[g].i <= Len(slides'[handlers[g].piece])
  BY <1>1, <1>2, <1>4, <1>5 DEF Carries
<1> QED
  BY <1>1, <1>5, <1>6, <1>7, <1>8, <1>9 DEF Carries

LEMMA ActorDecides ==
  ASSUME Sound, TypeOK', Covered', Grows, NEW h \in Handler, Carries(h)',
         \A g \in Handler \ {h} : handlers'[g] = handlers[g]
  PROVE  Sound'
BY OthersCarryOn DEF Sound

(* A read changes nothing but the request it begins.                       *)
LEMMA ReadIsSound ==
  ASSUME Sound, NEW h \in Handler, NEW k \in Piece, NEW request \in HandlerState,
         Begin(h, k, request), Carries(h)'
  PROVE  Sound' /\ Grows
<1>1. [request EXCEPT !.piece = k] \in HandlerState
  BY DEF HandlerState
<1>2. TypeOK'
  <2>1. handlers' \in [Handler -> HandlerState]
    BY <1>1 DEF Begin, Sound, TypeOK
  <2> QED
    BY <2>1 DEF Begin, Sound, TypeOK, rowVars, layoutVars, approvals
<1>3. Grows /\ Covered'
  BY
    DEF Begin, Sound, TypeOK, rowVars, layoutVars, approvals, Grows, Covered,
        SlideCount
<1>4. \A g \in Handler \ {h} : handlers'[g] = handlers[g]
  BY DEF Begin, Sound, TypeOK
<1> QED
  BY <1>2, <1>3, <1>4, ActorDecides

LEMMA RequestIsSound ==
  ASSUME Sound, NEW h \in Handler, NEW k \in Piece, Request(h, k)
  PROVE  Sound' /\ Grows
<1> USE DEF Begin, Sound, TypeOK, rowVars, layoutVars
<1>1. ASSUME NEW auto \in BOOLEAN, SubmitRead(h, k, auto)
      PROVE  Sound' /\ Grows
  <2> DEFINE target == ResolveSubmissionTarget(HasAiGeneratedSlide(k), auto)
  <2>1. target \in {"approved", "pending_approval"}
    BY DEF ResolveSubmissionTarget
  <2>2. ToStatus("submit", target) \in HandlerState
    BY <2>1, ToStatusType DEF ContentPieceStatus
  <2>3. Begin(h, k, ToStatus("submit", target))
    BY <1>1 DEF SubmitRead
  <2>4. Carries(h)'
    BY <2>1, <2>2, <2>3 DEF Carries, ToStatus, Idle
  <2> QED
    BY <2>2, <2>3, <2>4, ReadIsSound
<1>2. ASSUME NEW s \in {"approved", "rejected"}, DecideRead(h, k, s)
      PROVE  Sound' /\ Grows
  <2>1. ToStatus("decide", s) \in HandlerState
    BY ToStatusType DEF ContentPieceStatus
  <2>2. Begin(h, k, ToStatus("decide", s))
    BY <1>2 DEF DecideRead
  <2>3. Carries(h)'
    BY <2>1, <2>2 DEF Carries, ToStatus, Idle
  <2> QED
    BY <2>1, <2>2, <2>3, ReadIsSound
<1>3. ASSUME NEW t \in Template, TemplateRead(h, k, t)
      PROVE  Sound' /\ Grows
  <2> DEFINE request == [Idle EXCEPT !.op = "template", !.pc = "find", !.to = t,
                                     !.i = Len(slides[k])]
  <2>1. Len(slides[k]) \in Nat
    OBVIOUS
  <2>2. request \in HandlerState
    BY <2>1, IdleType DEF HandlerState
  <2>3. Begin(h, k, request)
    BY <1>3 DEF TemplateRead
  <2>4. Carries(h)'
    BY <2>1, <2>2, <2>3 DEF Carries, Idle
  <2> QED
    BY <2>2, <2>3, <2>4, ReadIsSound
<1>4. ASSUME NEW i \in DOMAIN slides[k], NEW e \in Edits, EditRead(h, k, i, e)
      PROVE  Sound' /\ Grows
  <2> DEFINE request == [Idle EXCEPT !.op = "edit", !.pc = "edit", !.edit = e, !.i = i]
  <2>0. i \in Nat
    OBVIOUS
  <2>1. request \in HandlerState
    BY <2>0, IdleType DEF HandlerState
  <2>2. Begin(h, k, request)
    BY <1>4 DEF EditRead
  <2>3. Carries(h)'
    BY <2>1, <2>2 DEF Carries, Idle
  <2> QED
    BY <2>1, <2>2, <2>3, ReadIsSound
<1>5. ASSUME RenderRead(h, k)
      PROVE  Sound' /\ Grows
  <2> DEFINE request == [Idle EXCEPT !.op = "render", !.pc = "render",
                                     !.seen = Backgrounds(k), !.i = 1]
  <2>1. Backgrounds(k) \in Seq(Picture) /\ Len(Backgrounds(k)) = Len(slides[k])
    BY BackgroundsType
  <2>2. request \in HandlerState
    BY <2>1, IdleType DEF HandlerState
  <2>3. Begin(h, k, request)
    BY <1>5 DEF RenderRead
  <2>4. Carries(h)'
    BY <2>1, <2>2, <2>3 DEF Carries, Idle
  <2> QED
    BY <2>2, <2>3, <2>4, ReadIsSound
<1> QED
  BY <1>1, <1>2, <1>3, <1>4, <1>5 DEF Request

-----------------------------------------------------------------------------
LEMMA GotoType ==
  ASSUME TypeOK, NEW h \in Handler,
         \/ Goto(h, "template") \/ Goto(h, "audit") \/ Goto(h, "notify")
         \/ Goto(h, "reason") \/ Reply(h)
  PROVE  /\ handlers' \in [Handler -> HandlerState]
         /\ \A g \in Handler \ {h} : handlers'[g] = handlers[g]
<1>1. ASSUME NEW pc \in {"template", "audit", "notify", "reason"}
      PROVE  [handlers[h] EXCEPT !.pc = pc] \in HandlerState
  <2>1. handlers[h] \in HandlerState
    BY DEF TypeOK
  <2> QED
    BY <2>1 DEF HandlerState
<1> QED
  BY <1>1, IdleType DEF TypeOK, Goto, Reply

(* A step that only moves a request on, to its reply or away.              *)
LEMMA MovingOnIsSound ==
  ASSUME Sound, NEW h \in Handler, UNCHANGED <<rowVars, approvals, overlapped>>,
         notified' \subseteq everApproved, mishaps' \in Nat,
         handlers[h].pc # "idle",
         \/ Reply(h)
         \/ handlers[h].pc = "audit" /\ (\/ Goto(h, "reason")
                                         \/ handlers[h].to = "approved" /\ Goto(h, "notify"))
  PROVE  Sound' /\ Grows
<1> USE DEF Sound, TypeOK, rowVars, layoutVars, approvals
<1>1. handlers' \in [Handler -> HandlerState]
  BY IdleType, GotoType DEF Reply
<1>2. TypeOK' /\ Covered' /\ Grows
  BY <1>1 DEF Grows, Covered, SlideCount
<1>3. \A g \in Handler \ {h} : handlers'[g] = handlers[g]
  BY DEF Reply, Goto
<1>4. Carries(h)'
  <2>1. CASE Reply(h)
    BY <2>1 DEF Reply, Carries, Idle
  <2>2. CASE \/ Goto(h, "reason")
             \/ handlers[h].pc = "audit" /\ handlers[h].to = "approved" /\ Goto(h, "notify")
    <3>1. /\ handlers'[h].pc \in {"reason", "notify"}
          /\ handlers'[h].piece \in Piece
          /\ handlers'[h].pc = "notify" =>
               handlers'[h].to = "approved" /\ handlers'[h].piece \in everApproved
      <4>1. handlers[h].piece \in Piece /\ handlers[h] \in HandlerState
        BY DEF Carries
      <4>4. CASE Goto(h, "reason")
        BY <4>1, <4>4 DEF Goto, HandlerState
      <4>3. CASE handlers[h].pc = "audit" /\ handlers[h].to = "approved" /\ Goto(h, "notify")
        <5>1. handlers[h].piece \in everApproved
          BY <4>3 DEF Carries
        <5> QED
          BY <4>1, <4>3, <5>1 DEF Goto, HandlerState
      <4> QED
        BY <2>2, <4>3, <4>4
    <3> QED
      BY <3>1 DEF Carries
  <2> QED
    BY <2>1, <2>2
<1> QED
  BY <1>2, <1>3, <1>4, ActorDecides

LEMMA StatusWriteIsSound ==
  ASSUME Sound, NEW h \in Handler, StatusWrite(h)
  PROVE  Sound' /\ Grows
<1> DEFINE r == handlers[h]
<1> USE DEF Sound, TypeOK, StatusWrite, Goto, layoutVars
<1>1. /\ r.piece \in Piece /\ r.to \in {"pending_approval", "approved", "rejected"}
      /\ AfterStatus(r.op, r.to) \in {"audit", "notify", "idle"}
      /\ AfterStatus(r.op, r.to) = "notify" => r.to = "approved"
  BY DEF Carries, AfterStatus
<1>2. handlers' \in [Handler -> HandlerState]
  BY <1>1, GotoType DEF Goto
<1> USE DEF Reply
<1>3. pieceStatus' \in [Piece -> ContentPieceStatus]
  BY <1>1 DEF ContentPieceStatus
<1>4. /\ everApproved \subseteq everApproved' /\ everApproved' \subseteq Piece
      /\ humanApproved' \subseteq everApproved'
      /\ r.to = "approved" => r.piece \in everApproved'
  BY <1>1
<1>5. TypeOK'
  BY <1>2, <1>3, <1>4
<1>6. Covered' /\ Grows
  BY <1>4 DEF Grows, Covered, SlideCount
<1>7. \A g \in Handler \ {h} : handlers'[g] = handlers[g]
  OBVIOUS
<1>8. Carries(h)'
  <2> DEFINE pc == AfterStatus(r.op, r.to)
  <2>1. CASE pc = "idle"
    <3>1. handlers'[h] = Idle
      BY <2>1
    <3> QED
      BY <3>1 DEF Carries, Idle
  <2>2. CASE pc \in {"audit", "notify"}
    <3>1. /\ handlers'[h].pc = pc /\ handlers'[h].piece = r.piece /\ handlers'[h].to = r.to
          /\ handlers'[h].op = r.op
      BY <2>2 DEF HandlerState
    <3> QED
      BY <1>1, <1>4, <2>2, <3>1 DEF Carries
  <2> QED
    BY <1>1, <2>1, <2>2
<1> QED
  BY <1>5, <1>6, <1>7, <1>8, ActorDecides

(* A step that changes slides and only moves its request on.               *)
LEMMA SlidesStepIsSound ==
  ASSUME Sound, NEW h \in Handler, NEW k \in Piece, NEW new \in Seq(Slide),
         Len(slides[k]) <= Len(new), slides' = [slides EXCEPT ![k] = new],
         handlers' \in [Handler -> HandlerState], Carries(h)',
         \A g \in Handler \ {h} : handlers'[g] = handlers[g],
         UNCHANGED <<pieceStatus, layoutVars, notified, approvals, overlapped, mishaps>>
  PROVE  Sound' /\ Grows
<1> USE DEF Sound, TypeOK, approvals, layoutVars
<1>1. TypeOK'
  OBVIOUS
<1>2. Grows
  BY DEF Grows
<1>3. Covered'
  <2>1. ASSUME NEW j \in Piece \ outgrown
        PROVE  SlideCount(zones[template[j]]) <= Len(slides'[j])
    <3>1. /\ Len(slides[j]) \in Nat /\ Len(slides'[j]) \in Nat
          /\ SlideCount(zones[template[j]]) \in Nat
      BY <1>1, SlideCountCovers
    <3> QED
      BY <1>2, <3>1 DEF Covered, Grows
  <2> QED
    BY <2>1 DEF Covered, SlideCount
<1> QED
  BY <1>1, <1>2, <1>3, ActorDecides

LEMMA AddSlidesIsSound ==
  ASSUME Sound, NEW h \in Handler, AddSlides(h)
  PROVE  Sound' /\ Grows
<1> DEFINE r == handlers[h]
           k == r.piece
           more == Blank(r.n - r.i)
<1> USE DEF Sound, TypeOK, AddSlides, At
<1>1. /\ k \in Piece /\ r.to \in Template /\ r.n > r.i
      /\ r.i \in Nat /\ r.n \in Nat
  BY DEF Carries, HandlerState
<1>2. more \in Seq(Slide) /\ Len(more) = r.n - r.i
  <2>1. r.n - r.i \in Nat
    BY <1>1
  <2> HIDE DEF Sound, TypeOK, AddSlides, At
  <2> QED
    BY <2>1, BlankType
<1>3. CASE Len(slides[k]) = r.i
  <2> DEFINE new == slides[k] \o more
  <2>1. new \in Seq(Slide) /\ Len(new) = r.n /\ Len(slides[k]) <= Len(new)
    <3>1. slides[k] \in Seq(Slide)
      BY <1>1
    <3> HIDE DEF more, k, Sound, TypeOK, AddSlides, At
    <3>2. new \in Seq(Slide) /\ Len(new) = Len(slides[k]) + Len(more)
      BY <1>2, <3>1
    <3> QED
      BY <1>1, <1>2, <1>3, <3>2
  <2>2. slides' = [slides EXCEPT ![k] = new] /\ Goto(h, "template")
    BY <1>3
  <2>3. handlers' \in [Handler -> HandlerState]
    BY <2>2, GotoType
  <2>4. Carries(h)'
    <3>1. /\ handlers'[h].pc = "template" /\ handlers'[h].piece = k
          /\ handlers'[h].to = r.to /\ handlers'[h].op = "template" /\ handlers'[h].n = r.n
      BY <2>2 DEF Goto, HandlerState
    <3>2. slides'[k] = new
      BY <1>1, <2>2
    <3> HIDE DEF new
    <3>3. r.n <= Len(slides'[k])
      BY <1>1, <2>1, <3>2
    <3> HIDE DEF Sound, TypeOK, AddSlides, At
    <3> QED
      BY <1>1, <3>1, <3>3 DEF Carries
  <2>5. \A g \in Handler \ {h} : handlers'[g] = handlers[g]
    BY <2>2 DEF Goto
  <2> HIDE DEF new
  <2> QED
    BY <1>1, <2>1, <2>2, <2>3, <2>4, <2>5, SlidesStepIsSound
<1>4. CASE Len(slides[k]) # r.i
  BY <1>4, MovingOnIsSound DEF rowVars, layoutVars
<1> QED
  BY <1>3, <1>4

(* The number of slides wanted is found after those there were read.       *)
LEMMA TemplateFindIsSound ==
  ASSUME Sound, NEW h \in Handler, TemplateFind(h)
  PROVE  Sound' /\ Grows
<1> DEFINE r == handlers[h]
<1>1. /\ r.pc = "find" /\ r.piece \in Piece /\ r.op = "template" /\ r.to \in Template
      /\ r \in HandlerState /\ handlers \in [Handler -> HandlerState]
      /\ zones[r.to] \in AllLayouts
      /\ UNCHANGED <<rowVars, notified, approvals, overlapped, mishaps>>
      /\ notified' \subseteq everApproved /\ mishaps' \in Nat
  BY DEF TemplateFind, At, Sound, TypeOK, Carries
<1>2. CASE Reply(h)
  BY <1>1, <1>2, MovingOnIsSound
<1>3. CASE ~Reply(h)
  <2> DEFINE pc == IF SlideCount(zones[r.to]) > r.i THEN "slides" ELSE "template"
  <2>1. PICK count \in Nat : count = SlideCount(zones[r.to])
    BY <1>1, SlideCountCovers
  <2>2. /\ handlers' = [handlers EXCEPT ![h].n = count, ![h].pc = pc]
        /\ pc = IF count > r.i THEN "slides" ELSE "template"
    BY <1>3, <2>1 DEF TemplateFind
  <2> HIDE DEF pc
  <2>3. pc \in {"slides", "template"}
    BY <2>2
  <2>4. [r EXCEPT !.n = count, !.pc = pc] \in HandlerState
    BY <1>1, <2>3 DEF HandlerState
  <2>5. handlers' \in [Handler -> HandlerState]
    BY <1>1, <2>2, <2>4
  <2>6. /\ handlers'[h].pc = pc /\ handlers'[h].n = count /\ handlers'[h].piece = r.piece
        /\ handlers'[h].op = "template" /\ handlers'[h].to = r.to /\ handlers'[h].i = r.i
    BY <1>1, <2>2 DEF HandlerState
  <2>7. pc = "template" => count <= Len(slides[r.piece])
    <3>1. r.i \in Nat /\ r.i <= Len(slides[r.piece])
      BY <1>1 DEF Carries, Sound, HandlerState
    <3>2. slides[r.piece] \in Seq(Slide)
      BY <1>1 DEF Sound, TypeOK
    <3>3. Len(slides[r.piece]) \in Nat
      BY <3>2
    <3>4. pc = "template" => ~(count > r.i)
      BY <2>2
    <3> QED
      BY <2>1, <3>1, <3>3, <3>4
  <2>8. Carries(h)'
    <3>1. slides' = slides
      BY <1>1 DEF rowVars
    <3> QED
      BY <1>1, <2>2, <2>3, <2>6, <2>7, <3>1 DEF Carries
  <2>9. TypeOK' /\ Covered' /\ Grows
    BY <1>1, <2>5
      DEF Sound, TypeOK, Covered, Grows, SlideCount, rowVars, layoutVars,
          approvals
  <2>10. \A g \in Handler \ {h} : handlers'[g] = handlers[g]
    BY <1>1, <2>2
  <2> QED
    BY <2>8, <2>9, <2>10, ActorDecides
<1> QED
  BY <1>2, <1>3

LEMMA TemplateWriteIsSound ==
  ASSUME Sound, NEW h \in Handler, TemplateWrite(h)
  PROVE  Sound' /\ Grows
<1> DEFINE r == handlers[h]
<1> USE DEF Sound, TypeOK, TemplateWrite, At, Reply
<1>1. /\ r.piece \in Piece /\ r.to \in Template
      /\ r.n <= Len(slides[r.piece]) /\ r.n \in Nat
      /\ SlideCount(zones[r.to]) \in Nat /\ Len(slides[r.piece]) \in Nat
  BY SlideCountCovers DEF Carries, HandlerState
<1>2. TypeOK'
  BY <1>1, GotoType DEF approvals
<1>3. Grows
  BY <1>1 DEF Grows, approvals
<1>4. Covered'
  <2>1. /\ template' = [template EXCEPT ![r.piece] = r.to] /\ slides' = slides
        /\ zones' = zones
    OBVIOUS
  <2>2. ASSUME NEW j \in Piece, j \notin outgrown'
        PROVE  SlideCount(zones[template'[j]]) <= Len(slides[j])
    <3>1. CASE j = r.piece
      BY <1>1, <2>1, <2>2, <3>1
    <3>2. CASE j # r.piece
      BY <1>1, <2>1, <2>2, <3>2 DEF Covered
    <3> QED
      BY <3>1, <3>2
  <2> QED
    BY <2>1, <2>2 DEF Covered, SlideCount
<1>5. Carries(h)'
  BY <1>1 DEF Carries, Idle
<1> QED
  BY <1>2, <1>3, <1>4, <1>5, ActorDecides

LEMMA EditWriteIsSound ==
  ASSUME Sound, NEW h \in Handler, EditWrite(h)
  PROVE  Sound' /\ Grows
<1> DEFINE r == handlers[h]
           old == slides[r.piece][r.i]
           edited == [old EXCEPT !.source = Updated(old.source, r.edit.source),
                                 !.bg = Updated(old.bg, r.edit.bg)]
           new == [slides[r.piece] EXCEPT ![r.i] = edited]
<1>1. /\ r.piece \in Piece /\ r.edit \in Edits /\ r.i \in DOMAIN slides[r.piece]
      /\ slides[r.piece] \in Seq(Slide) /\ old \in Slide
  BY DEF EditWrite, At, Sound, TypeOK, Carries
<1>2. edited \in Slide
  <2>1. /\ r.edit.source \in ImageSource \cup {Keep} /\ r.edit.bg \in Picture \cup {Keep}
        /\ old.source \in ImageSource /\ old.bg \in Picture
    BY <1>1 DEF Slide
  <2>2. Updated(old.source, r.edit.source) \in ImageSource /\ Updated(old.bg, r.edit.bg) \in Picture
    BY <2>1 DEF Updated
  <2> HIDE DEF old
  <2> QED
    BY <1>1, <2>2 DEF Slide
<1>3. new \in Seq(Slide) /\ Len(new) = Len(slides[r.piece])
  <2> HIDE DEF edited
  <2> QED
    BY <1>1, <1>2
<1>4. slides' = [slides EXCEPT ![r.piece] = new]
  BY <1>1 DEF EditWrite, Sound, TypeOK
<1>5. /\ Reply(h)
      /\ UNCHANGED <<pieceStatus, layoutVars, notified, approvals, overlapped, mishaps>>
  BY DEF EditWrite
<1>6. /\ handlers' \in [Handler -> HandlerState]
      /\ \A g \in Handler \ {h} : handlers'[g] = handlers[g]
  BY <1>5, GotoType DEF Sound
<1>7. Carries(h)'
  BY <1>1, <1>5 DEF Carries, Reply, Idle, Sound, TypeOK
<1>8. Len(slides[r.piece]) <= Len(new)
  BY <1>1, <1>3
<1> HIDE DEF new
<1> QED
  BY <1>1, <1>3, <1>4, <1>5, <1>6, <1>7, <1>8, SlidesStepIsSound

LEMMA RenderWriteIsSound ==
  ASSUME Sound, NEW h \in Handler, RenderWrite(h)
  PROVE  Sound' /\ Grows
<1> DEFINE r == handlers[h]
<1>1. /\ r.piece \in Piece /\ slides[r.piece] \in Seq(Slide) /\ r.seen \in Seq(Picture)
      /\ r.i \in Nat /\ Len(r.seen) <= Len(slides[r.piece]) /\ r.pc = "render"
      /\ r.op = "render" /\ r \in HandlerState
      /\ UNCHANGED <<pieceStatus, layoutVars, notified, approvals, overlapped, mishaps>>
  BY DEF RenderWrite, At, Sound, TypeOK, Carries, HandlerState
<1>2. CASE r.i \in DOMAIN r.seen
  <2> DEFINE drawn == [slides[r.piece][r.i] EXCEPT !.rendered = r.seen[r.i]]
             new == [slides[r.piece] EXCEPT ![r.i] = drawn]
  <2>1. r.i \in DOMAIN slides[r.piece] /\ r.seen[r.i] \in Picture
    BY <1>1, <1>2
  <2>2. slides[r.piece][r.i] \in Slide
    BY <1>1, <2>1
  <2>3. drawn \in Slide
    BY <2>1, <2>2 DEF Slide
  <2>4. new \in Seq(Slide) /\ Len(new) = Len(slides[r.piece]) /\ Len(slides[r.piece]) <= Len(new)
    <3> HIDE DEF drawn
    <3> QED
      BY <1>1, <2>1, <2>3
  <2>5. slides' = [slides EXCEPT ![r.piece] = new] /\ handlers' = [handlers EXCEPT ![h].i = @ + 1]
    BY <1>1, <1>2 DEF RenderWrite, Sound, TypeOK
  <2>6. [r EXCEPT !.i = @ + 1] \in HandlerState
    BY <1>1 DEF HandlerState
  <2>7. /\ handlers' \in [Handler -> HandlerState]
        /\ \A g \in Handler \ {h} : handlers'[g] = handlers[g]
    BY <2>5, <2>6 DEF Sound, TypeOK
  <2>8. Carries(h)'
    <3>1. /\ handlers'[h].pc = "render" /\ handlers'[h].op = "render"
          /\ handlers'[h].piece = r.piece /\ handlers'[h].seen = r.seen
      BY <1>1, <2>5 DEF HandlerState, Sound, TypeOK
    <3>2. slides'[r.piece] = new
      BY <1>1, <2>5 DEF Sound, TypeOK
    <3> HIDE DEF new
    <3> QED
      BY <1>1, <2>4, <3>1, <3>2 DEF Carries
  <2> HIDE DEF new
  <2> QED
    BY <1>1, <2>4, <2>5, <2>7, <2>8, SlidesStepIsSound
<1>3. CASE r.i \notin DOMAIN r.seen
  <2>1. Reply(h) /\ UNCHANGED slides
    BY <1>3 DEF RenderWrite
  <2>2. notified' \subseteq everApproved /\ mishaps' \in Nat
    BY <1>1 DEF Sound, TypeOK
  <2> QED
    BY <1>1, <2>1, <2>2, MovingOnIsSound DEF rowVars, layoutVars
<1> QED
  BY <1>2, <1>3

-----------------------------------------------------------------------------
LEMMA HandlerStepIsSound ==
  ASSUME Sound, NEW h \in Handler, HandlerStep(h)
  PROVE  Sound' /\ Grows
<1> DEFINE r == handlers[h]
<1>1. CASE StatusWrite(h)
  BY <1>1, StatusWriteIsSound
<1>2. CASE Audit(h)
  <2>1. (r.to = "approved" /\ Goto(h, "notify")) \/ Goto(h, "reason")
    BY <1>2 DEF Audit
  <2>2. /\ r.pc = "audit" /\ UNCHANGED <<rowVars, approvals, overlapped>>
        /\ notified' \subseteq everApproved /\ mishaps' \in Nat
    BY <1>2 DEF Audit, Sound, TypeOK
  <2> QED
    BY <2>1, <2>2, MovingOnIsSound
<1>3. CASE Notify(h)
  <2>1. r.piece \in everApproved
    BY <1>3 DEF Notify, Sound, Carries
  <2>2. /\ Reply(h) /\ r.pc # "idle" /\ UNCHANGED <<rowVars, approvals, overlapped>>
        /\ notified' \subseteq everApproved /\ mishaps' \in Nat
    BY <1>3, <2>1 DEF Notify, Sound, TypeOK
  <2> QED
    BY <2>2, MovingOnIsSound
<1>4. CASE WriteReason(h)
  <2>1. /\ Reply(h)
        /\ r.pc # "idle" /\ UNCHANGED <<rowVars, approvals, overlapped>>
        /\ notified' \subseteq everApproved /\ mishaps' \in Nat
    BY <1>4 DEF WriteReason, Sound, TypeOK
  <2> QED
    BY <2>1, MovingOnIsSound
<1>5. CASE AddSlides(h)
  BY <1>5, AddSlidesIsSound
<1>6. CASE TemplateWrite(h)
  BY <1>6, TemplateWriteIsSound
<1>7. CASE EditWrite(h)
  BY <1>7, EditWriteIsSound
<1>8. CASE RenderWrite(h)
  BY <1>8, RenderWriteIsSound
<1>9. CASE TemplateFind(h)
  BY <1>9, TemplateFindIsSound
<1> QED
  BY <1>1, <1>2, <1>3, <1>4, <1>5, <1>6, <1>7, <1>8, <1>9 DEF HandlerStep

LEMMA FaultIsSound ==
  ASSUME Sound, Crash \/ \E h \in Handler : HandlerFails(h)
  PROVE  Sound' /\ Grows
<1>1. CASE Crash
  <2>1. handlers' \in [Handler -> HandlerState]
    BY <1>1, IdleType DEF Crash
  <2>2. TypeOK' /\ Grows /\ Covered'
    BY <1>1, <2>1
      DEF Crash, Mishap, Sound, TypeOK, rowVars, layoutVars, approvals, Grows,
          Covered,
                       SlideCount, ContentPiecesAssumption
  <2>3. ASSUME NEW h \in Handler PROVE Carries(h)'
    BY <1>1 DEF Crash, Carries, Idle
  <2> QED
    BY <2>2, <2>3 DEF Sound
<1>2. ASSUME NEW h \in Handler, HandlerFails(h)
      PROVE  Sound' /\ Grows
  <2>1. /\ Reply(h) /\ handlers[h].pc # "idle" /\ UNCHANGED <<rowVars, approvals, overlapped>>
        /\ notified' \subseteq everApproved /\ mishaps' \in Nat
    BY <1>2 DEF HandlerFails, Mishap, Sound, TypeOK
  <2> QED
    BY <2>1, MovingOnIsSound
<1> QED
  BY <1>1, <1>2

(* The steps of the rest of the system.                                    *)
LEMMA OutsideStepIsSound ==
  ASSUME Sound, NEW k \in Piece,
         \/ \E i \in DOMAIN slides[k] : GeneratedImageWrite(k, i)
         \/ \E s \in {"scheduled", "published"} : PublicationWrite(k, s)
  PROVE  Sound' /\ Grows
<1>1. ASSUME NEW i \in DOMAIN slides[k], GeneratedImageWrite(k, i)
      PROVE  Sound' /\ Grows
  <2> DEFINE drawn == [slides[k][i] EXCEPT !.bg = "generated"]
             new == [slides[k] EXCEPT ![i] = drawn]
  <2>1. slides[k] \in Seq(Slide) /\ slides[k][i] \in Slide
    BY DEF Sound, TypeOK
  <2>2. drawn \in Slide
    BY <2>1 DEF Slide, Picture
  <2>3. new \in Seq(Slide) /\ Len(new) = Len(slides[k])
    <3> HIDE DEF drawn
    <3> QED
      BY <2>1, <2>2
  <2>4. slides' = [slides EXCEPT ![k] = new]
        /\ UNCHANGED <<pieceStatus, layoutVars, handlers, notified, approvals, overlapped,
                       mishaps>>
    BY <1>1 DEF GeneratedImageWrite, Sound, TypeOK
  <2>5. \A j \in Piece : slides'[j] \in Seq(Slide) /\ Len(slides'[j]) = Len(slides[j])
    <3> HIDE DEF new
    <3> QED
      BY <2>3, <2>4 DEF Sound, TypeOK
  <2>6. TypeOK'
    <3> HIDE DEF new
    <3> QED
      BY <2>3, <2>4 DEF Sound, TypeOK, approvals, layoutVars
  <2>7. Grows
    BY <2>4, <2>5 DEF Grows, approvals, Sound, TypeOK
  <2>8. Covered'
    BY <2>4, <2>5 DEF Sound, Covered, SlideCount, layoutVars
  <2>9. \A g \in Handler : Carries(g)'
    <3> HIDE DEF new
    <3> QED
      BY <2>4, <2>6, <2>7, OthersCarryOn
  <2> QED
    BY <2>6, <2>7, <2>8, <2>9 DEF Sound
<1>2. ASSUME NEW s \in {"scheduled", "published"}, PublicationWrite(k, s)
      PROVE  Sound' /\ Grows
  <2>1. TypeOK' /\ Grows /\ Covered'
    BY <1>2
      DEF PublicationWrite, Sound, TypeOK, approvals, Grows, Covered,
          SlideCount,
                ContentPieceStatus, layoutVars
  <2>2. \A g \in Handler : Carries(g)'
    BY <1>2, <2>1, OthersCarryOn DEF PublicationWrite
  <2> QED
    BY <2>1, <2>2 DEF Sound
<1> QED
  BY <1>1, <1>2

(* An edit of a template leaves the pieces that carry it behind when it    *)
(* asks for more slides, and covers them when it does not.                 *)
LEMMA UpdateTemplateIsSound ==
  ASSUME Sound, NEW t \in Template, NEW layout \in Layouts[t], UpdateTemplate(t, layout)
  PROVE  Sound' /\ Grows
<1> USE DEF UpdateTemplate, Sound, TypeOK, approvals
<1>0. layout \in AllLayouts
  BY DEF AllLayouts
<1>1. TypeOK' /\ Grows
  BY <1>0 DEF Grows
<1>2. Covered'
  <2>1. ASSUME NEW k \in Piece, k \notin outgrown'
        PROVE  SlideCount(zones'[template[k]]) <= Len(slides[k])
    <3>1. k \notin outgrown /\ template[k] \in Template /\ Len(slides[k]) \in Nat
      BY <2>1
    <3>2. SlideCount(zones[template[k]]) <= Len(slides[k])
      BY <3>1 DEF Covered
    <3>3. CASE template[k] # t
      BY <3>1, <3>2, <3>3
    <3>4. CASE template[k] = t
      <4>1. /\ SlideCount(layout) \in Nat /\ SlideCount(zones[t]) \in Nat
            /\ zones'[t] = layout
        BY <1>0, SlideCountCovers
      <4>2. ~(SlideCount(layout) > SlideCount(zones[t]))
        BY <2>1, <3>4
      <4> QED
        BY <3>1, <3>2, <3>4, <4>1, <4>2
    <3> QED
      BY <3>3, <3>4
  <2> QED
    BY <2>1 DEF Covered, SlideCount
<1>3. \A g \in Handler : Carries(g)'
  BY <1>1, OthersCarryOn
<1> QED
  BY <1>1, <1>2, <1>3

LEMMA InitIsSound ==
  ASSUME Init
  PROVE  Sound
<1>1. \A k \in Piece : SlideCount(zones[template[k]]) \in Nat
  BY SlideCountCovers DEF Init
<1>2. \A k \in Piece :
        slides[k] \in Seq(Slide) /\ Len(slides[k]) = SlideCount(zones[template[k]])
  BY <1>1, BlankType DEF Init
<1>3. slides \in [Piece -> Seq(Slide)]
  BY <1>2 DEF Init
<1>4. TypeOK
  BY <1>3, IdleType DEF Init, TypeOK, ContentPieceStatus
<1>5. Covered
  BY <1>1, <1>2 DEF Covered
<1>6. \A h \in Handler : Carries(h)
  BY DEF Init, Carries, Idle
<1> QED
  BY <1>4, <1>5, <1>6 DEF Sound

LEMMA StepIsSound ==
  ASSUME Sound, [Next]_vars
  PROVE  Sound' /\ Grows
<1>1. CASE Next
  BY <1>1, HandlerStepIsSound, RequestIsSound, FaultIsSound, OutsideStepIsSound,
     UpdateTemplateIsSound DEF Next, ContentNext
<1>2. CASE UNCHANGED vars
  BY <1>2
    DEF vars, Sound, TypeOK, Covered, Carries, Grows, SlideCount, rowVars,
        layoutVars
<1> QED
  BY <1>1, <1>2

THEOREM ContentIsSound == Spec => []Sound
<1>1. Init => Sound
  BY InitIsSound
<1>2. Sound /\ [Next]_vars => Sound'
  BY StepIsSound
<1> QED
  BY <1>1, <1>2, PTL DEF Spec

(* The types of the rows, the requests and the histories.                  *)
THEOREM ContentTypes == Spec => []TypeOK
<1>1. Sound => TypeOK
  BY DEF Sound
<1> QED
  BY <1>1, ContentIsSound, PTL

(* Every zone has its slide, whatever template changes of pieces run       *)
(* together: the slides of a piece are never fewer than its template       *)
(* counts, unless an edit of the template itself made it count more.       *)
THEOREM EveryZoneHasASlide == Spec => []SlidesCoverTemplate
<1>1. ASSUME Sound PROVE SlidesCoverTemplate
  <2> SUFFICES ASSUME NEW k \in Piece \ outgrown, NEW z \in zones[template[k]]
               PROVE  z + 1 \in DOMAIN slides[k]
    BY DEF SlidesCoverTemplate
  <2>1. /\ zones[template[k]] \in AllLayouts /\ Len(slides[k]) \in Nat
        /\ DOMAIN slides[k] = 1..Len(slides[k])
    BY <1>1 DEF Sound, TypeOK
  <2>2. z \in Nat
    BY <2>1 DEF AllLayouts
  <2>3. /\ z + 1 <= SlideCount(zones[template[k]])
        /\ SlideCount(zones[template[k]]) \in Nat
    BY <2>1, SlideCountCovers
  <2>4. SlideCount(zones[template[k]]) <= Len(slides[k])
    BY <1>1 DEF Sound, Covered
  <2> QED
    BY <2>1, <2>2, <2>3, <2>4
<1> QED
  BY <1>1, ContentIsSound, PTL

-----------------------------------------------------------------------------
(* An announcement on its way stays so while somebody else moves.          *)
LEMMA StillAnnounced ==
  ASSUME NEW k \in Piece, AnnouncedOrAbout(k), notified \subseteq notified',
         NEW h \in Handler, handlers[h].pc \notin {"audit", "notify"},
         \A g \in Handler \ {h} : handlers'[g] = handlers[g]
  PROVE  AnnouncedOrAbout(k)'
BY DEF AnnouncedOrAbout, On

LEMMA StepAnnounces ==
  ASSUME Sound, ApprovedIsAnnounced, [Next]_vars
  PROVE  ApprovedIsAnnounced'
<1> SUFFICES ASSUME NEW k \in Piece, k \in everApproved', mishaps' = 0, WebhookConfigured
             PROVE  AnnouncedOrAbout(k)'
  BY StepIsSound DEF ApprovedIsAnnounced, Sound, TypeOK
<1> USE DEF Sound, TypeOK
<1>1. ASSUME k \in everApproved, mishaps = 0
      PROVE  AnnouncedOrAbout(k)
  BY <1>1 DEF ApprovedIsAnnounced
<1>2. ASSUME NEW h \in Handler, StatusWrite(h)
      PROVE  AnnouncedOrAbout(k)'
  <2>1. /\ handlers[h].pc = "status"
        /\ LET pc == AfterStatus(handlers[h].op, handlers[h].to) IN
             IF pc = "idle" THEN Reply(h) ELSE Goto(h, pc)
        /\ handlers[h].op \in {"submit", "decide"} /\ UNCHANGED <<notified, mishaps>>
        /\ everApproved' = IF handlers[h].to = "approved"
                             THEN everApproved \cup {handlers[h].piece} ELSE everApproved
    BY <1>2 DEF StatusWrite, Carries
  <2>2. \A g \in Handler \ {h} : handlers'[g] = handlers[g]
    BY <2>1 DEF Goto, Reply
  <2>3. CASE k \in everApproved
    BY <1>1, <2>1, <2>2, <2>3, StillAnnounced
  <2>4. CASE k \notin everApproved
    <3>1. handlers[h].to = "approved" /\ handlers[h].piece = k
      BY <2>1, <2>4
    <3>2. AfterStatus(handlers[h].op, handlers[h].to) \in {"audit", "notify"}
      BY <3>1 DEF AfterStatus
    <3>3. /\ handlers'[h].to = "approved" /\ handlers'[h].piece = k
          /\ handlers'[h].pc \in {"audit", "notify"}
      BY <2>1, <3>1, <3>2 DEF Goto, HandlerState
    <3> QED
      BY <3>3 DEF AnnouncedOrAbout, On
  <2> QED
    BY <2>3, <2>4
<1>3. ASSUME NEW h \in Handler, Audit(h)
      PROVE  AnnouncedOrAbout(k)'
  <2>1. /\ AnnouncedOrAbout(k) /\ notified' = notified /\ handlers[h].pc = "audit"
        /\ Goto(h, IF handlers[h].to = "approved" THEN "notify" ELSE "reason")
    BY <1>1, <1>3 DEF Audit, approvals
  <2>2. CASE handlers[h].to = "approved" /\ handlers[h].piece = k
    <3>1. /\ handlers'[h].to = "approved" /\ handlers'[h].piece = k
          /\ handlers'[h].pc = "notify"
      BY <2>1, <2>2 DEF Goto, HandlerState
    <3> QED
      BY <3>1 DEF AnnouncedOrAbout, On
  <2>3. CASE ~(handlers[h].to = "approved" /\ handlers[h].piece = k)
    <3>1. \A g \in Handler \ {h} : handlers'[g] = handlers[g]
      BY <2>1 DEF Goto
    <3> QED
      BY <2>1, <2>3, <3>1 DEF AnnouncedOrAbout, On
  <2> QED
    BY <2>2, <2>3
<1>4. ASSUME NEW h \in Handler, Notify(h)
      PROVE  AnnouncedOrAbout(k)'
  <2>1. /\ AnnouncedOrAbout(k) /\ notified' = notified \cup {handlers[h].piece}
        /\ \A g \in Handler \ {h} : handlers'[g] = handlers[g]
    BY <1>1, <1>4 DEF Notify, approvals, Reply
  <2> QED
    BY <2>1 DEF AnnouncedOrAbout, On
<1>5. ASSUME NEW h \in Handler,
             \/ WriteReason(h) \/ TemplateFind(h) \/ AddSlides(h) \/ TemplateWrite(h)
             \/ EditWrite(h) \/ RenderWrite(h) \/ \E j \in Piece : Request(h, j)
      PROVE  AnnouncedOrAbout(k)'
  <2>1. /\ handlers[h].pc \notin {"audit", "notify"}
        /\ UNCHANGED <<notified, everApproved, mishaps>>
        /\ \A g \in Handler \ {h} : handlers'[g] = handlers[g]
    BY <1>5
      DEF WriteReason, TemplateFind, AddSlides, TemplateWrite, EditWrite,
          RenderWrite, At,
                Request, SubmitRead, DecideRead, TemplateRead, EditRead, RenderRead, Begin,
                Goto, Reply, approvals
  <2> QED
    BY <1>1, <2>1, StillAnnounced
<1>6. ASSUME Crash \/ \E h \in Handler : HandlerFails(h)
      PROVE  FALSE
  BY <1>6 DEF Crash, HandlerFails, Mishap
<1>7. ASSUME NEW j \in Piece,
             \/ \E i \in DOMAIN slides[j] : GeneratedImageWrite(j, i)
             \/ \E s \in {"scheduled", "published"} : PublicationWrite(j, s)
      PROVE  AnnouncedOrAbout(k)'
  BY <1>1, <1>7
    DEF GeneratedImageWrite, PublicationWrite, approvals, AnnouncedOrAbout, On
<1>8. CASE UNCHANGED vars
  BY <1>1, <1>8 DEF vars, approvals, AnnouncedOrAbout, On
<1>9. CASE \E t \in Template : \E layout \in Layouts[t] : UpdateTemplate(t, layout)
  BY <1>1, <1>9 DEF UpdateTemplate, approvals, AnnouncedOrAbout, On
<1> QED
  BY <1>2, <1>3, <1>4, <1>5, <1>6, <1>7, <1>8, <1>9
    DEF Next, ContentNext, HandlerStep

(* Unless something failed, no approval goes unannounced: the request that *)
(* wrote it is on its way to the webhook, and nothing but it moves it.     *)
THEOREM NoApprovalUnannounced == Spec => []ApprovedIsAnnounced
<1>1. Init => ApprovedIsAnnounced
  BY DEF Init, ApprovedIsAnnounced
<1>2. Sound /\ ApprovedIsAnnounced /\ [Next]_vars => ApprovedIsAnnounced'
  BY StepAnnounces
<1> QED
  BY <1>1, <1>2, ContentIsSound, PTL DEF Spec

-----------------------------------------------------------------------------
(* A piece that no two requests ever worked on at once: what the one that  *)
(* is on it read still holds.                                              *)
ReadStillHolds(h, k) ==
  LET r == handlers[h] IN
  /\ r.pc = "status" =>
       /\ ValidTransition(pieceStatus[k], r.to)
       /\ r.op = "submit" /\ r.to = "approved" => ~HasAiGeneratedSlide(k)
  /\ r.pc \in {"find", "slides", "template", "edit"} => IsEditable(pieceStatus[k])

AloneAt(k) ==
  /\ \A g, h \in On(k) : g = h
  /\ \A h \in On(k) : ReadStillHolds(h, k)
  /\ k \in everApproved => PastApproval(k)
  /\ k \in everApproved /\ HasAiGeneratedSlide(k) => k \in humanApproved

Alone == \A k \in Piece \ overlapped : AloneAt(k)

(* A step that leaves the status, the sources and the approvals of a piece *)
(* keeps it so, wherever the request of the step goes that is not a write. *)
LEMMA HarmlessStep ==
  ASSUME NEW k \in Piece, AloneAt(k), NEW h \in Handler,
         \A g \in Handler \ {h} : handlers'[g] = handlers[g],
         pieceStatus'[k] = pieceStatus[k], HasAiGeneratedSlide(k)' = HasAiGeneratedSlide(k),
         k \in everApproved' <=> k \in everApproved, humanApproved \subseteq humanApproved',
         h \in On(k)' =>
           /\ h \in On(k)
           /\ \/ handlers'[h].pc \notin {"status", "find", "slides", "template", "edit"}
              \/ /\ handlers[h].pc \in {"find", "slides"}
                 /\ handlers'[h].pc \in {"slides", "template"}
              \/ handlers'[h] = handlers[h]
  PROVE  AloneAt(k)'
<1>1. On(k)' \subseteq On(k)
  BY DEF On
<1>2. \A g \in On(k)' : ReadStillHolds(g, k)'
  <2> SUFFICES ASSUME NEW g \in Handler, g \in On(k)'
               PROVE  ReadStillHolds(g, k)'
    BY DEF On
  <2>1. ReadStillHolds(g, k)
    BY <1>1 DEF AloneAt
  <2>2. CASE handlers'[g] = handlers[g]
    BY <2>1, <2>2 DEF ReadStillHolds, ValidTransition, IsEditable
  <2>3. CASE g = h /\ handlers'[g] # handlers[g]
    BY <2>1, <2>3 DEF ReadStillHolds, ValidTransition, IsEditable
  <2> QED
    BY <2>2, <2>3
<1> QED
  BY <1>1, <1>2 DEF AloneAt, PastApproval

LEMMA BeginAlone ==
  ASSUME Sound, NEW h \in Handler, NEW j \in Piece, NEW request \in HandlerState,
         Begin(h, j, request), NEW k \in Piece, k \notin overlapped', AloneAt(k),
         k = j => ReadStillHolds(h, k)'
  PROVE  AloneAt(k)'
<1>1. /\ UNCHANGED <<pieceStatus, slides, approvals>>
      /\ handlers' = [handlers EXCEPT ![h] = [request EXCEPT !.piece = j]]
      /\ handlers[h].pc = "idle" /\ handlers \in [Handler -> HandlerState]
  BY DEF Begin, rowVars, layoutVars, Sound, TypeOK
<1>2. /\ \A g \in Handler \ {h} : handlers'[g] = handlers[g]
      /\ handlers'[h].piece = j
  BY <1>1 DEF HandlerState
<1>3. HasAiGeneratedSlide(k)' = HasAiGeneratedSlide(k)
  BY <1>1 DEF HasAiGeneratedSlide
<1>4. CASE k # j
  <2>1. h \notin On(k)'
    BY <1>2, <1>4 DEF On
  <2> QED
    BY <1>1, <1>2, <1>3, <2>1, HarmlessStep DEF approvals
<1>5. CASE k = j
  <2>1. On(k) = {}
    BY <1>5 DEF Begin
  <2>2. On(k)' = {h}
    BY <1>2, <1>5, <2>1 DEF On
  <2> QED
    BY <1>1, <1>3, <1>5, <2>2 DEF AloneAt, PastApproval, approvals
<1> QED
  BY <1>4, <1>5

LEMMA SameSources ==
  ASSUME NEW k \in Piece, SourcesOf(k)' = SourcesOf(k)
  PROVE  HasAiGeneratedSlide(k)' = HasAiGeneratedSlide(k)
<1>1. DOMAIN slides'[k] = DOMAIN slides[k]
  BY DEF SourcesOf
<1>2. \A i \in DOMAIN slides[k] : slides'[k][i].source = slides[k][i].source
  <2> TAKE i \in DOMAIN slides[k]
  <2>1. SourcesOf(k)[i] = slides[k][i].source
    BY DEF SourcesOf
  <2>2. SourcesOf(k)'[i] = slides'[k][i].source
    BY <1>1 DEF SourcesOf
  <2> QED
    BY <2>1, <2>2
<1> QED
  BY <1>1, <1>2 DEF HasAiGeneratedSlide

(* A picture put into a slide leaves every source alone.                   *)
LEMMA PictureKeepsSources ==
  ASSUME TypeOK, NEW j \in Piece, NEW i \in DOMAIN slides[j], NEW drawn,
         drawn.source = slides[j][i].source,
         slides' = [slides EXCEPT ![j] = [slides[j] EXCEPT ![i] = drawn]], NEW k \in Piece
  PROVE  SourcesOf(k)' = SourcesOf(k)
<1>1. slides[j] \in Seq(Slide) /\ slides \in [Piece -> Seq(Slide)]
  BY DEF TypeOK
<1>2. DOMAIN slides'[k] = DOMAIN slides[k]
  BY <1>1
<1>3. \A n \in DOMAIN slides[k] : slides'[k][n].source = slides[k][n].source
  BY <1>1
<1> QED
  BY <1>2, <1>3 DEF SourcesOf

LEMMA RenderWriteKeepsSources ==
  ASSUME Sound, NEW h \in Handler, RenderWrite(h), NEW k \in Piece
  PROVE  SourcesOf(k)' = SourcesOf(k)
<1> DEFINE r == handlers[h]
<1>1. CASE r.i \in DOMAIN r.seen
  <2>1. /\ r.piece \in Piece /\ slides[r.piece] \in Seq(Slide) /\ r.seen \in Seq(Picture)
        /\ Len(r.seen) <= Len(slides[r.piece])
    BY DEF RenderWrite, At, Sound, TypeOK, Carries, HandlerState
  <2>2. r.i \in DOMAIN slides[r.piece]
    BY <1>1, <2>1
  <2> DEFINE drawn == [slides[r.piece][r.i] EXCEPT !.rendered = r.seen[r.i]]
  <2>3. slides' = [slides EXCEPT ![r.piece] = [slides[r.piece] EXCEPT ![r.i] = drawn]]
    BY <1>1, <2>1, <2>2 DEF RenderWrite, Sound, TypeOK
  <2>4. slides[r.piece][r.i] \in Slide
    BY <2>1, <2>2
  <2>5. drawn.source = slides[r.piece][r.i].source
    BY <2>4 DEF Slide
  <2> HIDE DEF drawn
  <2> QED
    BY <2>1, <2>2, <2>3, <2>5, PictureKeepsSources DEF Sound
<1>2. CASE r.i \notin DOMAIN r.seen
  BY <1>2 DEF RenderWrite, SourcesOf
<1> QED
  BY <1>1, <1>2

LEMMA GeneratedImageKeepsSources ==
  ASSUME Sound, NEW j \in Piece, NEW i \in DOMAIN slides[j], GeneratedImageWrite(j, i),
         NEW k \in Piece
  PROVE  SourcesOf(k)' = SourcesOf(k)
<1> DEFINE drawn == [slides[j][i] EXCEPT !.bg = "generated"]
<1>1. slides[j] \in Seq(Slide) /\ slides[j][i] \in Slide
  BY DEF Sound, TypeOK
<1>2. drawn.source = slides[j][i].source
  BY <1>1 DEF Slide
<1>3. slides' = [slides EXCEPT ![j] = [slides[j] EXCEPT ![i] = drawn]]
  BY <1>1 DEF GeneratedImageWrite, Sound, TypeOK
<1> HIDE DEF drawn
<1> QED
  BY <1>2, <1>3, PictureKeepsSources DEF Sound

(* A new slide is nobody's picture.                                        *)
LEMMA AddSlidesAddsNoAi ==
  ASSUME Sound, NEW h \in Handler, AddSlides(h), NEW k \in Piece
  PROVE  HasAiGeneratedSlide(k)' = HasAiGeneratedSlide(k)
<1> DEFINE r == handlers[h]
           j == r.piece
           n == r.n - r.i
<1>1. /\ j \in Piece /\ n \in Nat /\ slides \in [Piece -> Seq(Slide)]
  <2>1. r.n \in Nat /\ r.i \in Nat /\ r.n > r.i /\ j \in Piece
    BY DEF AddSlides, At, Sound, TypeOK, Carries, HandlerState
  <2> QED
    BY <2>1 DEF Sound, TypeOK
<1>2. CASE UNCHANGED slides
  BY <1>2 DEF HasAiGeneratedSlide
<1>3. CASE slides' = [slides EXCEPT ![j] = slides[j] \o Blank(n)]
  <2>1. CASE k # j
    BY <1>1, <1>3, <2>1 DEF HasAiGeneratedSlide
  <2>2. CASE k = j
    <3> HIDE DEF n
    <3>1. /\ slides'[k] = slides[k] \o Blank(n) /\ slides[k] \in Seq(Slide)
          /\ Blank(n) \in Seq(Slide) /\ Len(Blank(n)) = n
      BY <1>1, <1>3, <2>2, BlankType
    <3>2. /\ DOMAIN slides[k] \subseteq DOMAIN slides'[k]
          /\ \A i \in DOMAIN slides[k] : slides'[k][i] = slides[k][i]
      BY <1>1, <3>1
    <3>3. ASSUME NEW i \in DOMAIN slides'[k], i \notin DOMAIN slides[k]
          PROVE  slides'[k][i].source = "own_library"
      <4>1. /\ i - Len(slides[k]) \in 1..n
            /\ slides'[k][i] = Blank(n)[i - Len(slides[k])]
        BY <1>1, <3>1, <3>3
      <4>2. slides'[k][i] = BlankSlide
        BY <4>1 DEF Blank
      <4> QED
        BY <4>2 DEF BlankSlide
    <3> QED
      BY <3>2, <3>3 DEF HasAiGeneratedSlide
  <2> QED
    BY <2>1, <2>2
<1> QED
  BY <1>2, <1>3 DEF AddSlides

-----------------------------------------------------------------------------
(* Nothing follows an approval but what the publications write, so no      *)
(* request that read a piece alone is about to move or edit it then.       *)
LEMMA NobodyWritesPastApproval ==
  ASSUME Sound, NEW k \in Piece, AloneAt(k), k \in everApproved, NEW h \in Handler, h \in On(k)
  PROVE  handlers[h].pc \notin {"status", "find", "slides", "template", "edit"}
<1>1. PastApproval(k) /\ ReadStillHolds(h, k) /\ Carries(h)
  BY DEF AloneAt, Sound
<1>2. handlers[h].pc # "status"
  BY <1>1
    DEF ReadStillHolds, Carries, PastApproval, ValidTransition,
        VALID_TRANSITIONS
<1>3. handlers[h].pc \notin {"find", "slides", "template", "edit"}
  BY <1>1 DEF ReadStillHolds, PastApproval, IsEditable, EDITABLE_STATUSES
<1> QED
  BY <1>2, <1>3

LEMMA StatusWriteAlone ==
  ASSUME Sound, NEW h \in Handler, StatusWrite(h), NEW k \in Piece, AloneAt(k)
  PROVE  AloneAt(k)'
<1> DEFINE r == handlers[h]
<1>1. /\ r.pc = "status" /\ r.piece \in Piece /\ r \in HandlerState
      /\ r.op \in {"submit", "decide"} /\ r.to \in {"pending_approval", "approved", "rejected"}
      /\ handlers \in [Handler -> HandlerState] /\ pieceStatus \in [Piece -> ContentPieceStatus]
      /\ everApproved \subseteq Piece
  BY DEF StatusWrite, Sound, TypeOK, Carries
<1>2. /\ pieceStatus' = [pieceStatus EXCEPT ![r.piece] = r.to]
      /\ everApproved' = IF r.to = "approved" THEN everApproved \cup {r.piece} ELSE everApproved
      /\ humanApproved' = IF r.to = "approved" /\ r.op = "decide"
                            THEN humanApproved \cup {r.piece} ELSE humanApproved
      /\ handlers' = [handlers EXCEPT ![h].pc = AfterStatus(r.op, r.to)] \/ Reply(h)
      /\ slides' = slides
  BY DEF StatusWrite, Goto
<1>3. HasAiGeneratedSlide(k)' = HasAiGeneratedSlide(k)
  BY <1>2 DEF HasAiGeneratedSlide
<1>4. /\ \A g \in Handler \ {h} : handlers'[g] = handlers[g]
      /\ handlers'[h].piece \in {r.piece, None}
      /\ handlers'[h].pc \in {"audit", "notify", "idle"}
  BY <1>1, <1>2 DEF AfterStatus, HandlerState, Reply, Idle
<1>5. CASE k # r.piece
  <2>1. h \notin On(k)'
    BY <1>4, <1>5, ContentPiecesAssumption DEF On
  <2> QED
    BY <1>1, <1>2, <1>3, <1>4, <1>5, <2>1, HarmlessStep
<1>6. CASE k = r.piece
  <2>1. h \in On(k) /\ On(k) = {h} /\ On(k)' \subseteq {h}
    BY <1>4, <1>6 DEF On, AloneAt
  <2>2. k \notin everApproved
    BY <1>1, <2>1, NobodyWritesPastApproval
  <2>3. ReadStillHolds(h, k)'
    BY <1>4 DEF ReadStillHolds
  <2>4. r.op = "submit" /\ r.to = "approved" => ~HasAiGeneratedSlide(k)
    BY <1>1, <2>1 DEF AloneAt, ReadStillHolds
  <2>5. k \in everApproved' => r.to = "approved" /\ pieceStatus'[k] = "approved"
    BY <1>1, <1>2, <1>6, <2>2
  <2>6. k \in everApproved' /\ HasAiGeneratedSlide(k)' => k \in humanApproved'
    BY <1>1, <1>2, <1>3, <1>6, <2>4, <2>5
  <2> QED
    BY <2>1, <2>3, <2>5, <2>6 DEF AloneAt, PastApproval
<1> QED
  BY <1>5, <1>6

LEMMA EditWriteAlone ==
  ASSUME Sound, NEW h \in Handler, EditWrite(h), NEW k \in Piece, AloneAt(k)
  PROVE  AloneAt(k)'
<1> DEFINE r == handlers[h]
<1>1. /\ r.pc = "edit" /\ r.piece \in Piece /\ Reply(h)
      /\ UNCHANGED <<pieceStatus, approvals>>
      /\ handlers \in [Handler -> HandlerState] /\ r \in HandlerState
  BY DEF EditWrite, At, Sound, TypeOK, Carries
<1>2. /\ \A g \in Handler \ {h} : handlers'[g] = handlers[g]
      /\ handlers'[h].piece = None /\ handlers'[h].pc = "idle"
  BY <1>1 DEF Reply, Idle
<1>3. CASE k # r.piece
  <2>1. slides'[k] = slides[k]
    BY <1>1, <1>3 DEF EditWrite, Sound, TypeOK
  <2>2. HasAiGeneratedSlide(k)' = HasAiGeneratedSlide(k)
    BY <2>1 DEF HasAiGeneratedSlide
  <2> QED
    BY <1>1, <1>2, <1>3, <2>2, HarmlessStep, ContentPiecesAssumption
      DEF approvals, On
<1>4. CASE k = r.piece
  <2>1. h \in On(k) /\ On(k) = {h} /\ On(k)' = {}
    BY <1>2, <1>4, ContentPiecesAssumption DEF On, AloneAt
  <2>2. k \notin everApproved
    BY <1>1, <2>1, NobodyWritesPastApproval
  <2> QED
    BY <1>1, <2>1, <2>2 DEF AloneAt, approvals
<1> QED
  BY <1>3, <1>4

LEMMA RequestAlone ==
  ASSUME Sound, NEW h \in Handler, NEW j \in Piece, Request(h, j),
         NEW k \in Piece, k \notin overlapped', AloneAt(k)
  PROVE  AloneAt(k)'
<1>1. /\ handlers \in [Handler -> HandlerState] /\ slides[j] \in Seq(Slide)
      /\ Len(slides[j]) \in Nat
  BY DEF Sound, TypeOK
<1>2. ASSUME NEW auto \in BOOLEAN, SubmitRead(h, j, auto)
      PROVE  AloneAt(k)'
  <2> DEFINE target == ResolveSubmissionTarget(HasAiGeneratedSlide(j), auto)
  <2>1. target \in ContentPieceStatus /\ (target = "approved" => ~HasAiGeneratedSlide(j))
    BY DEF ResolveSubmissionTarget, ContentPieceStatus
  <2>2. ToStatus("submit", target) \in HandlerState
    BY <2>1, ToStatusType
  <2>3. /\ Begin(h, j, ToStatus("submit", target)) /\ ValidTransition(pieceStatus[j], target)
        /\ UNCHANGED <<slides, pieceStatus>>
    BY <1>2 DEF SubmitRead, Begin, rowVars, layoutVars
  <2>4. k = j => ReadStillHolds(h, k)'
    <3> HIDE DEF target
    <3>1. handlers'[h].to = target /\ handlers'[h].pc = "status"
      BY <1>1, <2>3 DEF Begin, ToStatus, Idle
    <3> QED
      BY <2>1, <2>3, <3>1
        DEF ReadStillHolds, HasAiGeneratedSlide, ValidTransition
  <2> QED
    BY <2>2, <2>3, <2>4, BeginAlone
<1>3. ASSUME NEW s \in {"approved", "rejected"}, DecideRead(h, j, s)
      PROVE  AloneAt(k)'
  <2>1. ToStatus("decide", s) \in HandlerState
    BY ToStatusType DEF ContentPieceStatus
  <2>2. /\ Begin(h, j, ToStatus("decide", s)) /\ ValidTransition(pieceStatus[j], s)
        /\ UNCHANGED <<slides, pieceStatus>>
    BY <1>3 DEF DecideRead, Begin, rowVars, layoutVars
  <2>3. k = j => ReadStillHolds(h, k)'
    <3>1. handlers'[h].to = s /\ handlers'[h].pc = "status" /\ handlers'[h].op = "decide"
      BY <1>1, <2>2 DEF Begin, ToStatus, Idle
    <3> QED
      BY <2>2, <3>1 DEF ReadStillHolds, ValidTransition
  <2> QED
    BY <2>1, <2>2, <2>3, BeginAlone
<1>4. ASSUME NEW t \in Template, TemplateRead(h, j, t)
      PROVE  AloneAt(k)'
  <2> DEFINE request == [Idle EXCEPT !.op = "template", !.pc = "find", !.to = t,
                                     !.i = Len(slides[j])]
  <2>1. request \in HandlerState
    BY <1>1, IdleType DEF HandlerState
  <2>2. /\ Begin(h, j, request) /\ IsEditable(pieceStatus[j]) /\ UNCHANGED pieceStatus
    BY <1>4 DEF TemplateRead, Begin, rowVars, layoutVars
  <2>3. k = j => ReadStillHolds(h, k)'
    <3>1. handlers'[h].pc = "find"
      BY <1>1, <2>2 DEF Begin, Idle
    <3> QED
      BY <2>2, <3>1 DEF ReadStillHolds, IsEditable
  <2> QED
    BY <2>1, <2>2, <2>3, BeginAlone
<1>5. ASSUME NEW i \in DOMAIN slides[j], NEW e \in Edits, EditRead(h, j, i, e)
      PROVE  AloneAt(k)'
  <2> DEFINE request == [Idle EXCEPT !.op = "edit", !.pc = "edit", !.edit = e, !.i = i]
  <2>1. request \in HandlerState
    <3>1. i \in Nat
      BY <1>1
    <3> QED
      BY <3>1, IdleType DEF HandlerState
  <2>2. /\ Begin(h, j, request) /\ IsEditable(pieceStatus[j]) /\ UNCHANGED pieceStatus
    BY <1>5 DEF EditRead, Begin, rowVars, layoutVars
  <2>3. k = j => ReadStillHolds(h, k)'
    <3>1. handlers'[h].pc = "edit"
      BY <1>1, <2>2 DEF Begin, Idle
    <3> QED
      BY <2>2, <3>1 DEF ReadStillHolds, IsEditable
  <2> QED
    BY <2>1, <2>2, <2>3, BeginAlone
<1>6. ASSUME RenderRead(h, j)
      PROVE  AloneAt(k)'
  <2> DEFINE request == [Idle EXCEPT !.op = "render", !.pc = "render",
                                     !.seen = Backgrounds(j), !.i = 1]
  <2>1. request \in HandlerState
    BY <1>1, BackgroundsType, IdleType DEF HandlerState
  <2>2. Begin(h, j, request)
    BY <1>6 DEF RenderRead
  <2>3. ReadStillHolds(h, k)'
    <3>1. handlers'[h].pc = "render"
      BY <1>1, <2>2 DEF Begin, Idle
    <3> QED
      BY <3>1 DEF ReadStillHolds
  <2> QED
    BY <2>1, <2>2, <2>3, BeginAlone
<1> QED
  BY <1>2, <1>3, <1>4, <1>5, <1>6 DEF Request

LEMMA MiddleStepAlone ==
  ASSUME Sound, NEW h \in Handler, NEW k \in Piece, AloneAt(k),
         \/ Audit(h) \/ Notify(h) \/ WriteReason(h) \/ TemplateFind(h)
         \/ AddSlides(h) \/ TemplateWrite(h) \/ RenderWrite(h) \/ HandlerFails(h)
  PROVE  AloneAt(k)'
<1> DEFINE r == handlers[h]
<1>1. /\ handlers \in [Handler -> HandlerState] /\ r \in HandlerState
      /\ None \notin Piece
  BY DEF Sound, TypeOK
<1>2. UNCHANGED <<pieceStatus, approvals>>
  BY
    DEF Audit, Notify, WriteReason, TemplateFind, AddSlides, TemplateWrite,
        RenderWrite,
         HandlerFails, rowVars, layoutVars, approvals
<1>3. HasAiGeneratedSlide(k)' = HasAiGeneratedSlide(k)
  <2>1. CASE AddSlides(h)
    BY <2>1, AddSlidesAddsNoAi
  <2>2. CASE RenderWrite(h)
    BY <2>2, RenderWriteKeepsSources, SameSources
  <2>3. CASE ~AddSlides(h) /\ ~RenderWrite(h)
    BY <2>3
      DEF Audit, Notify, WriteReason, TemplateFind, TemplateWrite,
          HandlerFails, rowVars, layoutVars,
                HasAiGeneratedSlide
  <2> QED
    BY <2>1, <2>2, <2>3
<1>4. \A g \in Handler \ {h} : handlers'[g] = handlers[g]
  BY <1>1
    DEF Audit, Notify, WriteReason, TemplateFind, AddSlides, TemplateWrite,
        RenderWrite, HandlerFails, Goto, Reply
<1>5. h \in On(k)' =>
        /\ h \in On(k)
        /\ \/ handlers'[h].pc \notin {"status", "find", "slides", "template", "edit"}
           \/ r.pc \in {"find", "slides"} /\ handlers'[h].pc \in {"slides", "template"}
  <2>1. CASE Reply(h)
    BY <1>1, <2>1 DEF Reply, Idle, On
  <2>2. CASE Goto(h, "notify") \/ Goto(h, "reason")
    BY <1>1, <2>2 DEF Goto, HandlerState, On
  <2>3. CASE Goto(h, "template") /\ r.pc = "slides"
    BY <1>1, <2>3 DEF Goto, HandlerState, On
  <2>4. CASE handlers' = [handlers EXCEPT ![h].i = @ + 1] /\ r.pc = "render"
    BY <1>1, <2>4 DEF HandlerState, On
  <2>5. CASE TemplateFind(h) /\ ~Reply(h)
    BY <1>1, <2>5 DEF TemplateFind, At, HandlerState, On
  <2> QED
    BY <2>1, <2>2, <2>3, <2>4, <2>5 DEF Audit, Notify, WriteReason, AddSlides,
       TemplateWrite, RenderWrite, HandlerFails, At
<1> QED
  BY <1>2, <1>3, <1>4, <1>5, HarmlessStep DEF approvals

LEMMA OutsideStepAlone ==
  ASSUME Sound, NEW k \in Piece, AloneAt(k),
         \/ Crash
         \/ \E j \in Piece : \E i \in DOMAIN slides[j] : GeneratedImageWrite(j, i)
         \/ \E j \in Piece, s \in {"scheduled", "published"} : PublicationWrite(j, s)
         \/ \E t \in Template : \E layout \in Layouts[t] : UpdateTemplate(t, layout)
         \/ UNCHANGED vars
  PROVE  AloneAt(k)'
<1>1. CASE Crash
  <2>1. On(k)' = {}
    BY <1>1 DEF Crash, On, Idle
  <2> QED
    BY <1>1, <2>1
      DEF Crash, AloneAt, PastApproval, rowVars, layoutVars, approvals, HasAiGeneratedSlide
<1>2. ASSUME NEW j \in Piece, NEW i \in DOMAIN slides[j], GeneratedImageWrite(j, i)
      PROVE  AloneAt(k)'
  <2>1. HasAiGeneratedSlide(k)' = HasAiGeneratedSlide(k)
    BY <1>2, GeneratedImageKeepsSources, SameSources
  <2>2. UNCHANGED <<pieceStatus, handlers, approvals>>
    BY <1>2 DEF GeneratedImageWrite
  <2> QED
    BY <2>1, <2>2 DEF AloneAt, PastApproval, On, ReadStillHolds, approvals
<1>3. ASSUME NEW j \in Piece, NEW s \in {"scheduled", "published"}, PublicationWrite(j, s)
      PROVE  AloneAt(k)'
  <2>1. /\ pieceStatus' = [pieceStatus EXCEPT ![j] = s] /\ j \in everApproved
        /\ UNCHANGED <<slides, handlers, approvals>> /\ pieceStatus \in [Piece -> ContentPieceStatus]
    BY <1>3 DEF PublicationWrite, Sound, TypeOK
  <2>2. CASE k # j
    BY <2>1, <2>2
      DEF AloneAt, PastApproval, On, ReadStillHolds, approvals, HasAiGeneratedSlide
  <2>3. CASE k = j
    <3>1. \A h \in On(k) :
            handlers[h].pc \notin {"status", "find", "slides", "template", "edit"}
      BY <2>1, <2>3, NobodyWritesPastApproval DEF On
    <3> QED
      BY <2>1, <2>3, <3>1
        DEF AloneAt, On, ReadStillHolds, approvals, HasAiGeneratedSlide,
                              PastApproval
  <2> QED
    BY <2>2, <2>3
<1>4. CASE UNCHANGED vars
  BY <1>4
    DEF vars, AloneAt, On, ReadStillHolds, approvals, HasAiGeneratedSlide,
        PastApproval
<1>5. CASE \E t \in Template : \E layout \in Layouts[t] : UpdateTemplate(t, layout)
  BY <1>5
    DEF UpdateTemplate, AloneAt, On, ReadStillHolds, approvals,
        HasAiGeneratedSlide,
              PastApproval
<1> QED
  BY <1>1, <1>2, <1>3, <1>4, <1>5

LEMMA StepAlone ==
  ASSUME Sound, Alone, [Next]_vars
  PROVE  Alone' /\ overlapped \subseteq overlapped'
<1>1. overlapped \subseteq overlapped'
  BY
    DEF Next, ContentNext, HandlerStep, Request, SubmitRead, DecideRead,
        TemplateRead, EditRead,
         RenderRead, Begin, StatusWrite, Audit, Notify, WriteReason, TemplateFind, AddSlides,
         TemplateWrite, EditWrite, RenderWrite, HandlerFails, Crash, GeneratedImageWrite,
         PublicationWrite, UpdateTemplate, vars
<1>2. ASSUME NEW k \in Piece, k \notin overlapped'
      PROVE  AloneAt(k)'
  <2>1. AloneAt(k)
    BY <1>1, <1>2 DEF Alone
  <2> QED
    BY <1>2, <2>1, StatusWriteAlone, EditWriteAlone, RequestAlone,
       MiddleStepAlone, OutsideStepAlone
       DEF Next, ContentNext, HandlerStep
<1> QED
  BY <1>1, <1>2 DEF Alone

THEOREM AloneIsKept == Spec => []Alone
<1>1. Init => Alone
  BY ContentPiecesAssumption DEF Init, Alone, AloneAt, On, Idle
<1>2. Sound /\ Alone /\ [Next]_vars => Alone'
  BY StepAlone
<1> QED
  BY <1>1, <1>2, ContentIsSound, PTL DEF Spec

(* An AI slide waits for a human, of a piece no two requests ever worked   *)
(* on at once: the submission read its sources, and they have not changed. *)
THEOREM AiSlideNeedsHuman == Spec => []AloneAiNeedsHuman
<1>1. Sound /\ Alone => AloneAiNeedsHuman
  BY DEF Sound, TypeOK, Alone, AloneAt, AloneAiNeedsHuman
<1> QED
  BY <1>1, ContentIsSound, AloneIsKept, PTL

(* The status of such a piece only moves along the table, and schedule and *)
(* the worker move none that was not approved before.                      *)
THEOREM StatusMovesAlongTable == Spec => AloneMovesAlongTable
<1>1. ASSUME Sound, Alone, [Next]_vars, NEW k \in Piece \ overlapped
      PROVE  \/ pieceStatus'[k] = pieceStatus[k]
             \/ ValidTransition(pieceStatus[k], pieceStatus'[k])
             \/ PastApproval(k) /\ pieceStatus'[k] \in {"scheduled", "published"}
  <2>1. ASSUME NEW h \in Handler, StatusWrite(h)
        PROVE  pieceStatus'[k] = pieceStatus[k] \/ ValidTransition(pieceStatus[k], pieceStatus'[k])
    <3>1. /\ handlers[h].pc = "status"
          /\ pieceStatus' = [pieceStatus EXCEPT ![handlers[h].piece] = handlers[h].to]
          /\ pieceStatus \in [Piece -> ContentPieceStatus]
      BY <1>1, <2>1 DEF StatusWrite, Sound, TypeOK
    <3>2. CASE k # handlers[h].piece
      BY <3>1, <3>2
    <3>3. CASE k = handlers[h].piece
      <4>1. ReadStillHolds(h, k)
        BY <1>1, <3>3 DEF Alone, AloneAt, On
      <4> QED
        BY <3>1, <3>3, <4>1 DEF ReadStillHolds
    <3> QED
      BY <3>2, <3>3
  <2>2. ASSUME NEW j \in Piece, NEW s \in {"scheduled", "published"}, PublicationWrite(j, s)
        PROVE  \/ pieceStatus'[k] = pieceStatus[k]
               \/ PastApproval(k) /\ pieceStatus'[k] \in {"scheduled", "published"}
    <3>1. /\ pieceStatus' = [pieceStatus EXCEPT ![j] = s] /\ j \in everApproved
          /\ pieceStatus \in [Piece -> ContentPieceStatus]
      BY <1>1, <2>2 DEF PublicationWrite, Sound, TypeOK
    <3>2. CASE k # j
      BY <3>1, <3>2
    <3>3. CASE k = j
      BY <1>1, <3>1, <3>3 DEF Alone, AloneAt
    <3> QED
      BY <3>2, <3>3
  <2>3. \/ \E h \in Handler : StatusWrite(h)
        \/ \E j \in Piece, s \in {"scheduled", "published"} : PublicationWrite(j, s)
        \/ UNCHANGED pieceStatus
    BY <1>1
      DEF Next, ContentNext, HandlerStep, Request, SubmitRead, DecideRead,
          TemplateRead, EditRead, RenderRead, Begin, Audit, Notify, WriteReason,
          TemplateFind, AddSlides, TemplateWrite, EditWrite, RenderWrite,
          HandlerFails, Crash, GeneratedImageWrite, UpdateTemplate, vars, rowVars,
          layoutVars
  <2> QED
    BY <2>1, <2>2, <2>3
<1>2. Sound /\ Alone /\ [Next]_vars
        => [\A k \in Piece \ overlapped :
              \/ pieceStatus'[k] = pieceStatus[k]
              \/ ValidTransition(pieceStatus[k], pieceStatus'[k])
              \/ PastApproval(k) /\ pieceStatus'[k] \in {"scheduled", "published"}]_vars
  BY <1>1
<1> QED
  BY <1>2, ContentIsSound, AloneIsKept, PTL DEF Spec, AloneMovesAlongTable

(* Past the last editable status, its sources and its template stay.       *)
THEOREM FrozenOnceSubmitted == Spec => AloneFrozenOnceSubmitted
<1>1. ASSUME Sound, Alone, [Next]_vars, NEW k \in Piece \ overlapped, ~IsEditable(pieceStatus[k])
      PROVE  SourcesOf(k)' = SourcesOf(k) /\ template'[k] = template[k]
  <2>1. ASSUME NEW h \in Handler, AddSlides(h) \/ EditWrite(h) \/ TemplateWrite(h)
        PROVE  SourcesOf(k)' = SourcesOf(k) /\ template'[k] = template[k]
    <3>1. handlers[h].pc \in {"slides", "template", "edit"}
      BY <2>1 DEF AddSlides, EditWrite, TemplateWrite, At
    <3>2. k # handlers[h].piece
      BY <1>1, <3>1 DEF Alone, AloneAt, On, ReadStillHolds
    <3>3. slides'[k] = slides[k] /\ template'[k] = template[k]
      BY <1>1, <2>1, <3>2
         DEF AddSlides, EditWrite, TemplateWrite, Sound, TypeOK, layoutVars
    <3> QED
      BY <3>3 DEF SourcesOf
  <2>2. ASSUME NEW h \in Handler, RenderWrite(h)
        PROVE  SourcesOf(k)' = SourcesOf(k) /\ template'[k] = template[k]
    BY <1>1, <2>2, RenderWriteKeepsSources DEF RenderWrite, layoutVars
  <2>3. ASSUME NEW j \in Piece, NEW i \in DOMAIN slides[j], GeneratedImageWrite(j, i)
        PROVE  SourcesOf(k)' = SourcesOf(k) /\ template'[k] = template[k]
    BY <1>1, <2>3, GeneratedImageKeepsSources DEF GeneratedImageWrite, layoutVars
  <2>4. CASE UNCHANGED <<slides, template>>
    BY <2>4 DEF SourcesOf
  <2>5. \/ \E h \in Handler : AddSlides(h) \/ EditWrite(h) \/ TemplateWrite(h) \/ RenderWrite(h)
        \/ \E j \in Piece : \E i \in DOMAIN slides[j] : GeneratedImageWrite(j, i)
        \/ UNCHANGED <<slides, template>>
    BY <1>1
      DEF Next, ContentNext, HandlerStep, Request, SubmitRead, DecideRead,
          TemplateRead,
          EditRead, RenderRead, Begin, StatusWrite, Audit, Notify, WriteReason,
          TemplateFind, HandlerFails, Crash, PublicationWrite, UpdateTemplate, vars,
          rowVars, layoutVars
  <2> QED
    BY <2>1, <2>2, <2>3, <2>4, <2>5
<1>2. Sound /\ Alone /\ [Next]_vars
        => [\A k \in Piece \ overlapped :
              ~IsEditable(pieceStatus[k])
                => SourcesOf(k)' = SourcesOf(k) /\ template'[k] = template[k]]_vars
  <2> SUFFICES ASSUME Sound, Alone, [Next]_vars
               PROVE  \A k \in Piece \ overlapped :
                        ~IsEditable(pieceStatus[k])
                          => SourcesOf(k)' = SourcesOf(k) /\ template'[k] = template[k]
    OBVIOUS
  <2> QED
    BY <1>1
<1> QED
  BY <1>2, ContentIsSound, AloneIsKept, PTL DEF Spec, AloneFrozenOnceSubmitted
=============================================================================
