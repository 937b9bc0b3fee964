---------------------------- MODULE ContentPieces ----------------------------
(***************************************************************************)
(* Content pieces (apps/api/src/content-pieces): editing, rendering,       *)
(* submission and approval.  Every handler of ContentPiecesService reads   *)
(* the piece, decides on what it read, and writes one or more awaits later *)
(* without looking again; requests of users and of the autopilot workflow  *)
(* interleave at those awaits.                                             *)
(*                                                                         *)
(* Every piece exists from the start, as create() makes it.  Of a picture  *)
(* only its kind is kept: none, plain (uploaded or from a stock bank) or   *)
(* generated by a model.                                                   *)
(***************************************************************************)
EXTENDS ContentStates, Integers, Sequences, FiniteSetsExt

CONSTANTS
  Piece,
  Template,
  Layouts,          \* the slotMaps a template may have: the slideIndexes of its
                    \* zones; a template of the system has one for ever
  Edits,            \* the bodies that PUT and POST .../slides/:slideId are sent
  Handler,          \* request slots: at most so many requests at once
  None,
  WebhookConfigured,    \* whether N8N_API_URL and N8N_WEBHOOK_SECRET are set
  MaxMishaps        \* bound on failed calls, lost webhooks and crashes

ImageSource == {"own_library", "stock_bank", "ai_generated"}
Picture == {"none", "plain", "generated"}
Keep == "keep"      \* a field that the body of a request leaves out

AllLayouts == UNION {Layouts[t] : t \in Template}

ASSUME ContentPiecesAssumption ==
  /\ None \notin Piece
  /\ Layouts \in [Template -> SUBSET SUBSET Nat]
  /\ \A l \in AllLayouts : l = {} \/ \E m \in l : \A z \in l : z <= m
  /\ Edits \subseteq [source : ImageSource \cup {Keep}, bg : Picture \cup {Keep}]
  /\ WebhookConfigured \in BOOLEAN
  /\ MaxMishaps \in Nat

VARIABLES
  pieceStatus,      \* content_pieces.status
  zones,            \* template_assets.slot_map
  template,         \* content_pieces.template_id
  slides,           \* content_slides of a piece, by slide_order
  handlers,         \* where each request stands
  notified,         \* pieces the scheduling workflow was told of
  everApproved,     \* history: pieces that were ever approved
  humanApproved,    \* history: of those, the ones a human approved
  overlapped,       \* history: pieces two requests worked on at once
  outgrown,         \* history: pieces whose template was edited to need more
                    \*          slides, since they were given it or while
  mishaps           \* history: faults so far

vars == <<pieceStatus, zones, template, slides, handlers, notified, everApproved,
          humanApproved, overlapped, outgrown, mishaps>>
layoutVars == <<zones, template, outgrown>>
rowVars == <<pieceStatus, slides, layoutVars>>
approvals == <<everApproved, humanApproved>>

-----------------------------------------------------------------------------
Slide == [source : ImageSource, bg : Picture, rendered : Picture]
BlankSlide == [source |-> "own_library", bg |-> "none", rendered |-> "none"]
Blank(n) == [i \in 1..n |-> BlankSlide]

(* One more than the largest slideIndex; one for a template without zones. *)
SlideCount(layout) == IF layout = {} THEN 1 ELSE Max(layout) + 1

HasAiGeneratedSlide(k) ==
  \E i \in DOMAIN slides[k] : slides[k][i].source = "ai_generated"
Backgrounds(k) == [i \in DOMAIN slides[k] |-> slides[k][i].bg]

(* A request: the status or template it is to write, or its edit; the      *)
(* backgrounds it read if it renders; a slide or the number of slides it   *)
(* read; the number of slides it wants.                                    *)
Idle == [op |-> "none", pc |-> "idle", piece |-> None, to |-> None, edit |-> None,
         seen |-> <<>>, i |-> 0, n |-> 0]
HandlerState ==
  [op : {"none", "submit", "decide", "template", "edit", "render"},
   pc : {"idle", "status", "audit", "notify", "reason", "find", "slides", "template",
         "edit", "render"},
   piece : Piece \cup {None}, to : ContentPieceStatus \cup Template \cup {None},
   edit : Edits \cup {None}, seen : Seq(Picture), i : Nat, n : Nat]

Init ==
  /\ pieceStatus = [k \in Piece |-> "draft"]
  /\ zones \in [Template -> AllLayouts] /\ \A t \in Template : zones[t] \in Layouts[t]
  /\ template \in [Piece -> Template]
  /\ slides = [k \in Piece |-> Blank(SlideCount(zones[template[k]]))]
  /\ handlers = [h \in Handler |-> Idle]
  /\ notified = {} /\ everApproved = {} /\ humanApproved = {}
  /\ overlapped = {} /\ outgrown = {} /\ mishaps = 0

-----------------------------------------------------------------------------
At(h, op, pc) == handlers[h].op = op /\ handlers[h].pc = pc
On(k) == {h \in Handler : handlers[h].piece = k}
Goto(h, pc) == handlers' = [handlers EXCEPT ![h].pc = pc]
Reply(h) == handlers' = [handlers EXCEPT ![h] = Idle]

(* A request whose first read of piece k let it go on.                     *)
Begin(h, k, request) ==
  /\ handlers[h].pc = "idle"
  /\ handlers' = [handlers EXCEPT ![h] = [request EXCEPT !.piece = k]]
  /\ overlapped' = IF On(k) = {} THEN overlapped ELSE overlapped \cup {k}
  /\ UNCHANGED <<rowVars, notified, approvals, mishaps>>

ToStatus(op, target) == [Idle EXCEPT !.op = op, !.pc = "status", !.to = target]

(* submitForApproval: looking at autoApprove alone, sending an approved     *)
(* piece straight to scheduled, and as it is.                              *)
SubmitReadTrusting(h, k, autoApprove) ==
  LET target == ResolveSubmissionTarget(FALSE, autoApprove) IN
  /\ ValidTransition(pieceStatus[k], target)
  /\ Begin(h, k, ToStatus("submit", target))
SubmitReadSkipping(h, k, autoApprove) ==
  LET target == ResolveSubmissionTarget(HasAiGeneratedSlide(k), autoApprove) IN
  /\ ValidTransition(pieceStatus[k], target)
  /\ Begin(h, k, ToStatus("submit", IF target = "approved" THEN "scheduled" ELSE target))
SubmitRead(h, k, autoApprove) ==
  LET target == ResolveSubmissionTarget(HasAiGeneratedSlide(k), autoApprove) IN
  /\ ValidTransition(pieceStatus[k], target)
  /\ Begin(h, k, ToStatus("submit", target))

(* approve and reject, through transitionTo; the first form checks nothing.*)
DecideReadUnchecked(h, k, target) == Begin(h, k, ToStatus("decide", target))
DecideRead(h, k, target) ==
  /\ ValidTransition(pieceStatus[k], target)
  /\ Begin(h, k, ToStatus("decide", target))

(* Where a request goes once its status is written: with the notification  *)
(* left to the human path, and as it is.                                   *)
AfterStatusHumanOnly(op, target) == IF op = "decide" THEN "audit" ELSE "idle"
AfterStatus(op, target) ==
  IF op = "decide" THEN "audit" ELSE IF target = "approved" THEN "notify" ELSE "idle"

StatusWrite(h) ==
  LET k == handlers[h].piece  target == handlers[h].to IN
  /\ handlers[h].pc = "status"
  /\ pieceStatus' = [pieceStatus EXCEPT ![k] = target]
  /\ everApproved' = IF target = "approved" THEN everApproved \cup {k} ELSE everApproved
  /\ humanApproved' = IF target = "approved" /\ handlers[h].op = "decide"
                        THEN humanApproved \cup {k} ELSE humanApproved
  /\ LET pc == AfterStatus(handlers[h].op, target) IN
       IF pc = "idle" THEN Reply(h) ELSE Goto(h, pc)
  /\ UNCHANGED <<slides, layoutVars, notified, overlapped, mishaps>>

(* auditLog.record; reject then writes the reason.  A request is over with *)
(* its last write.                                                         *)
Audit(h) ==
  /\ handlers[h].pc = "audit"
  /\ Goto(h, IF handlers[h].to = "approved" THEN "notify" ELSE "reason")
  /\ UNCHANGED <<rowVars, notified, approvals, overlapped, mishaps>>

(* The workflow takes the webhook, where it is configured.                 *)
Notify(h) ==
  /\ handlers[h].pc = "notify"
  /\ notified' = IF WebhookConfigured THEN notified \cup {handlers[h].piece} ELSE notified
  /\ Reply(h)
  /\ UNCHANGED <<rowVars, approvals, overlapped, mishaps>>

WriteReason(h) ==
  /\ handlers[h].pc = "reason"
  /\ Reply(h)
  /\ UNCHANGED <<rowVars, notified, approvals, overlapped, mishaps>>

-----------------------------------------------------------------------------
(* updateTemplate of a piece: slides are added, never removed;             *)
(* assertEditable ran on the status read.                                  *)
TemplateRead(h, k, t) ==
  /\ IsEditable(pieceStatus[k])
  /\ Begin(h, k, [Idle EXCEPT !.op = "template", !.pc = "find", !.to = t,
                              !.i = Len(slides[k])])

(* The template, as it is then; or it was removed in the meantime.         *)
TemplateFind(h) ==
  LET count == SlideCount(zones[handlers[h].to]) IN
  /\ At(h, "template", "find")
  /\ \/ handlers' = [handlers EXCEPT ![h].n = count,
          ![h].pc = IF count > handlers[h].i THEN "slides" ELSE "template"]
     \/ Reply(h)
  /\ UNCHANGED <<rowVars, notified, approvals, overlapped, mishaps>>

(* createMany is one statement: a slide_order that another request took    *)
(* meanwhile fails all of it, and the request.  The first form goes on to  *)
(* the template after such a conflict.                                     *)
AddSlidesIgnoringConflict(h) ==
  LET k == handlers[h].piece  read == handlers[h].i IN
  /\ At(h, "template", "slides")
  /\ slides' = IF Len(slides[k]) # read THEN slides
               ELSE [slides EXCEPT ![k] = @ \o Blank(handlers[h].n - read)]
  /\ Goto(h, "template")
  /\ UNCHANGED <<pieceStatus, layoutVars, notified, approvals, overlapped, mishaps>>
AddSlides(h) ==
  LET k == handlers[h].piece  read == handlers[h].i IN
  /\ At(h, "template", "slides")
  /\ IF Len(slides[k]) = read
       THEN /\ slides' = [slides EXCEPT ![k] = @ \o Blank(handlers[h].n - read)]
            /\ Goto(h, "template")
       ELSE Reply(h) /\ UNCHANGED slides
  /\ UNCHANGED <<pieceStatus, layoutVars, notified, approvals, overlapped, mishaps>>

TemplateWrite(h) ==
  LET k == handlers[h].piece  t == handlers[h].to IN
  /\ At(h, "template", "template")
  /\ template' = [template EXCEPT ![k] = t]
  /\ outgrown' = IF SlideCount(zones[t]) > handlers[h].n THEN outgrown \cup {k}
                 ELSE outgrown \ {k}
  /\ Reply(h)
  /\ UNCHANGED <<pieceStatus, zones, slides, notified, approvals, overlapped, mishaps>>

(* updateSlide and uploadSlideImage; the first form does not ask whether   *)
(* the piece may be edited.                                                *)
EditReadAnyStatus(h, k, i, e) ==
  /\ i \in DOMAIN slides[k]
  /\ Begin(h, k, [Idle EXCEPT !.op = "edit", !.pc = "edit", !.edit = e, !.i = i])
EditRead(h, k, i, e) ==
  /\ IsEditable(pieceStatus[k])
  /\ i \in DOMAIN slides[k]
  /\ Begin(h, k, [Idle EXCEPT !.op = "edit", !.pc = "edit", !.edit = e, !.i = i])

Updated(old, new) == IF new = Keep THEN old ELSE new

EditWrite(h) ==
  LET k == handlers[h].piece  i == handlers[h].i  e == handlers[h].edit IN
  /\ At(h, "edit", "edit")
  /\ slides' = [slides EXCEPT ![k][i].source = Updated(@, e.source),
                              ![k][i].bg = Updated(@, e.bg)]
  /\ Reply(h)
  /\ UNCHANGED <<pieceStatus, layoutVars, notified, approvals, overlapped, mishaps>>

(* render: whatever the status, once every slide has a background; the     *)
(* pictures come back one update at a time.                                *)
RenderRead(h, k) ==
  /\ \A i \in DOMAIN slides[k] : slides[k][i].bg # "none"
  /\ Begin(h, k, [Idle EXCEPT !.op = "render", !.pc = "render", !.seen = Backgrounds(k),
                              !.i = 1])

RenderWrite(h) ==
  LET k == handlers[h].piece  i == handlers[h].i IN
  /\ At(h, "render", "render")
  /\ IF i \in DOMAIN handlers[h].seen
       THEN /\ slides' = [slides EXCEPT ![k][i].rendered = handlers[h].seen[i]]
            /\ handlers' = [handlers EXCEPT ![h].i = @ + 1]
       ELSE Reply(h) /\ UNCHANGED slides
  /\ UNCHANGED <<pieceStatus, layoutVars, notified, approvals, overlapped, mishaps>>

-----------------------------------------------------------------------------
(* The rest of the system, as far as these rows see it.                    *)

(* QaVisionService.evaluate puts a picture that passed into its slide.     *)
GeneratedImageWrite(k, i) ==
  /\ slides' = [slides EXCEPT ![k][i].bg = "generated"]
  /\ UNCHANGED <<pieceStatus, layoutVars, handlers, notified, approvals, overlapped,
                 mishaps>>

(* TemplatesService.update, the edit of a workspace's template: its zones  *)
(* change under the pieces that carry it, and none of them gets a slide.   *)
UpdateTemplate(t, layout) ==
  /\ zones' = [zones EXCEPT ![t] = layout]
  /\ outgrown' = IF SlideCount(layout) > SlideCount(zones[t])
                   THEN outgrown \cup {k \in Piece : template[k] = t} ELSE outgrown
  /\ UNCHANGED <<pieceStatus, template, slides, handlers, notified, approvals,
                 overlapped, mishaps>>

(* schedule() and the publish worker, for pieces that were approved.       *)
PublicationWrite(k, s) ==
  /\ k \in everApproved
  /\ pieceStatus' = [pieceStatus EXCEPT ![k] = s]
  /\ UNCHANGED <<slides, layoutVars, handlers, notified, approvals, overlapped, mishaps>>

(* Faults.  A call throws, or the webhook is lost: notifyApproved swallows *)
(* that, and there is nothing left to do for the request.  A crash takes   *)
(* every request.                                                          *)
Mishap == mishaps < MaxMishaps /\ mishaps' = mishaps + 1

HandlerFails(h) ==
  /\ Mishap
  /\ handlers[h].pc # "idle"
  /\ Reply(h)
  /\ UNCHANGED <<rowVars, notified, approvals, overlapped>>

Crash ==
  /\ Mishap
  /\ handlers' = [h \in Handler |-> Idle]
  /\ UNCHANGED <<rowVars, notified, approvals, overlapped>>

-----------------------------------------------------------------------------
HandlerStep(h) ==
  \/ StatusWrite(h) \/ Audit(h) \/ Notify(h) \/ WriteReason(h)
  \/ TemplateFind(h) \/ AddSlides(h) \/ TemplateWrite(h) \/ EditWrite(h) \/ RenderWrite(h)

Request(h, k) ==
  \/ \E auto \in BOOLEAN : SubmitRead(h, k, auto)
  \/ \E s \in {"approved", "rejected"} : DecideRead(h, k, s)
  \/ \E t \in Template : TemplateRead(h, k, t)
  \/ \E i \in DOMAIN slides[k], e \in Edits : EditRead(h, k, i, e)
  \/ RenderRead(h, k)

(* The steps of this component, and with those of the rest of the system.  *)
ContentNext ==
  \/ \E h \in Handler : HandlerStep(h) \/ HandlerFails(h)
  \/ \E h \in Handler, k \in Piece : Request(h, k)

Next ==
  \/ ContentNext
  \/ Crash
  \/ \E k \in Piece : \E i \in DOMAIN slides[k] : GeneratedImageWrite(k, i)
  \/ \E t \in Template : \E layout \in Layouts[t] : UpdateTemplate(t, layout)
  \/ \E k \in Piece, s \in {"scheduled", "published"} : PublicationWrite(k, s)

Spec == Init /\ [][Next]_vars

-----------------------------------------------------------------------------
(* The types of the variables.                                             *)
TypeOK ==
  /\ pieceStatus \in [Piece -> ContentPieceStatus]
  /\ zones \in [Template -> AllLayouts]
  /\ template \in [Piece -> Template]
  /\ slides \in [Piece -> Seq(Slide)]
  /\ handlers \in [Handler -> HandlerState]
  /\ humanApproved \subseteq everApproved /\ everApproved \subseteq Piece
  /\ notified \subseteq everApproved
  /\ overlapped \subseteq Piece /\ outgrown \subseteq Piece /\ mishaps \in Nat

(* Every zone of the template a piece carries has its slide, whatever      *)
(* template changes of the piece ran together (spec 019, CA-04), unless    *)
(* the template itself was edited to need more slides since the piece was  *)
(* given it, or while it was.                                              *)
SlidesCoverTemplate ==
  \A k \in Piece \ outgrown : \A z \in zones[template[k]] : z + 1 \in DOMAIN slides[k]

(* Where the webhook is configured and unless something failed, an         *)
(* approved piece was announced to the scheduling workflow, or the request *)
(* that approved it is about to.                                           *)
AnnouncedOrAbout(k) ==
  \/ k \in notified
  \/ \E h \in On(k) : handlers[h].pc \in {"audit", "notify"} /\ handlers[h].to = "approved"
ApprovedIsAnnounced ==
  \A k \in everApproved : WebhookConfigured /\ mishaps = 0 => AnnouncedOrAbout(k)

(* A piece no two requests ever worked on at once keeps the promises that  *)
(* the source makes of every piece: its status only moves along the table  *)
(* or, once past its approval, to where schedule and the worker put it,    *)
PastApproval(k) == pieceStatus[k] \in {"approved", "scheduled", "published"}
AloneMovesAlongTable ==
  [][\A k \in Piece \ overlapped :
       \/ pieceStatus'[k] = pieceStatus[k]
       \/ ValidTransition(pieceStatus[k], pieceStatus'[k])
       \/ PastApproval(k) /\ pieceStatus'[k] \in {"scheduled", "published"}]_vars

(* its sources and template are those of the last editable status,         *)
SourcesOf(k) == [i \in DOMAIN slides[k] |-> slides[k][i].source]
AloneFrozenOnceSubmitted ==
  [][\A k \in Piece \ overlapped :
       ~IsEditable(pieceStatus[k])
         => SourcesOf(k)' = SourcesOf(k) /\ template'[k] = template[k]]_vars

(* and with an AI slide it is never approved but by a human (PRD 7.7).     *)
AloneAiNeedsHuman ==
  \A k \in everApproved \ overlapped : HasAiGeneratedSlide(k) => k \in humanApproved
=============================================================================
