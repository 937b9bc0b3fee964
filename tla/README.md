# FastSocial in TLA+

FastSocial researches, writes, illustrates, approves, schedules and publishes
posts for social networks, for the customers of an agency. A NestJS API
(`apps/api`) keeps its state in Postgres and its delayed work in BullMQ queues;
four n8n workflows (`infra/n8n-workflows`) drive the automatic path through the
API; a stateless render engine (`services`) draws the pictures; a Next.js client
(`apps/web`) is what people see. This directory models the parts whose
correctness depends on the order in which things happen.

## The system

| component | state it keeps | operations | interacts with |
|---|---|---|---|
| Content pieces (`content-pieces/`) | `content_pieces`, `content_slides` | create, template change, slide edit, upload, render, submit, approve, reject | audit log, render engine, webhook to n8n |
| Publications (`publications/publications.service.ts`) | `publications`, queue `publish` | schedule, cancel, reschedule | piece status, social accounts, queue |
| Publish worker (`publications/publish.processor.ts`) | the job it holds | publish, mark, retry, give up | queue, networks, piece status |
| Scheduling workflow (n8n) | an execution per webhook | read preferences, accounts and upcoming publications, choose a time, POST schedule | publications |
| Image generation and QA (`image-generation/`) | `image_generation_jobs` | make a picture, judge it, up to 3 attempts | fal.ai, Claude, slides |
| Autopilot (`autopilot/`), research (`research/`), two n8n workflows | `autopilot_pipelines`, `research_insights` | settings, mark due workspaces, scan, mark insights, generate within a cadence | content pieces, copy, images |
| Instagram automation | `automation_flows`, `automation_runs`, queue `automation-execution` | webhook, match a trigger, run steps, edit flows | Meta, add-ons |
| Billing and add-ons | `subscriptions`, `workspace_addons` | checkout, Stripe events, subscribe, cancel, guard | Stripe, automation flows |
| Social accounts | `social_accounts`, `workspaces.postiz_api_key` | connect, sync, disconnect, OAuth, daily renewal | Postiz, LinkedIn |
| Workspaces, guards, platform administration | `workspaces`, members, invitations | create, invite, accept, remove, suspend, provision, impersonate | every request |
| Data privacy | deletion requests | request and confirm a deletion, erase accounts, export | Supabase, storage |
| Web client (`apps/web`) | query cache, forms, requests in flight | every page's buttons, forms and modals | the API |
| Templates (`templates/`) | `template_assets` | create, edit the zones, remove, import | content pieces that carry them |
| Copy and prompts, brand kit, analytics, funnel, help center, support chat, health, audit, authentication, render engine | rows of their own, or none | plain reads and writes | outside services |

What is hard here. Everything of the API runs in one node process and
interleaves at every `await`; hardly anything runs in a transaction, and nearly
every handler reads a row, checks it, and writes it by id later. The queues keep
finished jobs and ignore an `add` whose id exists. A network may take a post and
the reply be lost. The process may die between any two steps; a job it held is
then found stalled and given back. Meta and Stripe deliver an event again, and
Stripe in any order. The webhook to n8n is sent once. Executions of a workflow
overlap, and so do runs of the cron. In the browser, answers of loads and saves
arrive in any order, on whatever page is shown by then.

## Modules

| module | what it models |
|---|---|
| `ContentStates` | `state-machine.ts`: statuses, `VALID_TRANSITIONS`, editable statuses, the target of a submission |
| `JobQueue` | BullMQ as the source uses it (external): job states, `add`, `remove`, take, finish, stalled jobs |
| `Publications` | `PublicationsService` and `PublishProcessor`, one step per await, with faults |
| `PublicationLedger` | what the two promise, without requests, jobs or worker; `Publications` implements it |
| `ContentPieces` | `ContentPiecesService`, one step per await, with faults |
| `PublishingPipeline` | both in one process, sharing the pieces, and the scheduling workflow between them |
| `Scheduling` | how the workflow chooses a time, while people change the calendar |
| `ImageGeneration` | pictures and their judgements, the page and the workflow that wait for them |
| `Autopilot` | the two mark-and-fetch endpoints, scans, and the executions that call them |
| `InstagramAutomation` | webhook, runs, jobs and steps; uses `JobQueue` |
| `Billing` | billing and add-ons against Stripe and its events |
| `SocialAccounts` | accounts of LinkedIn and of Postiz |
| `Tenancy` | workspaces, members, invitations, guard, administrators, deletion |
| `WebHooks` | every query and mutation hook of the client: keys, effects on the cache |
| `WebPages` | every page: what it shows, its buttons, form, views and links |
| `WebClient` | a browser tab: cache, form, requests in flight, changes of page |
| `PublicationsProofs`, `ContentPiecesProofs`, `PublishingPipelineProofs`, `InstagramAutomationProofs`, `BillingProofs`, `SocialAccountsProofs` | theorems about the module each is named for |
| `WorkflowProofs` | theorems about `Autopilot`, `Scheduling` and `ImageGeneration` |
| `WorkspaceProofs` | theorems about `Tenancy` and `WebClient` |
| `MC...` | constants for TLC, one module per component that is checked |

Common conventions. A request is a slot with the await it has reached (`pc`) and
what it has read; an action is what happens from one await to the next: the
effect of the call, and the decision the code takes on its answer. Faults are
bounded together by `MaxFaults` or `MaxMishaps`. A variable commented `history`
is not in the program; it records what an invariant needs to know of the past,
and mostly that two requests met on a row. Where the code does not defend
against such a meeting the invariant says so in its premise; these premises are
the honest contract of the code and are listed under "What the code does not
promise" below.

### Publications

`pubStatus` is the column `status` of a row (`absent`: not created yet), `jobs`
the queue by job id `<<publication, attempt>>`, as `buildJobId` makes them.
`calls` holds up to `Cardinality(Call)` requests in flight; `worker` is the
single worker (`concurrency` is left at 1 and there is one API container). So
`cancel` is `CancelRead` (find, check the status), three `RemovePendingJob` and
`CancelWrite`; `process` is `TakeJob`, `WorkerRead`, a post accepted or
rejected, `WritePublished`, `ReadSiblings`, `MarkPiecePublished`, or the catch
clause (`AddRetry`, `GiveUp`, `MarkFailed`), and `FinishJob`.

`posts` counts what the network holds for a publication and `lost` the posts
the row was never told of: the reply was lost, the update of the row failed, or
the process died before it. A post that the system lost is posted again by the
retry, and nothing in the code can prevent it; the claim of `NoDoublePost` is
that nothing ELSE doubles a post. The `try` goes on after the row was told, with
the read of the siblings and the update of the piece. When one of these throws
(`TryFails`, `MarkReplyLost`) nothing is lost, and `late` records it: the retry
finds the row published and leaves it, but on the last attempt the `catch`
writes `failed` over `published`. `SettledTruthfully` excepts these rows by name
and no others; the ledger has a step of its own for them (`Doubt`).

Dates are left out: a waiting job may run at any time, which covers every delay.
`PieceWrite` and `AccountWrite` are the rest of the system.

### ContentPieces

A piece starts as `create` makes it, with the slides its template asks for.
`zones` are the templates' own rows: `UpdateTemplate` is
`TemplatesService.update`, at any moment, under the pieces that carry the
template and under requests that have read it. `Layouts` says which zones a
template may have: one of the system cannot be edited
(`templates.service.ts:57-63`) and has one layout. A change of the template of a
piece is `TemplateRead`, `TemplateFind`, `AddSlides` and `TemplateWrite`.
`outgrown` collects the pieces whose template was edited to need more slides
after they were given it, or between the read and the write of the request that
gave it to them. A slide keeps `image_source`, the kind of its background and
the kind of its rendered picture (`none`, `plain`, `generated`). `handlers` are
the requests in flight; what a request will write is in its record (`to`,
`edit`), and what it read and uses later (`seen`, `i`). The unique index on
`slide_order` is in `AddSlides`: an insert that meets a slide another request
added fails whole. The webhook is `Notify`, which does nothing where
`WebhookConfigured` is false; that it is lost is `HandlerFails` at that point,
since `notifyApproved` swallows the error. `GeneratedImageWrite` is the write of
`QaVisionService.evaluate`, and `PublicationWrite` what publications write over
a piece.

`overlapped` collects the pieces two requests ever worked on at the same time.
The code checks the status it READ; so each promise of its comments holds for
pieces that never were overlapped (`Alone...`). The status of such a piece moves
along the table; the only other moves it makes are those of publications, to
`scheduled` or `published`, and only from a status past the approval.

### PublishingPipeline

A step of one component leaves the rows and the memory of the other alone; the
status of a piece they share, and nothing stops either from writing it. The
properties `ContentPiecesKept` and `PublicationsKept` discharge what each
module assumed of the rest of the system. A crash takes both at once.
`WorkflowSchedules` is `scheduling-pipeline.json`: one request for each webhook.
Edits of templates are steps of the composition too, and the theorems are about
any layouts; the run has one, so there they change nothing.

### Scheduling

Times are minutes since a midnight. An execution reads the preferred times, the
accounts, and the upcoming publications, in three requests; `ChooseTime` is the
two loops of the workflow's code node: the days from today, the preferred times
in the order they are listed (they are not sorted), the first to come that keeps
`MinSpacing` from all upcoming ones. People schedule, move and cancel
publications, settings change and the clock goes on between any two of these
steps. `behind` keeps, for an execution that has read the calendar, the
publications that were given their time since, by a person or by another
execution. `KeepsDistance` is about the moment the time is stored: it keeps its
distance from every publication that is then to come, except those `behind`. So
it relates the rows as they are to a choice made two steps before, and it fails
when the search forgets a day, a publication or the spacing. The specification
is `CalendarSpec`, because `WorkflowProofs` extends this module and `Autopilot`,
which has the name `Spec`.

### ImageGeneration

A call is one HTTP request; a judgement that rejects goes on to the next picture
and its judgement within the same call. `image` names the job that made the
picture of a slide. A client may name the number of the attempt, which the DTO
bounds from below only (`@Min(1)`), so `Asks` has a number past the last; a
rejection of such a picture goes to a human at once. A workflow execution asks
for a picture and polls its job.
`reviews` counts how often a job was read to be judged, `torn` collects jobs
whose judgement a failure or a crash cut off. Names that start with `Picture`
(`PictureSpec`) keep this module apart from `Autopilot` in `WorkflowProofs`.

### Autopilot

`lastRun` is missing, within the cadence or past it; `recent` counts the pieces
of the last week. `FindDue` and then `MarkDue` are one endpoint, `CountRecent`,
`FindInsights` and `MarkConsumed` the other. Scans go on after their answer;
people add insights (`CreateManual`) and make pieces of them (`HumanUses`).
`doubled`, `shared` and `crowded` record that two executions met.

### InstagramAutomation

A flow is its list of steps, a job carries the number of its step and reads the
step when it runs. `Receive` is a delivery of a batch of events, repeated at
will up to `MaxDeliveries`. A job whose processor has returned is not finished
until BullMQ says so (`Finish`): a crash leaves it stalled like any other, and
`Restalled` runs it again from its start. `sent` is what the contact received,
in order. `forked` collects the runs with a job that may act twice: the queue
took the next job and reported an error, a crash came between the next job and
the end of this one, or a crash came after the message of the step was out.

### Billing

Stripe is the environment: customers, sessions, subscriptions and events it
sends; an event carries the subscription as it was when sent and may be
delivered late, again, or out of order (`shuffled`). A run starts from a fresh
workspace or from one whose first checkout was paid and handled, so that the
bound on events is spent on what comes after.

### SocialAccounts

Of a token only the days left are kept. The renewal job runs once a day, page by
page, and a day passes only when it has ended or was missed. Postiz holds the
organization of each integration; `settledOff` collects accounts that were
disconnected while no request or job held an older reading of them.

### Tenancy

Invitations and deletion requests are tickets with a token, an expiry and a mark
of use. `WorkspaceGuard` finds the workspace and the role in reads of its own;
`act` stands for whatever comes behind it. Not every controller has it: those of
workspaces and of data privacy sit behind `JwtAuthGuard` alone, and their
operations (invite, accept, remove, request and confirm a deletion) are modelled
without it, also while a workspace is suspended. The deletion is
followed through its statements to the erasure of each account.

### WebHooks, WebPages, WebClient

`WebHooks` has one definition per hook: a query names its key and the resources
its answer is made of; a mutation names what it writes, whether it adds to what
is stored, overwrites it whole or is answered before the work is done, and what
its callbacks do to the cache (`setQueryData`, an optimistic edit with its
rollback, `invalidateQueries`). `WebPages` has one definition per page or acting
component, collected in `Pages`: the queries a view shows, the buttons with what
they send, when they are disabled, what they open or where they lead, and which
cached row fills the form, once (`useEffect` with a guard, or `useState` of what
is there) or at each change.

`WebClient` runs any of these pages. What the tab knows is the set of this
user's edits it takes into account: of a row in the cache, of a form, of a
request's body. So "shows my save" is an element of a set, and no page needs
data of its own. `Click`, `Serve`, `Succeed`, `Fail` follow a mutation, `Read`,
`Load`, `LoadFails` a query, `Focus` is the reload when the window gets the
focus, `TurnTo` and `Follow` are views and links. Callbacks given to `mutate`
run only while their page is mounted and only for the newest call; those of
`useMutation` always run. One page takes an answer into its form itself
(`fills`: the rollback of `system-prompts/[key]/page.tsx:128`). The
specification is `TabSpec`, because `WorkspaceProofs` extends this module and
`Tenancy`.

`late`, `stale` and `old` are histories of the cached data. Data are `old` when
an own edit was answered since and not put into them; that they are loaded again
does not help a form that was filled before. A form is `sound` when it was
filled from data that were not old, while no own save of the same row was in
flight. `HooksAssumption`, `OffersAssumption` and `PagesAssumption` say what the
hooks and pages have in common, for instance that a mutation sent from a page
puts, reloads or makes each query of the page that reads what it writes. They
are closed statements about the hooks and pages listed, without a parameter, and
TLC evaluates them in full on each run: a hook or a page that broke one would be
reported there.

## Runs

| run | shows | bounds |
|---|---|---|
| `publication_races` | no double post, truthful rows, settled rows stay, no stranded row, the ledger is implemented | 1 publication, 2 requests, 3 attempts, 1 reschedule, 2 faults |
| `sibling_publications` | the last publication marks the piece, never past a failure; a scheduled publication settles (fairness) | 2 publications of a piece, 1 request, 2 attempts, 1 fault |
| `content_races` | slides cover the template under racing template changes and edits of templates; approved pieces are announced; the promises hold for pieces never overlapped | 1 piece, a template of 1 slide and one edited between 2 and 3, 1 kind of edit of a slide, 2 requests, 1 fault |
| `publishing_pipeline` | the assumptions hold in the composition; a posted piece is past its approval; approval leads to an outcome (fairness) | 1 piece, 1 publication, 1 content request, 2 publication requests, a fault on each side |
| `scheduling` | the time an execution stores keeps its distance from what is to come, but for what was put there behind its back | 2 executions, 3 publications, days of 120 minutes, spacing 30, 2 days searched, 2 edits |
| `image_generation` | what a slide shows has passed; a rejection is followed, up to the last attempt; every call is answered (fairness) | 1 slide, 2 calls, 1 workflow, 3 jobs, 2 attempts, requests for the first or the third, 2 tries of the model, new judgements begun while there was none, 1 fault |
| `autopilot` | once per cadence, within posts per week, one piece per insight, unless two executions met | 1 workspace, 3 insights, 2 + 2 executions, 1 or 2 posts a week, 3 changes |
| `instagram_automation` | answers at most once per delivery, in order and once each; completed runs said everything; runs end (fairness) | 1 flow of 2 messages or a tag, 1 event delivered twice, 2 runs, 4 jobs one at a time, 1 edit, 1 fault |
| `billing` | with everything handled in turn the rows mirror Stripe; flows stop with their add-on; what is paid belongs to the customer kept | 2 requests, 2 handlers, 3 events, 2 subscriptions, 1 repetition or failure |
| `social_accounts` | a connected page has a token that works; what is off stays off; one organization, whose key is kept | 1 page, 1 integration, 2 requests, tokens of 4 days renewed 3 days before, 1 fault |
| `tenancy` | an administrator stays; erasure and deletion only as promised; suspension shuts the door | 2 workspaces, 2 users of which 1 is a platform administrator, 1 ticket, 2 requests, 1 fault |
| `web_client` | a page at rest shows what its user saved; a save does not take an earlier one back | every page alone and 6 tours over 2 or 3 pages, 2 writes, 1 failure, 1 reload by focus |

Why the bounds are enough. The races of the server need two requests, and a
worker or a job, on one row; a third finds nothing the second did not leave.
Every id of `removeAllPendingJobs` exists with 3 attempts, the number of the
source. Two faults let a crash follow a lost reply. Publications of different
pieces share only the worker, which is idle between jobs. The conflict of
`AddSlides` needs two requests and three sizes of template; an edit between the
larger two makes a piece outgrown. Two
attempts at a picture have a first, a last, and a step between them; a third is
the one a client should not have asked for. Two calls may begin to judge one
picture before either has read it, which is the double judgement, and make two
next attempts of it. A run of two messages has
three jobs, the last of which finds no step, so one has a predecessor and a
successor; a second delivery is what Meta sends when the first answer is late,
and a fourth job is the one a rerun adds. Three events are enough for one to be
repeated after, or delivered before, another. Three days' window leave two days
for a fault to be made good. A second administrator is the one whose presence
permits the first to leave. In the browser a second write is what an answer may
overtake, and a tour of three pages is a return with the first visit's requests
in flight; the pages share hooks, and the tours are those on which a page writes
what the next one shows.

`CHECK_DEADLOCK` is off where a bound is a clock, a supply of tickets or events,
or a number of edits that may all be used up: `billing`, `tenancy`,
`instagram_automation`, `image_generation`, `autopilot`, `scheduling`,
`web_client`. In the other runs a state without a step would be an error.

Types. Each module has a `TypeOK`. Those of `Publications`, `ContentPieces`,
`Autopilot`, `Scheduling`, `ImageGeneration`, `InstagramAutomation`, `Billing`,
`SocialAccounts`, `Tenancy` and `WebClient` are theorems and no run spends time
on them.

## Fairness

All of it is weak fairness, and none is on clients, on networks' or models'
verdicts, or on faults. `FairSpec` of `Publications`: each request in flight
goes on (the event loop), the worker goes on while it can take or finish a job,
the stalled checker is a timer of BullMQ. The pipeline adds that n8n runs an
execution for a webhook it received. `InstagramAutomation`: webhook requests,
the worker and the stalled checker go on. `ImageGeneration`: the server goes on
with its calls, n8n with polling and with what follows. The other modules claim
safety only.

## Proofs

`PublicationsProofs`, for every set of pieces, publications, accounts and
requests, any number of retries, reschedules and faults, from
`PublicationsAssumption` alone. `IInv` strengthens the invariants with what the
steps between awaits know: which request is where and on which row (`CallInv`),
that a row in use exists and its piece was approved (`RowInv`), what the worker
has read (`WorkerInv`: at `publish` every post so far is lost, at `write` one is
not), and how posts and losses relate (`PostInv`). `Inductive` and
`StepKeepsIInv` carry it; `LedgerImplemented` maps every step to a ledger step
or a stutter. `NoScheduledIsStranded` needs a second invariant, `DrivenInv`:
without faults and reschedules, at most one job of a publication is to come, the
worker's retry counter is ahead of every finished job, and a cancel in flight
will settle the row. It speaks of a publication nobody disturbed, so it is
proved from the moment of its creation (`DisturbedForGood`).

`ContentPiecesProofs`, for every set of pieces, templates, edits and requests
and any number of faults, from `ContentPiecesAssumption` alone. `Sound` says
what each request carries from its read to its write, in terms that no other
request can take away: lengths of slide lists, which only grow, and the history
of approvals. With `Covered` (a piece that is not outgrown never has fewer
slides than its template counts, and a request holds as many as it found) it is
inductive and gives `ContentTypes` and `EveryZoneHasASlide`. `Alone` adds, for
the pieces that are not overlapped, that at most one request is on the piece and
what it read still holds; past an approval no such request is about to write
(`NobodyWritesPastApproval`), so what publications write cannot make a read
stale either. From it follow `AiSlideNeedsHuman`, `StatusMovesAlongTable` and
`FrozenOnceSubmitted`. `NoApprovalUnannounced` is an induction of its own on top
of `Sound`.

`PublishingPipelineProofs`, from `PublishingPipelineAssumption`, which is the
two assumptions above. It takes both proof modules as instances, so their lemmas
speak of the shared variables. `ContentStepMaps` and `PublicationStepMaps` show
that a step of one component is, to the other, one of its
own `PublicationWrite` or `PieceWrite`, or nothing; therefore the joint state
stays within `Sound` and `IInv` (`BothInv`), and the composition refines both
components (`ContentPiecesRefined`, `PublicationsRefined`). Every safety theorem
of either then holds of both together (`PromisesOfContentPieces`,
`PromisesOfPublications`). `PostedStaysPastApproval` needs one fact from each:
what was posted had been approved, and an approved piece no two requests worked
on at once does not go back.

`WorkflowProofs`, `Autopilot`: for every set of workspaces, insights and
executions. Each of the three invariants says what an execution holds between
the statement that finds and the one that marks: its workspace was not marked in
this cadence (`ResearchInv`); its insights have no piece and no other holder
(`InsightInv`); what it will still make fits into the week together with what is
there (`CadenceInv`, which needs that the insights in its hands are finitely
many).

`WorkflowProofs`, `Scheduling`: for every spacing, length of the day, number of
days searched, set of preferred times and set of executions. `FirstCandidate` is
about the two loops: the lexicographic order of days and positions in a list is
well-founded, so candidates that exist have a first, and what `Chosen` returns
is a time that is free (`ChosenIsFree`). `KeptInv` carries that to the stored
row: what is to come and was not put there behind an execution's back is where
the execution read it, so from the choice on the chosen time keeps its distance
from it. A step either gives no publication a time, and then what is to come
only gets fewer (`Fewer`), or it gives one a time and puts it behind the back of
every execution that has read.

`WorkflowProofs`, `ImageGeneration`: for every set of jobs, slides, calls and
workflows, any number of attempts, tries and judgements, from `ImageAssumption`.
`CallInv` says what a call knows of the job it is at, `RowInv` what the status
of a row tells, whoever wrote it. `CountInv` counts, for a job, the attempts
that follow it and the calls that will still make one: together they are at most
its judgements, which needs that the calls at work are finitely many.
`RejectInv` says that a rejected job no failure cut off has its next attempt, or
a call about to make it; `ShownInv`, that a slide shows a job judged once only
when the one call that judges it has passed it, or is writing that it has.

`InstagramAutomationProofs`, for flows of any length and any number of
deliveries, jobs at a time, edits and faults. `DeliveryInv` counts, for an event
and a flow, the runs stored and the requests that may still store one: together
they never exceed the deliveries, and every step moves one from the second kind
to the first or drops it. `OneInv` puts a run that is not forked in one place
only, with the request that stored it or with one job; `OrderInv` bounds what it
sent by the step of that job; `SaidInv` says that the messages of all earlier
steps are behind it, and that it holds the step that is in the flow. An earlier
form of the model did not prove: with two faults a job that had sent its message
could be run again without being in `forked` (the `add` failed, then the process
died before the run was marked), and `Finish` was part of the step before it.
TLC shows the behaviour; the history and the model were corrected.

`BillingProofs`, for every set of plans, add-ons, requests and handlers, any
number of subscriptions, events and repetitions. `TypeInv` includes what an
event says of its subscription and what of that stays true. `FlowsInv` covers
flows about to be switched on as well as those that are. `OursInv` follows the
customer from the call to the row, the session and the subscription. `TurnInv`
says what `~shuffled` buys: one handler at a time, with the oldest event.
`MirrorInv` then holds at every moment, not only when everything is handled:
the newest event pending says what Stripe says, the end of a subscription is its
last event, and plan, status and add-ons of the rows differ from Stripe only by
what the pending events will write.

`SocialAccountsProofs`, for every set of pages and integrations, every lifetime
and every renewal window. `SettledInv`: an account disconnected for good is in
no request's and not in the job's hands, and Postiz does not list it. `KeyInv`:
the first organization has its key kept or on its way; with what a request
carries (`Carries`), any key that is kept, on its way or used is then that
one's. `UsableInv` counts: the
days a connected page has left and the faults so far are together at least the
window, less one while the job of the day has not come to it.

`WorkspaceProofs`, `Tenancy`: for every set of workspaces, people, tickets and
requests. `TicketInv` and `EmptyInv` say what a request that has read a ticket
or a workspace may rely on, and that what is not there has no members, so that
an erasure's count stays true for whoever does not join (`hasty`). `RemovalInv`:
two removals on one workspace are on record (`contested`), and one alone finds
that an administrator stays behind. `StaffInv`: a workspace has an
administrator, or has no members at all and waits for the first, whose
invitation is open or about to be sent.

`WorkspaceProofs`, `WebClient`: for every number of edits, faults and reloads
and every tour over the pages, from `WebClientAssumption` and the three
assumptions about hooks and pages. The invariant is about who makes up for an
edit that data miss. Data `Agree` on an edit when they have it if it was
answered and is stored, and do not have it unless it is stored or was answered.
An answer of a load or of a save on its way agrees on every edit, unless it is
marked late or another request about the same row has taken effect and is still
to be answered (`UnderWay`): that answer will mark, put or reload it. Data that
are not old have what was answered and is stored, with the same exception
(`DataInv`); what a page shows at rest agrees, unless a guess is still to be
checked (`RestInv`). A sound form has what its data had, and what the saves sent
from it write (`FormInv`); a save's base has what its form had (`KeepInv`). The
cache takes part in nearly every action, so a step is described by what it does
to a slot (`LoadForm`, `DataForm`, `PutForm`, `GuessForm`, `LoadedForm`,
`ShownForm`) and to the requests (`CallsMove`, `KnownMove`); that such a step
keeps the invariant is proved once (`SlotsStay`, `ShownStays`, `AnswersStay`),
and each action is shown to be one. The attempt corrected the model: the two
properties in their first form were true within the bounds of the run and false
beyond them. With two faults, a request that had taken effect failed and left no
mark; with four edits, the rollback of the prompt editor, which fills the form
before the cache is loaded again, filled it from an answer another save had
overtaken. TLC shows both with larger bounds. The model now has `old`, `fills`
and the marks of a request that failed, and the corrected properties are the
theorems.

Only model-checked: the liveness properties (`ScheduledSettles`,
`ApprovedIsSettled`, `EveryRunEnds`, `EveryCallEnds`), since fairness and
ENABLED are out of the prover's reach. Every safety property that a run checks
is a theorem.

Worth doing next: the liveness of a workflow execution, which the code does not
give today (see below); and models of what the last paragraphs of the next
section only describe, the cache of prompts and the references of the brand kit.

## What the code does not promise

Facts read in the code while modelling. They are the premises of the invariants,
or states the models reach and no invariant forbids.

Publications and pieces. - When the read of the siblings or the update of the
piece throws on the last attempt, the `catch` clause writes `failed` over a row
that says `published` and holds the reference of its post
(`publish.processor.ts:65-69` and 82-84); on an earlier attempt the retry leaves
the row and the piece is not marked. - A reschedule that meets a failing attempt
may remove the retry's job and lose its own to an id that exists: the row stays
scheduled without a job. - `schedule` moves the piece first and checks the
account later; a refusal leaves the piece scheduled with no publication, and a
stale `scheduled` may overwrite `published`. - A piece may be marked published
while a sibling publication was just created. - Of two overlapping requests, the
second writes a transition nobody checked; an AI picture may be set after the
submission was decided without one. - The QA writes the slide of a piece that is
no longer editable, over an upload too, and never sets `image_source`. - The
approval webhook is sent once, and not at all where it is not configured
(`content-pieces.service.ts:166-169`). The comment above it counts on a cron of
n8n that picks up missed approvals; `scheduling-pipeline.json` has none. - An
edit of a template (`templates.service.ts:65-77`) replaces the zones of one that
pieces carry and adds no slide to them; their new zones stay without one until
the template of the piece is set again. - `schedule` writes `scheduled` over a
rejection that came after its read.

Pictures, autopilot and automations.
- A job judged twice can leave the picture of the judgement that rejected it,
  against spec 018, CA-05; nothing stops a second request for a judged job.
- `content-generation-pipeline.json:234-252` polls a job until it is no longer
  pending, and nobody asks for the judgement that would change it: the execution
  waits for ever. `EveryCallEnds` is therefore about calls, not executions.
- An insight marked consumed whose execution dies never becomes a piece.
- A step of an automation whose message is out is run again, message and all,
  when the process dies before BullMQ has finished its job.
- Two crons that meet research a workspace twice; two executions that meet
  exceed `posts_per_week`.
- Two scheduling executions of one workspace that both read the calendar before
  either stores its publication may choose the same time, against spec 035,
  CA-02; and so may a person between the read and the request.
- A publication in the past is not among the upcoming ones, so the next time may
  be close to one that was just posted; `preferred_times` are taken in the order
  in which they were entered.

Money, accounts, people. - `onSubscriptionDeleted` leaves the rows of the
add-ons active; a second subscription, paid in parallel, takes the place of the
first in the row. - When the handler fails between lines 176 and 180 of
`stripe-webhook-handler.service.ts`, the event repeated finds the add-on
cancelled already and the flows are never stopped. - Two first checkouts make
two customers; two first uses of Postiz make two organizations. - An integration
removed inside Postiz stays connected here; a disconnect whose second half
failed meets a 404 when repeated and keeps the row connected. - Two
administrators who remove themselves at once leave none; a person who joins a
workspace after having been counted is erased with the one deleted.

Web client. - `setQueryData` in `onSuccess` does not cancel a load in flight,
whose older answer then overwrites it; where nothing is invalidated (autopilot
settings, brand kit) the old data stay until the next mount or focus. - In
`useApprovalQueue`, the rollback of one decision brings back the card that
another had taken out, until the settling refetch; and the card whose error
should be shown was unmounted by its own optimistic removal. - A form filled
while another save of the same row is in flight writes the old values back; so
does one filled at once from cached data that an own save was answered after and
that are still being loaded again, as when the prompt editor is left and
reopened. Forms filled at each change lose an unsaved draft to a refetch. - A
request that fails after it took effect leaves the old data shown, unless its
hook refreshes on `onSettled` as well. - The template editor takes its zones
from whatever is cached when it opens. - `useConnectFlow` keeps polling after
its page is left; scans and add-on subscriptions are answered before they take
effect. - In `system-prompts/[key]/page.tsx` the effect of lines 40-43 marks the
draft of the moment as tested, not the one that was sent, unlike the comment of
lines 61-63. - The dashboard's checklist does not hear of a save or connection
answered after its page was left (`stale` in the model).

Parts without a module.
- `SystemPromptsService.get` may read the row before an update and put the old
  content into the cache after it, where it stays; `cache.set` is inside the
  transaction.
- Brand kit references: list read, files uploaded, list written whole; of two
  uploads one is forgotten, the limit of 8 holds.
- A slug of the help center is looked for and then inserted: the unique index
  fails one of two. An import that dies leaves its placeholder row. Two first
  visits of the funnel may both store their UTM.

## Not modelled, and why

- Copy generation and prompts, research's sources and summaries: texts, and one
  call to a language model; a failure is the caller's.
- Templates, but for their zones and edits of these (`ContentPieces`): previews
  and formats are data, creation and import make rows nobody carries yet.
- Brand kit, analytics, metrics, funnel, help center,
  support chat, system health, audit: one request, one row, and no decision on
  an earlier state; the races there are the ones named above.
- Render engine: stateless; `RenderWrite` takes its answer.
- Authentication: a library checks tokens and Postgres row-level policies; of
  the database's triggers, those that copy an account and that mark an insight
  are part of `Tenancy` and `Autopilot`, the one that limits monthly posts is
  not modelled.
- Impersonation (a token and an audit record) and the data export (rows read
  once, a file, a mail).
- In the browser: the choice of a workspace, what other people write meanwhile,
  reloads of the whole application, sign-up within a session, Google's login,
  the support chat, layout and wording.
- Encryption and signatures are taken for granted. Deletion of rows by cascade
  is modelled only where a workspace goes (`Tenancy`, `InstagramAutomation`): a
  piece, once there, stays.
