---------------------------- MODULE SocialAccounts ----------------------------
(***************************************************************************)
(* The social accounts of one workspace (apps/api/src/social-accounts).    *)
(* Pages of LinkedIn are connected by OAuth and their tokens, kept in the  *)
(* row, are renewed by a daily job; accounts of Meta live in an            *)
(* organization of Postiz, made for the workspace on its first use, and    *)
(* are copied from there by sync.  Requests and the job interleave at      *)
(* every await; none of them looks at a row again before it writes it.     *)
(*                                                                         *)
(* Of a token only its days left are kept, of an API key its organization. *)
(***************************************************************************)
EXTENDS Integers

CONSTANTS
  Page,          \* LinkedIn company pages
  Integration,   \* accounts connected inside Postiz
  Request,       \* request slots: at most so many requests at once
  Nobody,
  Lifetime,      \* days a token lives
  RenewWindow,   \* RENEW_WINDOW_MS, in days
  MaxMishaps     \* bound on failed calls, crashes and missed runs of the job

Account == Page \cup Integration

ASSUME SocialAccountsAssumption ==
  /\ Page \cap Integration = {} /\ Nobody \notin Account
  /\ Lifetime \in Nat /\ RenewWindow \in 1..Lifetime
  /\ MaxMishaps \in Nat

VARIABLES
  status,        \* social_accounts.status; "absent" without a row
  renewable,     \* pages whose row has a refresh token
  daysLeft,      \* until token_expires_at
  postizKey,     \* workspaces.postiz_api_key: an organization, 0 for null
  organizations, \* how many Postiz has for this workspace
  home, enabled, \* Postiz: the organization of an integration (0: deleted)
  requests,      \* where each request stands
  job,           \* where the renewal job stands
  jobRan,        \* today's run of the job has started
  settledOff,    \* history: accounts disconnected when nobody else held them
  crowded,       \* history: two requests provisioned at once
  mishaps        \* history: faults so far

rows == <<status, renewable, daysLeft>>
postiz == <<organizations, home, enabled>>
vars == <<rows, postizKey, postiz, requests, job, jobRan, settledOff, crowded, mishaps>>

-----------------------------------------------------------------------------
Status == {"absent", "connected", "disconnected", "expired"}
Listed == [id : Integration, status : {"connected", "disconnected"}]

Idle == [op |-> "none", pc |-> "idle", on |-> Nobody, key |-> 0, seen |-> {},
         grant |-> FALSE]
RequestState ==
  [op : {"none", "sync", "connect", "disconnect", "callback"},
   pc : {"idle", "key", "provision", "saveKey", "list", "upsert", "delete", "write",
         "organization"},
   on : Account \cup {Nobody}, key : Nat, seen : SUBSET Listed, grant : BOOLEAN]

JobIdle == [pc |-> "idle", todo |-> {}, on |-> Nobody]
JobState == [pc : {"idle", "next", "ask", "renew", "expire"}, todo : SUBSET Page,
             on : Page \cup {Nobody}]

Init ==
  /\ status = [a \in Account |-> "absent"]
  /\ renewable = {} /\ daysLeft = [p \in Page |-> 0]
  /\ postizKey = 0 /\ organizations = 0
  /\ home = [i \in Integration |-> 0] /\ enabled = {}
  /\ requests = [q \in Request |-> Idle]
  /\ job = JobIdle /\ jobRan = FALSE
  /\ settledOff = {} /\ crowded = FALSE /\ mishaps = 0

-----------------------------------------------------------------------------
At(q, pc) == requests[q].pc = pc
Goto(q, pc) == requests' = [requests EXCEPT ![q].pc = pc]
Reply(q) == requests' = [requests EXCEPT ![q] = Idle]
OnlyRequests == UNCHANGED <<rows, postizKey, postiz, job, jobRan, settledOff, crowded, mishaps>>

Begin(q, op, pc, a) ==
  /\ At(q, "idle")
  /\ requests' = [requests EXCEPT ![q].op = op, ![q].pc = pc, ![q].on = a]
  /\ OnlyRequests

SyncStart(q) == Begin(q, "sync", "key", Nobody)
ConnectStart(q) == Begin(q, "connect", "key", Nobody)

(* disconnect: a page of LinkedIn has nothing in Postiz (spec 042).         *)
DisconnectRead(q, a) ==
  /\ status[a] # "absent"
  /\ Begin(q, "disconnect", IF a \in Page THEN "write" ELSE "key", a)

(* ensurePostizApiKey.                                                     *)
AfterKey(op) == CASE op = "sync" -> "list" [] op = "disconnect" -> "delete" [] OTHER -> "idle"
HasKey(q, key) ==
  LET next == AfterKey(requests[q].op) IN
  IF next = "idle" THEN Reply(q)
  ELSE requests' = [requests EXCEPT ![q].pc = next, ![q].key = key]

KeyRead(q) ==
  /\ At(q, "key")
  /\ IF postizKey # 0 THEN HasKey(q, postizKey) ELSE Goto(q, "provision")
  /\ OnlyRequests

Provision(q) ==
  /\ At(q, "provision")
  /\ organizations' = organizations + 1
  /\ requests' = [requests EXCEPT ![q].pc = "saveKey", ![q].key = organizations + 1]
  /\ crowded' = (crowded \/ postizKey # 0
                   \/ \E r \in Request \ {q} : requests[r].pc \in {"provision", "saveKey"})
  /\ UNCHANGED <<rows, postizKey, home, enabled, job, jobRan, settledOff, mishaps>>

(* The first form gives the key back and does not keep it.                 *)
SaveKeyForgetting(q) ==
  /\ At(q, "saveKey") /\ HasKey(q, requests[q].key) /\ OnlyRequests
SaveKey(q) ==
  /\ At(q, "saveKey")
  /\ postizKey' = requests[q].key
  /\ HasKey(q, requests[q].key)
  /\ UNCHANGED <<rows, postiz, job, jobRan, settledOff, crowded, mishaps>>

-----------------------------------------------------------------------------
(* sync: what Postiz lists, then one upsert after another.                 *)
ListIntegrations(q) ==
  LET listed == {[id |-> i, status |-> IF i \in enabled THEN "connected" ELSE "disconnected"] :
                   i \in {j \in Integration : home[j] = requests[q].key}} IN
  /\ At(q, "list")
  /\ IF listed = {} THEN Reply(q)
     ELSE requests' = [requests EXCEPT ![q].pc = "upsert", ![q].seen = listed]
  /\ OnlyRequests

Upsert(q, x) ==
  LET left == requests[q].seen \ {x} IN
  /\ At(q, "upsert") /\ x \in requests[q].seen
  /\ status' = [status EXCEPT ![x.id] = x.status]
  /\ IF left = {} THEN Reply(q) ELSE requests' = [requests EXCEPT ![q].seen = left]
  /\ UNCHANGED <<renewable, daysLeft, postizKey, postiz, job, jobRan, settledOff, crowded, mishaps>>

(* disconnectIntegration: an error when that organization has no such      *)
(* integration, and then the row keeps its status.                         *)
DisconnectInPostiz(q) ==
  LET i == requests[q].on IN
  /\ At(q, "delete")
  /\ IF home[i] = requests[q].key
       THEN home' = [home EXCEPT ![i] = 0] /\ Goto(q, "write")
       ELSE Reply(q) /\ UNCHANGED home
  /\ UNCHANGED <<rows, postizKey, organizations, enabled, job, jobRan, settledOff, crowded, mishaps>>

(* Somebody else holds an older reading of a: the job, a sync, a callback. *)
Held(a) ==
  \/ a \in job.todo \/ job.on = a
  \/ \E r \in Request, x \in Listed : x.id = a /\ x \in requests[r].seen

DisconnectWrite(q) ==
  LET a == requests[q].on IN
  /\ requests[q].op = "disconnect" /\ At(q, "write")
  /\ status' = [status EXCEPT ![a] = "disconnected"]
  /\ settledOff' = IF Held(a) \/ (a \in Integration /\ home[a] # 0) THEN settledOff
                   ELSE settledOff \cup {a}
  /\ Reply(q)
  /\ UNCHANGED <<renewable, daysLeft, postizKey, postiz, job, jobRan, crowded, mishaps>>

-----------------------------------------------------------------------------
(* handleCallback: a state signed by connect and still valid, a code       *)
(* exchanged for a token (with a refresh token or not), the first page the *)
(* user administers, the upsert.                                           *)
CallbackExchange(q, refresh) ==
  /\ At(q, "idle")
  /\ requests' = [requests EXCEPT ![q].op = "callback", ![q].pc = "organization",
                                  ![q].grant = refresh]
  /\ OnlyRequests

CallbackOrganization(q, p) ==
  /\ At(q, "organization")
  /\ requests' = [requests EXCEPT ![q].pc = "write", ![q].on = p]
  /\ OnlyRequests

Renewed(p, refresh) ==
  /\ status' = [status EXCEPT ![p] = "connected"]
  /\ renewable' = IF refresh THEN renewable \cup {p} ELSE renewable \ {p}
  /\ daysLeft' = [daysLeft EXCEPT ![p] = Lifetime]

CallbackWrite(q) ==
  LET p == requests[q].on IN
  /\ requests[q].op = "callback" /\ At(q, "write")
  /\ Renewed(p, requests[q].grant)
  /\ settledOff' = settledOff \ {p}
  /\ Reply(q)
  /\ UNCHANGED <<postizKey, postiz, job, jobRan, crowded, mishaps>>

-----------------------------------------------------------------------------
(* renewExpiringTokens, once a day.  The first two forms look at tokens     *)
(* that have run out, and at accounts of any status.                       *)
JobStarts(due) ==
  /\ job.pc = "idle" /\ ~jobRan
  /\ jobRan' = TRUE
  /\ job' = IF due = {} THEN JobIdle ELSE [JobIdle EXCEPT !.pc = "next", !.todo = due]
  /\ UNCHANGED <<rows, postizKey, postiz, requests, settledOff, crowded, mishaps>>
JobReadExpired == JobStarts({p \in Page : status[p] = "connected" /\ daysLeft[p] = 0})
JobReadAnyStatus == JobStarts({p \in Page : status[p] # "absent" /\ daysLeft[p] < RenewWindow})
JobRead == JobStarts({p \in Page : status[p] = "connected" /\ daysLeft[p] < RenewWindow})

(* refreshAccessToken reads the row by its id, whatever its status.        *)
RefreshRead(p) ==
  /\ job.pc = "next" /\ p \in job.todo
  /\ job' = [pc |-> IF p \in renewable THEN "ask" ELSE "expire", todo |-> job.todo \ {p}, on |-> p]
  /\ UNCHANGED <<rows, postizKey, postiz, requests, jobRan, settledOff, crowded, mishaps>>

(* LinkedIn renews, or refuses the refresh token.                          *)
RefreshAsk(granted) ==
  /\ job.pc = "ask"
  /\ job' = [job EXCEPT !.pc = IF granted THEN "renew" ELSE "expire"]
  /\ UNCHANGED <<rows, postizKey, postiz, requests, jobRan, settledOff, crowded, mishaps>>

JobGoesOn == IF job.todo = {} THEN JobIdle ELSE [job EXCEPT !.pc = "next", !.on = Nobody]

(* The refresh token of the row read, or a newer one: there is one.        *)
RefreshWrite ==
  /\ job.pc = "renew"
  /\ Renewed(job.on, TRUE)
  /\ job' = JobGoesOn
  /\ UNCHANGED <<postizKey, postiz, requests, jobRan, settledOff, crowded, mishaps>>

ExpireWrite ==
  /\ job.pc = "expire"
  /\ status' = [status EXCEPT ![job.on] = "expired"]
  /\ job' = JobGoesOn
  /\ UNCHANGED <<renewable, daysLeft, postizKey, postiz, requests, jobRan, settledOff, crowded, mishaps>>

-----------------------------------------------------------------------------
(* Postiz: an operator connects, disables and removes accounts there.      *)
PostizConnects(i) ==
  /\ postizKey # 0
  /\ home' = [home EXCEPT ![i] = postizKey]
  /\ enabled' = enabled \cup {i}
  /\ settledOff' = settledOff \ {i}
  /\ UNCHANGED <<rows, postizKey, organizations, requests, job, jobRan, crowded, mishaps>>

PostizDisables(i) ==
  /\ enabled' = enabled \ {i}
  /\ UNCHANGED <<rows, postizKey, organizations, home, requests, job, jobRan, settledOff,
                 crowded, mishaps>>

(* Faults and time.  A request answers within the day, and so does the job.*)
Mishap == mishaps < MaxMishaps /\ mishaps' = mishaps + 1

RequestFails(q) ==
  /\ Mishap
  /\ ~At(q, "idle")
  /\ Reply(q)
  /\ UNCHANGED <<rows, postizKey, postiz, job, jobRan, settledOff, crowded>>

(* The loop catches what a renewal throws.                                 *)
RefreshThrows ==
  /\ Mishap
  /\ job.pc \in {"ask", "renew", "expire"}
  /\ job' = JobGoesOn
  /\ UNCHANGED <<rows, postizKey, postiz, requests, jobRan, settledOff, crowded>>

Crash ==
  /\ Mishap
  /\ requests' = [q \in Request |-> Idle]
  /\ job' = JobIdle
  /\ UNCHANGED <<rows, postizKey, postiz, jobRan, settledOff, crowded>>

MissedRun ==
  /\ Mishap
  /\ ~jobRan /\ job.pc = "idle"
  /\ jobRan' = TRUE
  /\ UNCHANGED <<rows, postizKey, postiz, requests, job, settledOff, crowded>>

DayPasses ==
  /\ jobRan /\ job.pc = "idle" /\ \A q \in Request : At(q, "idle")
  /\ jobRan' = FALSE
  /\ daysLeft' = [p \in Page |-> IF daysLeft[p] = 0 THEN 0 ELSE daysLeft[p] - 1]
  /\ UNCHANGED <<status, renewable, postizKey, postiz, requests, job, settledOff, crowded, mishaps>>

-----------------------------------------------------------------------------
RequestStep(q) ==
  \/ SyncStart(q) \/ ConnectStart(q) \/ KeyRead(q) \/ Provision(q) \/ SaveKey(q)
  \/ ListIntegrations(q) \/ DisconnectInPostiz(q) \/ DisconnectWrite(q)
  \/ CallbackWrite(q) \/ RequestFails(q)
  \/ \E a \in Account : DisconnectRead(q, a)
  \/ \E x \in requests[q].seen : Upsert(q, x)
  \/ \E refresh \in BOOLEAN : CallbackExchange(q, refresh)
  \/ \E p \in Page : CallbackOrganization(q, p)

JobStep ==
  \/ JobRead \/ RefreshWrite \/ ExpireWrite \/ RefreshThrows
  \/ \E p \in Page : RefreshRead(p)
  \/ \E granted \in BOOLEAN : RefreshAsk(granted)

Next ==
  \/ \E q \in Request : RequestStep(q)
  \/ JobStep
  \/ \E i \in Integration : PostizConnects(i) \/ PostizDisables(i)
  \/ Crash \/ MissedRun \/ DayPasses

Spec == Init /\ [][Next]_vars

-----------------------------------------------------------------------------
(* The types of the variables.                                             *)
TypeOK ==
  /\ status \in [Account -> Status]
  /\ renewable \subseteq Page /\ daysLeft \in [Page -> 0..Lifetime]
  /\ postizKey \in 0..organizations /\ organizations \in Nat
  /\ home \in [Integration -> 0..organizations] /\ enabled \subseteq Integration
  /\ requests \in [Request -> RequestState]
  /\ job \in JobState /\ jobRan \in BOOLEAN
  /\ settledOff \subseteq Account /\ crowded \in BOOLEAN /\ mishaps \in Nat

(* A page that says it is connected has a token that still works, as long  *)
(* as fewer things fail than the window has days to try again (spec 029,   *)
(* CA-05).                                                                 *)
ConnectedIsUsable ==
  mishaps < RenewWindow - 1 =>
    \A p \in Page : status[p] = "connected" => daysLeft[p] > 0

(* An account that was disconnected while nobody held an older reading of  *)
(* it stays off until it is connected again: neither the renewal job nor a *)
(* sync brings it back.                                                    *)
DisconnectSticks == \A a \in settledOff : status[a] # "connected"

(* One organization per workspace, unless two requests were the first one  *)
(* or something failed between making it and keeping its key; its key is   *)
(* the one kept or about to be, and no request asks Postiz with another.   *)
OneOrganization ==
  ~crowded /\ mishaps = 0 =>
    /\ organizations <= 1
    /\ \/ postizKey = organizations
       \/ \E q \in Request : At(q, "saveKey") /\ requests[q].key = organizations
    /\ \A q \in Request :
         requests[q].pc \in {"list", "delete"} => requests[q].key = organizations
=============================================================================
