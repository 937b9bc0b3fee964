------------------------ MODULE SocialAccountsProofs ------------------------
(***************************************************************************)
(* Theorems about SocialAccounts, for every set of pages, integrations and *)
(* requests, every lifetime of a token and every window of renewal.        *)
(***************************************************************************)
EXTENDS SocialAccounts, TLAPS

USE SocialAccountsAssumption DEF SocialAccountsAssumption

(* What a request and the job carry from one await to the next.            *)
Carries(q) ==
  LET r == requests[q] IN
  /\ r.key <= organizations
  /\ r.pc \in {"key", "provision", "saveKey"} => r.op \in {"sync", "connect", "disconnect"}
  /\ r.pc = "list" => r.op = "sync"
  /\ r.pc \in {"saveKey", "list", "delete"} => r.key > 0
  /\ r.pc = "delete" => r.op = "disconnect"
  /\ r.op = "disconnect" /\ r.pc # "write" => r.on \in Integration
  /\ r.op = "disconnect" => r.on \in Account
  /\ r.op = "callback" /\ r.pc = "write" => r.on \in Page
  /\ r.op = "callback" => r.pc \in {"organization", "write"}
  /\ r.pc = "organization" => r.op = "callback"
JobFits ==
  /\ job \in JobState
  /\ job.pc = "idle" => job = JobIdle
  /\ job.pc \in {"ask", "renew", "expire"} => job.on \in Page
  /\ job.pc = "next" => job.on = Nobody
TypeInv ==
  /\ TypeOK
  /\ \A q \in Request : Carries(q)
  /\ JobFits

(* An account that was disconnected for good is in nobody's hands, and     *)
(* Postiz does not list it.                                                *)
SettledInv ==
  \A a \in settledOff :
    /\ status[a] # "connected" /\ ~Held(a)
    /\ a \in Integration => home[a] = 0

(* The first organization has its key kept, or on its way.                 *)
KeyInv ==
  ~crowded /\ mishaps = 0 =>
    /\ organizations <= 1
    /\ organizations > 0 => postizKey # 0 \/ \E q \in Request : At(q, "saveKey")

(* Every day of a connected page that was lost to a fault is a fault; one  *)
(* more may be lost until the job of the day is through with it.           *)
InJob(p) == p \in job.todo \/ job.on = p
UsableInv ==
  \A p \in Page : status[p] = "connected" =>
    /\ daysLeft[p] + mishaps >= RenewWindow - 1
    /\ jobRan /\ ~InJob(p) => daysLeft[p] + mishaps >= RenewWindow

-----------------------------------------------------------------------------
(* What a step of a request does to its record, and to no other.           *)
Op == {"none", "sync", "connect", "disconnect", "callback"}
Pc == {"idle", "key", "provision", "saveKey", "list", "upsert", "delete", "write",
       "organization"}
Alone(q) ==
  /\ requests' \in [Request -> RequestState]
  /\ \A x \in Request \ {q} : requests'[x] = requests[x]
Kept(q) == /\ requests'[q].key = requests[q].key /\ requests'[q].seen = requests[q].seen

LEMMA IdleType == Idle \in RequestState
  BY DEF Idle, RequestState

LEMMA GotoFields ==
  ASSUME TypeOK, NEW q \in Request, NEW pc \in Pc, Goto(q, pc)
  PROVE  /\ Alone(q) /\ Kept(q) /\ requests'[q].pc = pc
         /\ requests'[q].op = requests[q].op /\ requests'[q].on = requests[q].on
<1>1. requests[q] \in RequestState /\ requests \in [Request -> RequestState]
  BY DEF TypeOK
<1> DEFINE s == [requests[q] EXCEPT !.pc = pc]
<1>2. /\ s \in RequestState /\ s.pc = pc /\ s.op = requests[q].op /\ s.on = requests[q].on
      /\ s.key = requests[q].key /\ s.seen = requests[q].seen
  BY <1>1 DEF RequestState, Pc
<1>3. requests' = [requests EXCEPT ![q] = s]
  BY DEF Goto
<1> HIDE DEF s
<1> QED
  BY <1>1, <1>2, <1>3 DEF Alone, Kept

LEMMA ReplyFields ==
  ASSUME TypeOK, NEW q \in Request, Reply(q)
  PROVE  Alone(q) /\ requests'[q] = Idle
<1>1. requests \in [Request -> RequestState]
  BY DEF TypeOK
<1> QED
  BY <1>1, IdleType DEF Reply, Alone

LEMMA BeginFields ==
  ASSUME TypeOK, NEW q \in Request, NEW op \in Op, NEW pc \in Pc,
         NEW a \in Account \cup {Nobody}, Begin(q, op, pc, a)
  PROVE  /\ Alone(q) /\ Kept(q) /\ requests'[q].pc = pc
         /\ requests'[q].op = op /\ requests'[q].on = a /\ requests[q].pc = "idle"
<1>1. requests[q] \in RequestState /\ requests \in [Request -> RequestState]
  BY DEF TypeOK
<1> DEFINE s == [requests[q] EXCEPT !.op = op, !.pc = pc, !.on = a]
<1>2. /\ s \in RequestState /\ s.pc = pc /\ s.op = op /\ s.on = a
      /\ s.key = requests[q].key /\ s.seen = requests[q].seen
  BY <1>1 DEF RequestState, Pc, Op
<1>3. requests' = [requests EXCEPT ![q] = s] /\ requests[q].pc = "idle"
  BY DEF Begin, At
<1> HIDE DEF s
<1> QED
  BY <1>1, <1>2, <1>3 DEF Alone, Kept

LEMMA KeyFields ==
  ASSUME TypeOK, NEW q \in Request, NEW key \in Nat, NEW pc \in Pc,
         requests' = [requests EXCEPT ![q].pc = pc, ![q].key = key]
  PROVE  /\ Alone(q) /\ requests'[q].pc = pc
         /\ requests'[q].op = requests[q].op /\ requests'[q].on = requests[q].on
         /\ requests'[q].key = key /\ requests'[q].seen = requests[q].seen
<1>1. requests[q] \in RequestState /\ requests \in [Request -> RequestState]
  BY DEF TypeOK
<1> DEFINE s == [requests[q] EXCEPT !.pc = pc, !.key = key]
<1>2. /\ s \in RequestState /\ s.pc = pc /\ s.op = requests[q].op /\ s.on = requests[q].on
      /\ s.key = key /\ s.seen = requests[q].seen
  BY <1>1 DEF RequestState, Pc
<1>3. requests' = [requests EXCEPT ![q] = s]
  OBVIOUS
<1> HIDE DEF s
<1> QED
  BY <1>1, <1>2, <1>3 DEF Alone

LEMMA HasKeyFields ==
  ASSUME TypeOK, NEW q \in Request, NEW key \in Nat, HasKey(q, key),
         requests[q].op \in {"sync", "connect", "disconnect"}
  PROVE  /\ Alone(q)
         /\ \/ requests'[q] = Idle
            \/ /\ requests'[q].op = requests[q].op /\ requests'[q].on = requests[q].on
               /\ requests'[q].key = key /\ requests'[q].seen = requests[q].seen
               /\ \/ requests[q].op = "sync" /\ requests'[q].pc = "list"
                  \/ requests[q].op = "disconnect" /\ requests'[q].pc = "delete"
<1>1. CASE requests[q].op = "sync"
  <2>1. requests' = [requests EXCEPT ![q].pc = "list", ![q].key = key]
    BY <1>1 DEF HasKey, AfterKey
  <2> QED
    BY <1>1, <2>1, KeyFields DEF Pc
<1>2. CASE requests[q].op = "disconnect"
  <2>1. requests' = [requests EXCEPT ![q].pc = "delete", ![q].key = key]
    BY <1>2 DEF HasKey, AfterKey
  <2> QED
    BY <1>2, <2>1, KeyFields DEF Pc
<1>3. CASE requests[q].op = "connect"
  <2>1. Reply(q)
    BY <1>3 DEF HasKey, AfterKey
  <2> QED
    BY <2>1, ReplyFields
<1> QED
  BY <1>1, <1>2, <1>3

LEMMA SeenFields ==
  ASSUME TypeOK, NEW q \in Request, NEW seen \in SUBSET Listed, NEW pc \in Pc,
         requests' = [requests EXCEPT ![q].pc = pc, ![q].seen = seen]
  PROVE  /\ Alone(q) /\ requests'[q].pc = pc
         /\ requests'[q].op = requests[q].op /\ requests'[q].on = requests[q].on
         /\ requests'[q].key = requests[q].key /\ requests'[q].seen = seen
<1>1. requests[q] \in RequestState /\ requests \in [Request -> RequestState]
  BY DEF TypeOK
<1> DEFINE s == [requests[q] EXCEPT !.pc = pc, !.seen = seen]
<1>2. /\ s \in RequestState /\ s.pc = pc /\ s.op = requests[q].op /\ s.on = requests[q].on
      /\ s.key = requests[q].key /\ s.seen = seen
  BY <1>1 DEF RequestState, Pc
<1>3. requests' = [requests EXCEPT ![q] = s]
  OBVIOUS
<1> HIDE DEF s
<1> QED
  BY <1>1, <1>2, <1>3 DEF Alone

LEMMA LeftFields ==
  ASSUME TypeOK, NEW q \in Request, NEW seen \in SUBSET Listed,
         requests' = [requests EXCEPT ![q].seen = seen]
  PROVE  /\ Alone(q) /\ requests'[q].pc = requests[q].pc
         /\ requests'[q].op = requests[q].op /\ requests'[q].on = requests[q].on
         /\ requests'[q].key = requests[q].key /\ requests'[q].seen = seen
<1>1. requests[q] \in RequestState /\ requests \in [Request -> RequestState]
  BY DEF TypeOK
<1> DEFINE s == [requests[q] EXCEPT !.seen = seen]
<1>2. /\ s \in RequestState /\ s.pc = requests[q].pc /\ s.op = requests[q].op
      /\ s.on = requests[q].on /\ s.key = requests[q].key /\ s.seen = seen
  BY <1>1 DEF RequestState
<1>3. requests' = [requests EXCEPT ![q] = s]
  OBVIOUS
<1> HIDE DEF s
<1> QED
  BY <1>1, <1>2, <1>3 DEF Alone

LEMMA ExchangeFields ==
  ASSUME TypeOK, NEW q \in Request, NEW refresh \in BOOLEAN, CallbackExchange(q, refresh)
  PROVE  /\ Alone(q) /\ Kept(q) /\ requests'[q].pc = "organization"
         /\ requests'[q].op = "callback" /\ requests'[q].on = requests[q].on
         /\ requests[q].pc = "idle"
<1>1. requests[q] \in RequestState /\ requests \in [Request -> RequestState]
  BY DEF TypeOK
<1> DEFINE s == [requests[q] EXCEPT !.op = "callback", !.pc = "organization",
                                   !.grant = refresh]
<1>2. /\ s \in RequestState /\ s.pc = "organization" /\ s.op = "callback"
      /\ s.on = requests[q].on /\ s.key = requests[q].key /\ s.seen = requests[q].seen
  BY <1>1 DEF RequestState
<1>3. requests' = [requests EXCEPT ![q] = s] /\ requests[q].pc = "idle"
  BY DEF CallbackExchange, At
<1> HIDE DEF s
<1> QED
  BY <1>1, <1>2, <1>3 DEF Alone, Kept

LEMMA OrganizationFields ==
  ASSUME TypeInv, NEW q \in Request, NEW p \in Page, CallbackOrganization(q, p)
  PROVE  /\ Alone(q) /\ Kept(q) /\ requests'[q].pc = "write"
         /\ requests'[q].op = "callback" /\ requests'[q].on = p
         /\ requests[q].pc = "organization"
<1>1. requests[q] \in RequestState /\ requests \in [Request -> RequestState]
  BY DEF TypeInv, TypeOK
<1> DEFINE s == [requests[q] EXCEPT !.pc = "write", !.on = p]
<1>2. /\ s \in RequestState /\ s.pc = "write" /\ s.op = requests[q].op
      /\ s.on = p /\ s.key = requests[q].key /\ s.seen = requests[q].seen
  BY <1>1 DEF RequestState, Account
<1>3. requests' = [requests EXCEPT ![q] = s] /\ requests[q].pc = "organization"
  BY DEF CallbackOrganization, At
<1>4. requests[q].op = "callback"
  BY <1>3 DEF TypeInv, Carries
<1> HIDE DEF s
<1> QED
  BY <1>1, <1>2, <1>3, <1>4 DEF Alone, Kept

LEMMA IdleCarries ==
  ASSUME NEW q \in Request, requests'[q] = Idle, organizations' \in Nat
  PROVE  Carries(q)'
  BY DEF Carries, Idle

(* A step of a request: its own record changes, in order, and no other.    *)
LEMMA RequestMoves ==
  ASSUME TypeInv,
         NEW q \in Request, RequestStep(q)
  PROVE  Alone(q) /\ Carries(q)' /\ organizations' \in Nat /\ organizations <= organizations'
<1>0. /\ TypeOK /\ Carries(q) /\ organizations \in Nat /\ postizKey \in Nat
      /\ postizKey <= organizations
  BY DEF TypeInv, TypeOK
<1>1. CASE SyncStart(q)
  <2>1. Begin(q, "sync", "key", Nobody) /\ UNCHANGED organizations
    BY <1>1 DEF SyncStart, Begin, OnlyRequests, postiz
  <2> QED
    BY <2>1, <1>0, BeginFields DEF Op, Pc, Carries, Kept, TypeOK
<1>2. CASE ConnectStart(q)
  <2>1. Begin(q, "connect", "key", Nobody) /\ UNCHANGED organizations
    BY <1>2 DEF ConnectStart, Begin, OnlyRequests, postiz
  <2> QED
    BY <2>1, <1>0, BeginFields DEF Op, Pc, Carries, Kept, TypeOK
<1>3. CASE KeyRead(q)
  <2>1. UNCHANGED <<organizations, postizKey>> /\ requests[q].pc = "key"
    BY <1>3 DEF KeyRead, OnlyRequests, postiz, At
  <2>2. CASE HasKey(q, postizKey) /\ postizKey /= 0
    <3>1. requests[q].op \in {"sync", "connect", "disconnect"}
      BY <2>1, <1>0 DEF Carries
    <3> QED
      BY <2>1, <2>2, <3>1, <1>0, HasKeyFields, IdleCarries DEF Carries, TypeOK
  <2>3. CASE Goto(q, "provision")
    BY <2>1, <2>3, <1>0, GotoFields DEF Carries, Kept, Pc, TypeOK
  <2> QED
    BY <1>3, <2>2, <2>3 DEF KeyRead
<1>4. CASE Provision(q)
  <2>1. /\ organizations' = organizations + 1 /\ requests[q].pc = "provision"
        /\ requests' = [requests EXCEPT ![q].pc = "saveKey", ![q].key = organizations + 1]
    BY <1>4 DEF Provision, At
  <2>2. "saveKey" \in Pc /\ organizations + 1 \in Nat
    BY <1>0 DEF Pc
  <2>3. /\ Alone(q) /\ requests'[q].pc = "saveKey" /\ requests'[q].op = requests[q].op
        /\ requests'[q].on = requests[q].on /\ requests'[q].key = organizations + 1
    BY <2>1, <2>2, <1>0, KeyFields
  <2> QED
    BY <2>1, <2>3, <1>0 DEF Carries
<1>5. CASE SaveKey(q)
  <2>1. /\ UNCHANGED organizations /\ requests[q].pc = "saveKey"
        /\ HasKey(q, requests[q].key) /\ requests[q].key \in Nat
    BY <1>5, <1>0 DEF SaveKey, postiz, At, TypeOK, RequestState
  <2>2. requests[q].op \in {"sync", "connect", "disconnect"} /\ requests[q].key > 0
    BY <2>1, <1>0 DEF Carries
  <2> QED
    BY <2>1, <2>2, <1>0, HasKeyFields, IdleCarries DEF Carries, TypeOK
<1>6. CASE ListIntegrations(q)
  <2>1. UNCHANGED organizations /\ requests[q].pc = "list"
    BY <1>6 DEF ListIntegrations, OnlyRequests, postiz, At
  <2>2. CASE Reply(q)
    BY <2>1, <2>2, <1>0, ReplyFields, IdleCarries DEF TypeOK
  <2> DEFINE listed ==
        {[id |-> i, status |-> IF i \in enabled THEN "connected" ELSE "disconnected"] :
           i \in {j \in Integration : home[j] = requests[q].key}}
  <2>3. listed \in SUBSET Listed /\ "upsert" \in Pc
    BY DEF Listed, Pc
  <2>4. Reply(q) \/ requests' = [requests EXCEPT ![q].pc = "upsert", ![q].seen = listed]
    BY <1>6 DEF ListIntegrations
  <2> HIDE DEF listed
  <2>5. CASE requests' = [requests EXCEPT ![q].pc = "upsert", ![q].seen = listed]
    <3>1. /\ Alone(q) /\ requests'[q].pc = "upsert" /\ requests'[q].op = requests[q].op
          /\ requests'[q].on = requests[q].on /\ requests'[q].key = requests[q].key
      BY <2>3, <2>5, <1>0, SeenFields
    <3> QED
      BY <2>1, <3>1, <1>0 DEF Carries
  <2> QED
    BY <2>2, <2>4, <2>5
<1>7. CASE DisconnectInPostiz(q)
  <2>1. UNCHANGED organizations /\ requests[q].pc = "delete"
    BY <1>7 DEF DisconnectInPostiz, At
  <2>2. CASE Reply(q)
    BY <2>1, <2>2, <1>0, ReplyFields, IdleCarries DEF TypeOK
  <2>3. CASE Goto(q, "write")
    BY <2>1, <2>3, <1>0, GotoFields DEF Carries, Kept, Pc, TypeOK
  <2> QED
    BY <1>7, <2>2, <2>3 DEF DisconnectInPostiz
<1>8. CASE DisconnectWrite(q)
  <2>1. UNCHANGED organizations /\ Reply(q)
    BY <1>8 DEF DisconnectWrite, postiz
  <2> QED
    BY <2>1, <1>0, ReplyFields, IdleCarries DEF TypeOK
<1>9. CASE CallbackWrite(q)
  <2>1. UNCHANGED organizations /\ Reply(q)
    BY <1>9 DEF CallbackWrite, postiz
  <2> QED
    BY <2>1, <1>0, ReplyFields, IdleCarries DEF TypeOK
<1>10. CASE RequestFails(q)
  <2>1. UNCHANGED organizations /\ Reply(q)
    BY <1>10 DEF RequestFails, postiz
  <2> QED
    BY <2>1, <1>0, ReplyFields, IdleCarries DEF TypeOK
<1>11. ASSUME NEW a \in Account, DisconnectRead(q, a)
      PROVE  Alone(q) /\ Carries(q)' /\ organizations' \in Nat /\ organizations <= organizations'
  <2>1. UNCHANGED organizations
    BY <1>11 DEF DisconnectRead, Begin, OnlyRequests, postiz
  <2>2. CASE a \in Page
    <3>1. Begin(q, "disconnect", "write", a)
      BY <1>11, <2>2 DEF DisconnectRead
    <3> QED
      BY <2>1, <2>2, <3>1, <1>0, BeginFields DEF Op, Pc, Carries, Kept, TypeOK
  <2>3. CASE a \in Integration
    <3>1. Begin(q, "disconnect", "key", a)
      BY <1>11, <2>3 DEF DisconnectRead
    <3> QED
      BY <2>1, <2>3, <3>1, <1>0, BeginFields DEF Op, Pc, Carries, Kept, TypeOK
  <2> QED
    BY <2>2, <2>3 DEF Account
<1>12. ASSUME NEW x \in requests[q].seen, Upsert(q, x)
      PROVE  Alone(q) /\ Carries(q)' /\ organizations' \in Nat /\ organizations <= organizations'
  <2>1. UNCHANGED organizations /\ requests[q].pc = "upsert"
    BY <1>12 DEF Upsert, postiz, At
  <2>2. CASE Reply(q)
    BY <2>1, <2>2, <1>0, ReplyFields, IdleCarries DEF TypeOK
  <2>3. CASE requests' = [requests EXCEPT ![q].seen = requests[q].seen \ {x}]
    <3>1. requests[q].seen \ {x} \in SUBSET Listed
      BY <1>0 DEF TypeOK, RequestState, Pc
    <3>2. /\ Alone(q) /\ requests'[q].pc = requests[q].pc
          /\ requests'[q].op = requests[q].op /\ requests'[q].on = requests[q].on
          /\ requests'[q].key = requests[q].key
      BY <2>3, <3>1, <1>0, LeftFields
    <3> QED
      BY <2>1, <3>2, <1>0 DEF Carries
  <2> QED
    BY <1>12, <2>1, <2>2, <2>3 DEF Upsert
<1>13. ASSUME NEW refresh \in BOOLEAN, CallbackExchange(q, refresh)
      PROVE  Alone(q) /\ Carries(q)' /\ organizations' \in Nat /\ organizations <= organizations'
  <2>1. UNCHANGED organizations
    BY <1>13 DEF CallbackExchange, OnlyRequests, postiz
  <2> QED
    BY <1>13, <2>1, <1>0, ExchangeFields DEF Carries, Kept, TypeOK
<1>14. ASSUME NEW p \in Page, CallbackOrganization(q, p)
      PROVE  Alone(q) /\ Carries(q)' /\ organizations' \in Nat /\ organizations <= organizations'
  <2>1. UNCHANGED organizations
    BY <1>14 DEF CallbackOrganization, OnlyRequests, postiz
  <2> QED
    BY <1>14, <2>1, <1>0, OrganizationFields DEF Carries, Kept, TypeOK
<1> QED
  BY <1>1, <1>2, <1>3, <1>4, <1>5, <1>6, <1>7, <1>8, <1>9, <1>10, <1>11, <1>12,
     <1>13, <1>14
    DEF RequestStep

LEMMA RecordFields ==
  ASSUME TypeOK, NEW q \in Request
  PROVE  /\ requests[q].key \in Nat /\ requests[q].seen \subseteq Listed
         /\ requests[q].on \in Account \cup {Nobody}
  BY DEF TypeOK, RequestState

LEMMA OnlyTypes ==
  ASSUME TypeOK, OnlyRequests, requests' \in [Request -> RequestState]
  PROVE  TypeOK'
  BY DEF TypeOK, OnlyRequests, rows, postiz

LEMMA RenewedTypes ==
  ASSUME TypeOK, NEW p \in Page, NEW refresh, Renewed(p, refresh)
  PROVE  /\ status' \in [Account -> Status] /\ renewable' \subseteq Page
         /\ daysLeft' \in [Page -> 0..Lifetime]
  BY DEF TypeOK, Renewed, Status, Account

LEMMA RequestTypes ==
  ASSUME TypeInv,
         NEW q \in Request, RequestStep(q)
  PROVE  TypeOK'
<1>0. TypeOK /\ Carries(q) /\ requests' \in [Request -> RequestState]
  BY RequestMoves DEF TypeInv, Alone
<1>1. CASE SyncStart(q)
  <2>1. OnlyRequests
    BY <1>1 DEF SyncStart, Begin
  <2> QED
    BY <2>1, <1>0, OnlyTypes
<1>2. CASE ConnectStart(q)
  <2>1. OnlyRequests
    BY <1>2 DEF ConnectStart, Begin
  <2> QED
    BY <2>1, <1>0, OnlyTypes
<1>3. CASE KeyRead(q)
  <2>1. OnlyRequests
    BY <1>3 DEF KeyRead
  <2> QED
    BY <2>1, <1>0, OnlyTypes
<1>4. CASE Provision(q)
  BY <1>4, <1>0 DEF Provision, TypeOK, rows
<1>5. CASE SaveKey(q)
  <2>1. requests[q].key \in Nat /\ requests[q].key <= organizations
    BY <1>0, RecordFields DEF Carries
  <2> QED
    BY <1>5, <2>1, <1>0 DEF SaveKey, TypeOK, rows, postiz
<1>6. CASE ListIntegrations(q)
  <2>1. OnlyRequests
    BY <1>6 DEF ListIntegrations
  <2> QED
    BY <2>1, <1>0, OnlyTypes
<1>7. CASE DisconnectInPostiz(q)
  <2>1. home' \in [Integration -> 0..organizations]
    BY <1>7, <1>0 DEF DisconnectInPostiz, TypeOK
  <2> QED
    BY <1>7, <2>1, <1>0 DEF DisconnectInPostiz, TypeOK, rows
<1>8. CASE DisconnectWrite(q)
  <2>1. requests[q].on \in Account
    BY <1>8, <1>0 DEF DisconnectWrite, Carries
  <2>2. status' \in [Account -> Status] /\ settledOff' \subseteq Account
    BY <1>8, <2>1, <1>0 DEF DisconnectWrite, TypeOK, Status
  <2> QED
    BY <1>8, <2>2, <1>0 DEF DisconnectWrite, TypeOK, postiz
<1>9. CASE CallbackWrite(q)
  <2>1. requests[q].on \in Page
    BY <1>9, <1>0 DEF CallbackWrite, Carries, At
  <2>2. /\ status' \in [Account -> Status] /\ renewable' \subseteq Page
        /\ daysLeft' \in [Page -> 0..Lifetime]
    BY <1>9, <2>1, <1>0, RenewedTypes DEF CallbackWrite
  <2> QED
    BY <1>9, <2>2, <1>0 DEF CallbackWrite, TypeOK, postiz
<1>10. CASE RequestFails(q)
  BY <1>10, <1>0 DEF RequestFails, Mishap, TypeOK, rows, postiz
<1>11. ASSUME NEW a \in Account, DisconnectRead(q, a)
      PROVE  TypeOK'
  <2>1. OnlyRequests
    BY <1>11 DEF DisconnectRead, Begin
  <2> QED
    BY <2>1, <1>0, OnlyTypes
<1>12. ASSUME NEW x \in requests[q].seen, Upsert(q, x)
      PROVE  TypeOK'
  <2>1. x \in Listed
    BY <1>0, RecordFields
  <2>2. status' \in [Account -> Status]
    BY <1>12, <2>1, <1>0 DEF Upsert, TypeOK, Listed, Status
  <2> QED
    BY <1>12, <2>2, <1>0 DEF Upsert, TypeOK, postiz
<1>13. ASSUME NEW refresh \in BOOLEAN, CallbackExchange(q, refresh)
      PROVE  TypeOK'
  <2>1. OnlyRequests
    BY <1>13 DEF CallbackExchange
  <2> QED
    BY <2>1, <1>0, OnlyTypes
<1>14. ASSUME NEW p \in Page, CallbackOrganization(q, p)
      PROVE  TypeOK'
  <2>1. OnlyRequests
    BY <1>14 DEF CallbackOrganization
  <2> QED
    BY <2>1, <1>0, OnlyTypes
<1> QED
  BY <1>1, <1>2, <1>3, <1>4, <1>5, <1>6, <1>7, <1>8, <1>9, <1>10, <1>11, <1>12,
     <1>13, <1>14
    DEF RequestStep

LEMMA SameCarries ==
  ASSUME TypeInv, UNCHANGED <<requests, organizations>>
  PROVE  \A r \in Request : Carries(r)'
  BY DEF TypeInv, Carries

LEMMA GoesOnFits ==
  ASSUME JobFits, job' = JobGoesOn PROVE JobFits'
<1>1. CASE job.todo = {}
  BY <1>1 DEF JobFits, JobGoesOn, JobState, JobIdle
<1>2. CASE ~(job.todo = {})
  <2> DEFINE s == [job EXCEPT !.pc = "next", !.on = Nobody]
  <2>1. s \in JobState /\ s.pc = "next" /\ s.on = Nobody
    BY DEF JobFits, JobState
  <2>2. job' = s
    BY <1>2 DEF JobGoesOn
  <2> HIDE DEF s
  <2> QED
    BY <2>1, <2>2 DEF JobFits
<1> QED
  BY <1>1, <1>2

LEMMA TypeStep ==
  ASSUME TypeInv, [Next]_vars
  PROVE  TypeInv'
<1>0. TypeOK /\ JobFits /\ \A r \in Request : Carries(r)
  BY DEF TypeInv
<1>1. ASSUME NEW q \in Request, RequestStep(q)
      PROVE  TypeInv'
  <2>1. TypeOK' /\ Alone(q) /\ Carries(q)' /\ organizations' \in Nat
        /\ organizations <= organizations'
    BY <1>1, RequestTypes, RequestMoves
  <2>2. \A r \in Request : Carries(r)'
    <3> TAKE r \in Request
    <3>1. CASE r = q
      BY <2>1, <3>1
    <3>2. CASE ~(r = q)
      <4>1. requests'[r] = requests[r] /\ requests[r].key \in Nat /\ Carries(r)
        BY <2>1, <3>2, <1>0, RecordFields DEF Alone
      <4>2. Carries(r)' = (Carries(r) /\ requests[r].key <= organizations')
        BY <2>1, <4>1, <1>0 DEF Carries
      <4> QED
        BY <2>1, <4>1, <4>2, <1>0 DEF Carries, TypeOK
    <3> QED
      BY <3>1, <3>2
  <2>3. job' = job
    BY <1>1
      DEF RequestStep, SyncStart, ConnectStart, KeyRead, Provision, SaveKey,
          ListIntegrations,
             DisconnectInPostiz, DisconnectWrite, CallbackWrite, RequestFails, DisconnectRead,
             Upsert, CallbackExchange, CallbackOrganization, Begin, OnlyRequests
  <2> QED
    BY <2>1, <2>2, <2>3, <1>0 DEF TypeInv, JobFits
<1>2. CASE JobRead
  <2>1. JobFits'
    <3> DEFINE due == {p \in Page : status[p] = "connected" /\ daysLeft[p] < RenewWindow}
    <3>1. due \subseteq Page
      OBVIOUS
    <3>2. job' = IF due = {} THEN JobIdle ELSE [JobIdle EXCEPT !.pc = "next", !.todo = due]
      BY <1>2 DEF JobRead, JobStarts
    <3> HIDE DEF due
    <3> QED
      BY <3>1, <3>2 DEF JobFits, JobState, JobIdle
  <2>2. TypeOK'
    BY <1>2, <2>1, <1>0 DEF JobRead, JobStarts, JobFits, TypeOK, rows, postiz
  <2> QED
    BY <1>2, <2>1, <2>2, <1>0, SameCarries
      DEF JobRead, JobStarts, TypeInv, postiz
<1>3. CASE RefreshWrite
  <2>1. JobFits'
    BY <1>3, <1>0, GoesOnFits DEF RefreshWrite
  <2>2. TypeOK'
    <3>1. job.on \in Page
      BY <1>3, <1>0 DEF RefreshWrite, JobFits
    <3>2. /\ status' \in [Account -> Status] /\ renewable' \subseteq Page
          /\ daysLeft' \in [Page -> 0..Lifetime]
      BY <1>3, <3>1, <1>0, RenewedTypes DEF RefreshWrite
    <3> QED
      BY <1>3, <2>1, <3>2, <1>0 DEF RefreshWrite, JobFits, TypeOK, postiz
  <2> QED
    BY <1>3, <2>1, <2>2, <1>0, SameCarries DEF RefreshWrite, TypeInv, postiz
<1>4. CASE ExpireWrite
  <2>1. JobFits'
    BY <1>4, <1>0, GoesOnFits DEF ExpireWrite
  <2>2. TypeOK'
    <3>1. status' \in [Account -> Status]
      BY <1>4, <1>0 DEF ExpireWrite, JobFits, TypeOK, Status, Account
    <3> QED
      BY <1>4, <2>1, <3>1, <1>0 DEF ExpireWrite, JobFits, TypeOK, postiz
  <2> QED
    BY <1>4, <2>1, <2>2, <1>0, SameCarries DEF ExpireWrite, TypeInv, postiz
<1>5. CASE RefreshThrows
  <2>1. JobFits'
    BY <1>5, <1>0, GoesOnFits DEF RefreshThrows
  <2>2. TypeOK'
    BY <1>5, <2>1, <1>0 DEF RefreshThrows, Mishap, JobFits, TypeOK, rows, postiz
  <2> QED
    BY <1>5, <2>1, <2>2, <1>0, SameCarries DEF RefreshThrows, TypeInv, postiz
<1>6. ASSUME NEW p \in Page, RefreshRead(p)
      PROVE  TypeInv'
  <2>1. JobFits'
    BY <1>6, <1>0 DEF RefreshRead, JobFits, JobState, JobIdle
  <2>2. TypeOK'
    BY <1>6, <2>1, <1>0 DEF RefreshRead, JobFits, TypeOK, rows, postiz
  <2> QED
    BY <1>6, <2>1, <2>2, <1>0, SameCarries DEF RefreshRead, TypeInv, postiz
<1>7. ASSUME NEW granted \in BOOLEAN, RefreshAsk(granted)
      PROVE  TypeInv'
  <2>1. JobFits'
    BY <1>7, <1>0 DEF RefreshAsk, JobFits, JobState, JobIdle
  <2>2. TypeOK'
    BY <1>7, <2>1, <1>0 DEF RefreshAsk, JobFits, TypeOK, rows, postiz
  <2> QED
    BY <1>7, <2>1, <2>2, <1>0, SameCarries DEF RefreshAsk, TypeInv, postiz
<1>8. ASSUME NEW i \in Integration, PostizConnects(i)
      PROVE  TypeInv'
  <2>1. home' \in [Integration -> 0..organizations]
    BY <1>8, <1>0 DEF PostizConnects, TypeOK
  <2>2. TypeOK' /\ job' = job
    BY <1>8, <1>0, <2>1 DEF PostizConnects, Mishap, TypeOK, rows, postiz
  <2> QED
    BY <1>8, <2>2, <1>0, SameCarries
      DEF PostizConnects, TypeInv, JobFits, postiz
<1>9. ASSUME NEW i \in Integration, PostizDisables(i)
      PROVE  TypeInv'
  <2>2. TypeOK' /\ job' = job
    BY <1>9, <1>0 DEF PostizDisables, Mishap, TypeOK, rows, postiz
  <2> QED
    BY <1>9, <2>2, <1>0, SameCarries
      DEF PostizDisables, TypeInv, JobFits, postiz
<1>10. CASE Crash
  <2>1. JobFits' /\ requests' \in [Request -> RequestState]
    BY <1>10, IdleType DEF Crash, JobFits, JobState, JobIdle
  <2>2. TypeOK'
    BY <1>10, <2>1, <1>0 DEF Crash, Mishap, JobFits, TypeOK, rows, postiz
  <2>3. \A r \in Request : Carries(r)'
    <3> TAKE r \in Request
    <3>1. requests'[r] = Idle /\ organizations' \in Nat
      BY <1>10, <1>0 DEF Crash, postiz, TypeOK
    <3> QED
      BY <3>1, IdleCarries
  <2> QED
    BY <2>1, <2>2, <2>3 DEF TypeInv
<1>11. CASE MissedRun
  <2>2. TypeOK' /\ job' = job
    BY <1>11, <1>0 DEF MissedRun, Mishap, TypeOK, rows, postiz
  <2> QED
    BY <1>11, <2>2, <1>0, SameCarries DEF MissedRun, TypeInv, JobFits, postiz
<1>12. CASE DayPasses
  <2>1. daysLeft' \in [Page -> 0..Lifetime]
    <3>1. \A p \in Page : daysLeft[p] \in 0..Lifetime
      BY <1>0 DEF TypeOK
    <3> QED
      BY <1>12, <3>1 DEF DayPasses
  <2>2. TypeOK' /\ job' = job
    BY <1>12, <1>0, <2>1 DEF DayPasses, Mishap, TypeOK, rows, postiz
  <2> QED
    BY <1>12, <2>2, <1>0, SameCarries DEF DayPasses, TypeInv, JobFits, postiz
<1>13. CASE UNCHANGED vars
  BY <1>13 DEF vars, rows, postiz, TypeInv, TypeOK, JobFits, Carries
<1> QED
  BY <1>1, <1>2, <1>3, <1>4, <1>5, <1>6, <1>7, <1>8, <1>9, <1>10, <1>11,
     <1>12, <1>13
  DEF Next, JobStep

(* A step takes no new hold of a: Held(a)' only if Held(a).                 *)
LEMMA NothingTaken ==
  ASSUME TypeInv, NEW a, NEW q \in Request, Alone(q),
         requests'[q].seen \subseteq requests[q].seen, UNCHANGED job, Held(a)'
  PROVE  Held(a)
<1>1. ASSUME NEW r \in Request, NEW x \in Listed, x.id = a, x \in requests'[r].seen
      PROVE  x \in requests[r].seen
  BY <1>1 DEF Alone
<1> QED
  BY <1>1 DEF Held

(* Nothing that SettledInv speaks of gets worse.                           *)
LEMMA StaysSettled ==
  ASSUME SettledInv, settledOff' \subseteq settledOff,
         \A a \in settledOff' :
           /\ status'[a] = "connected" => status[a] = "connected"
           /\ Held(a)' => Held(a)
           /\ a \in Integration /\ home[a] = 0 => home'[a] = 0
  PROVE  SettledInv'
<1> SUFFICES ASSUME NEW a \in settledOff'
             PROVE  /\ status'[a] # "connected" /\ ~Held(a)'
                    /\ a \in Integration => home'[a] = 0
  BY DEF SettledInv
<1>1. status[a] # "connected" /\ ~Held(a) /\ (a \in Integration => home[a] = 0)
  BY DEF SettledInv
<1> QED
  BY <1>1

LEMMA NoneSeen ==
  ASSUME NEW q \in Request, requests'[q] = Idle
  PROVE  requests'[q].seen \subseteq requests[q].seen
  BY DEF Idle

LEMMA RequestsSettle ==
  ASSUME TypeInv, SettledInv,
         NEW q \in Request, RequestStep(q)
  PROVE  SettledInv'
<1>0. TypeInv /\ SettledInv /\ TypeOK /\ Carries(q) /\ Alone(q)
  BY RequestMoves DEF TypeInv
<1>1. CASE SyncStart(q)
  <2>1. UNCHANGED <<status, settledOff, home, job>>
    BY <1>1 DEF SyncStart, OnlyRequests, rows, postiz, Begin
  <2>2. requests'[q].seen \subseteq requests[q].seen
    <3>1. Begin(q, "sync", "key", Nobody)
      BY <1>1 DEF SyncStart
    <3> QED
      BY <3>1, <1>0, BeginFields DEF Kept, Op, Pc
  <2> QED
    BY <2>1, <2>2, <1>0, NothingTaken, StaysSettled
<1>2. CASE ConnectStart(q)
  <2>1. UNCHANGED <<status, settledOff, home, job>>
    BY <1>2 DEF ConnectStart, OnlyRequests, rows, postiz, Begin
  <2>2. requests'[q].seen \subseteq requests[q].seen
    <3>1. Begin(q, "connect", "key", Nobody)
      BY <1>2 DEF ConnectStart
    <3> QED
      BY <3>1, <1>0, BeginFields DEF Kept, Op, Pc
  <2> QED
    BY <2>1, <2>2, <1>0, NothingTaken, StaysSettled
<1>3. CASE KeyRead(q)
  <2>1. UNCHANGED <<status, settledOff, home, job>>
    BY <1>3 DEF KeyRead, OnlyRequests, rows, postiz
  <2>2. requests'[q].seen \subseteq requests[q].seen
    <3>1. CASE HasKey(q, postizKey)
      <4>1. requests[q].op \in {"sync", "connect", "disconnect"} /\ postizKey \in Nat
        BY <1>3, <1>0 DEF KeyRead, At, Carries, TypeOK
      <4> QED
        BY <3>1, <4>1, <1>0, HasKeyFields, NoneSeen
    <3>2. CASE Goto(q, "provision")
      BY <3>2, <1>0, GotoFields DEF Kept, Pc
    <3> QED
      BY <1>3, <3>1, <3>2 DEF KeyRead
  <2> QED
    BY <2>1, <2>2, <1>0, NothingTaken, StaysSettled
<1>4. CASE Provision(q)
  <2>1. UNCHANGED <<status, settledOff, home, job>>
    BY <1>4 DEF Provision, OnlyRequests, rows, postiz
  <2>2. requests'[q].seen \subseteq requests[q].seen
    <3>1. requests' = [requests EXCEPT ![q].pc = "saveKey", ![q].key = organizations + 1]
      BY <1>4 DEF Provision
    <3>2. "saveKey" \in Pc /\ organizations + 1 \in Nat
      BY <1>0 DEF Pc, TypeOK
    <3> QED
      BY <3>1, <3>2, <1>0, KeyFields
  <2> QED
    BY <2>1, <2>2, <1>0, NothingTaken, StaysSettled
<1>5. CASE SaveKey(q)
  <2>1. UNCHANGED <<status, settledOff, home, job>>
    BY <1>5 DEF SaveKey, OnlyRequests, rows, postiz
  <2>2. requests'[q].seen \subseteq requests[q].seen
    <3>1. requests[q].op \in {"sync", "connect", "disconnect"} /\ requests[q].key \in Nat
      BY <1>5, <1>0, RecordFields DEF SaveKey, At, Carries
    <3> QED
      BY <1>5, <3>1, <1>0, HasKeyFields, NoneSeen DEF SaveKey
  <2> QED
    BY <2>1, <2>2, <1>0, NothingTaken, StaysSettled
<1>6. CASE ListIntegrations(q)
  <2> DEFINE listed ==
        {[id |-> i, status |-> IF i \in enabled THEN "connected" ELSE "disconnected"] :
           i \in {j \in Integration : home[j] = requests[q].key}}
  <2>1. UNCHANGED <<status, settledOff, home, job>>
    BY <1>6 DEF ListIntegrations, OnlyRequests, rows, postiz
  <2>2. Reply(q) \/ requests' = [requests EXCEPT ![q].pc = "upsert", ![q].seen = listed]
    BY <1>6 DEF ListIntegrations
  <2>3. listed \in SUBSET Listed /\ "upsert" \in Pc
    BY DEF Listed, Pc
  <2>4. requests[q].key > 0
    BY <1>6, <1>0 DEF ListIntegrations, At, Carries
  <2>5. ASSUME NEW a \in settledOff, NEW x \in listed PROVE ~(x.id = a)
    <3>1. x.id \in Integration /\ home[x.id] = requests[q].key
      OBVIOUS
    <3> QED
      BY <3>1, <2>4, <1>0 DEF SettledInv
  <2>6. CASE Reply(q)
    BY <2>1, <2>6, <1>0, ReplyFields, NoneSeen, NothingTaken, StaysSettled
  <2> HIDE DEF listed
  <2>7. CASE requests' = [requests EXCEPT ![q].pc = "upsert", ![q].seen = listed]
    <3>1. Alone(q) /\ requests'[q].seen = listed
      BY <2>3, <2>7, <1>0, SeenFields
    <3>2. ASSUME NEW a \in settledOff, Held(a)' PROVE Held(a)
      <4>1. ASSUME NEW r \in Request, NEW x \in Listed, x.id = a, x \in requests'[r].seen
            PROVE  x \in requests[r].seen
        <5>1. ~(r = q)
          BY <4>1, <3>1, <2>5
        <5> QED
          BY <4>1, <5>1, <3>1 DEF Alone
      <4> QED
        BY <3>2, <4>1, <2>1 DEF Held
    <3> QED
      BY <2>1, <3>2, <1>0, StaysSettled
  <2> QED
    BY <2>2, <2>6, <2>7
<1>7. CASE DisconnectInPostiz(q)
  <2>1. UNCHANGED <<status, settledOff, job>>
    BY <1>7 DEF DisconnectInPostiz, rows
  <2>2. \A a \in Integration : home[a] = 0 => home'[a] = 0
    BY <1>7, <1>0 DEF DisconnectInPostiz, TypeOK
  <2>3. requests'[q].seen \subseteq requests[q].seen
    BY <1>7, <1>0, ReplyFields, NoneSeen, GotoFields
      DEF DisconnectInPostiz, Kept, Pc
  <2> QED
    BY <2>1, <2>2, <2>3, <1>0, NothingTaken, StaysSettled
<1>8. CASE DisconnectWrite(q)
  <2> DEFINE a == requests[q].on
  <2>1. a \in Account /\ Reply(q) /\ UNCHANGED <<home, job>>
    BY <1>8, <1>0 DEF DisconnectWrite, Carries, postiz
  <2>2. status' = [status EXCEPT ![a] = "disconnected"]
    BY <1>8 DEF DisconnectWrite
  <2>3. \/ settledOff' = settledOff
        \/ settledOff' = settledOff \cup {a} /\ ~Held(a) /\ (a \in Integration => home[a] = 0)
    BY <1>8 DEF DisconnectWrite
  <2>4. requests'[q].seen \subseteq requests[q].seen
    BY <2>1, <1>0, ReplyFields, NoneSeen
  <2> HIDE DEF a
  <2>5. \A b \in Account : status'[b] = "connected" => status[b] = "connected"
    BY <2>2, <2>1, <1>0 DEF TypeOK
  <2>6. \A b : Held(b)' => Held(b)
    BY <2>1, <2>4, <1>0, NothingTaken
  <2>7. status'[a] = "disconnected" /\ settledOff \subseteq Account
    BY <2>2, <2>1, <1>0 DEF TypeOK
  <2> QED
    BY <2>1, <2>3, <2>5, <2>6, <2>7, <1>0 DEF SettledInv
<1>9. CASE CallbackWrite(q)
  <2> DEFINE p == requests[q].on
  <2>1. p \in Page /\ Reply(q) /\ UNCHANGED <<home, job>>
    BY <1>9, <1>0 DEF CallbackWrite, Carries, At, postiz
  <2>2. status' = [status EXCEPT ![p] = "connected"] /\ settledOff' = settledOff \ {p}
    BY <1>9 DEF CallbackWrite, Renewed
  <2>3. requests'[q].seen \subseteq requests[q].seen
    BY <2>1, <1>0, ReplyFields, NoneSeen
  <2> HIDE DEF p
  <2>4. \A b \in settledOff' : status'[b] = status[b]
    BY <2>2, <1>0 DEF TypeOK
  <2> QED
    BY <2>1, <2>2, <2>3, <2>4, <1>0, NothingTaken, StaysSettled
<1>10. CASE RequestFails(q)
  <2>1. UNCHANGED <<status, settledOff, home, job>>
    BY <1>10 DEF RequestFails, OnlyRequests, rows, postiz
  <2>2. requests'[q].seen \subseteq requests[q].seen
    BY <1>10, <1>0, ReplyFields, NoneSeen DEF RequestFails
  <2> QED
    BY <2>1, <2>2, <1>0, NothingTaken, StaysSettled
<1>11. ASSUME NEW a \in Account, DisconnectRead(q, a)
      PROVE  SettledInv'
  <2>1. UNCHANGED <<status, settledOff, home, job>>
    BY <1>11 DEF DisconnectRead, OnlyRequests, rows, postiz, Begin
  <2>2. requests'[q].seen \subseteq requests[q].seen
    <3>1. \E pc \in Pc : Begin(q, "disconnect", pc, a)
      BY <1>11 DEF DisconnectRead, Pc
    <3> QED
      BY <3>1, <1>0, BeginFields DEF Kept, Op
  <2> QED
    BY <2>1, <2>2, <1>0, NothingTaken, StaysSettled
<1>12. ASSUME NEW x \in requests[q].seen, Upsert(q, x)
      PROVE  SettledInv'
  <2>1. x \in Listed /\ UNCHANGED <<settledOff, home, job>>
    BY <1>12, <1>0, RecordFields DEF Upsert, postiz
  <2>2. status' = [status EXCEPT ![x.id] = x.status]
    BY <1>12 DEF Upsert
  <2>3. Held(x.id)
    BY <2>1 DEF Held
  <2>4. \A b \in settledOff : status'[b] = status[b]
    BY <2>2, <2>3, <1>0 DEF TypeOK, SettledInv
  <2>5. requests'[q].seen \subseteq requests[q].seen
    <3>1. CASE Reply(q)
      BY <3>1, <1>0, ReplyFields, NoneSeen
    <3>2. CASE requests' = [requests EXCEPT ![q].seen = requests[q].seen \ {x}]
      <4>1. requests[q].seen \ {x} \in SUBSET Listed
        BY <1>0, RecordFields
      <4> QED
        BY <3>2, <4>1, <1>0, LeftFields
    <3> QED
      BY <1>12, <3>1, <3>2 DEF Upsert
  <2> QED
    BY <2>1, <2>4, <2>5, <1>0, NothingTaken, StaysSettled
<1>13. ASSUME NEW refresh \in BOOLEAN, CallbackExchange(q, refresh)
      PROVE  SettledInv'
  <2>1. UNCHANGED <<status, settledOff, home, job>>
    BY <1>13 DEF CallbackExchange, OnlyRequests, rows, postiz
  <2>2. requests'[q].seen \subseteq requests[q].seen
    BY <1>13, <1>0, ExchangeFields DEF Kept
  <2> QED
    BY <2>1, <2>2, <1>0, NothingTaken, StaysSettled
<1>14. ASSUME NEW p \in Page, CallbackOrganization(q, p)
      PROVE  SettledInv'
  <2>1. UNCHANGED <<status, settledOff, home, job>>
    BY <1>14 DEF CallbackOrganization, OnlyRequests, rows, postiz
  <2>2. requests'[q].seen \subseteq requests[q].seen
    BY <1>14, <1>0, OrganizationFields DEF Kept
  <2> QED
    BY <2>1, <2>2, <1>0, NothingTaken, StaysSettled
<1> QED
  BY <1>1, <1>2, <1>3, <1>4, <1>5, <1>6, <1>7, <1>8, <1>9, <1>10, <1>11, <1>12,
     <1>13, <1>14
    DEF RequestStep

LEMMA GoesOnHolds ==
  ASSUME TypeInv, UNCHANGED requests, job' = JobGoesOn, NEW a \in settledOff, Held(a)'
  PROVE  Held(a)
<1>1. (job'.todo = job.todo \/ job'.todo = {}) /\ job'.on = Nobody
  BY DEF JobGoesOn, JobIdle, TypeInv, JobFits, JobState
<1> QED
  BY <1>1 DEF Held, TypeInv, TypeOK

LEMMA SettledStep ==
  ASSUME TypeInv, SettledInv, [Next]_vars
  PROVE  SettledInv'
<1>0. TypeInv /\ SettledInv /\ TypeOK /\ JobFits
  BY DEF TypeInv
<1>1. ASSUME NEW q \in Request, RequestStep(q)
      PROVE  SettledInv'
  BY <1>1, RequestsSettle
<1>2. CASE JobRead
  <2> DEFINE due == {p \in Page : status[p] = "connected" /\ daysLeft[p] < RenewWindow}
  <2>1. UNCHANGED <<status, settledOff, home, requests>>
    BY <1>2 DEF JobRead, JobStarts, rows, postiz
  <2>2. job' = IF due = {} THEN JobIdle ELSE [JobIdle EXCEPT !.pc = "next", !.todo = due]
    BY <1>2 DEF JobRead, JobStarts
  <2>3. \A a \in settledOff : a \notin due
    BY <1>0 DEF SettledInv
  <2> HIDE DEF due
  <2>4. job'.on = Nobody /\ (job'.todo = {} \/ job'.todo = due)
    BY <2>2 DEF JobIdle
  <2>5. \A a \in settledOff : Held(a)' => Held(a)
    BY <2>1, <2>3, <2>4, <1>0 DEF Held, TypeOK
  <2> QED
    BY <2>1, <2>5, <1>0, StaysSettled
<1>3. CASE RefreshWrite
  <2>1. UNCHANGED <<settledOff, home, requests>>
    BY <1>3 DEF RefreshWrite, rows, postiz
  <2>2. \A a \in settledOff : Held(a)' => Held(a)
    BY <1>3, <2>1, <1>0, GoesOnHolds DEF RefreshWrite
  <2>3. \A a \in settledOff : status'[a] = "connected" => status[a] = "connected"
    <3>1. Held(job.on) /\ status' = [status EXCEPT ![job.on] = "connected"]
      BY <1>3 DEF Held, RefreshWrite, Renewed
    <3> QED
      BY <3>1, <1>0 DEF SettledInv, TypeOK
  <2> QED
    BY <2>1, <2>2, <2>3, <1>0, StaysSettled
<1>4. CASE ExpireWrite
  <2>1. UNCHANGED <<settledOff, home, requests>>
    BY <1>4 DEF ExpireWrite, rows, postiz
  <2>2. \A a \in settledOff : Held(a)' => Held(a)
    BY <1>4, <2>1, <1>0, GoesOnHolds DEF ExpireWrite
  <2>3. \A a \in settledOff : status'[a] = "connected" => status[a] = "connected"
    BY <1>4, <1>0 DEF ExpireWrite, TypeOK
  <2> QED
    BY <2>1, <2>2, <2>3, <1>0, StaysSettled
<1>5. CASE RefreshThrows
  <2>1. UNCHANGED <<settledOff, home, requests>>
    BY <1>5 DEF RefreshThrows, rows, postiz
  <2>2. \A a \in settledOff : Held(a)' => Held(a)
    BY <1>5, <2>1, <1>0, GoesOnHolds DEF RefreshThrows
  <2>3. \A a \in settledOff : status'[a] = "connected" => status[a] = "connected"
    BY <1>5 DEF RefreshThrows, rows
  <2> QED
    BY <2>1, <2>2, <2>3, <1>0, StaysSettled
<1>6. ASSUME NEW p \in Page, RefreshRead(p)
      PROVE  SettledInv'
  <2>1. UNCHANGED <<status, settledOff, home, requests>>
    BY <1>6 DEF RefreshRead, rows, postiz
  <2>2. job'.todo = job.todo \ {p} /\ job'.on = p /\ p \in job.todo
    BY <1>6 DEF RefreshRead
  <2>3. \A a : Held(a)' => Held(a)
    BY <2>1, <2>2 DEF Held
  <2> QED
    BY <2>1, <2>3, <1>0, StaysSettled
<1>7. ASSUME NEW granted \in BOOLEAN, RefreshAsk(granted)
      PROVE  SettledInv'
  <2>1. UNCHANGED <<status, settledOff, home, requests>>
    BY <1>7 DEF RefreshAsk, rows, postiz
  <2>2. job'.todo = job.todo /\ job'.on = job.on
    BY <1>7, <1>0 DEF RefreshAsk, JobFits, JobState
  <2>3. \A a : Held(a)' => Held(a)
    BY <2>1, <2>2 DEF Held
  <2> QED
    BY <2>1, <2>3, <1>0, StaysSettled
<1>8. ASSUME NEW i \in Integration, PostizConnects(i)
      PROVE  SettledInv'
  <2>1. UNCHANGED <<status, job, requests>> /\ settledOff' = settledOff \ {i}
    BY <1>8 DEF PostizConnects, rows
  <2>2. \A a : Held(a)' => Held(a)
    BY <2>1 DEF Held
  <2>3. \A a \in Integration \ {i} : home'[a] = home[a]
    BY <1>8, <1>0 DEF PostizConnects, TypeOK
  <2> QED
    BY <2>1, <2>2, <2>3, <1>0, StaysSettled
<1>9. ASSUME NEW i \in Integration, PostizDisables(i)
      PROVE  SettledInv'
  <2>1. UNCHANGED <<status, job, requests, settledOff, home>>
    BY <1>9 DEF PostizDisables, rows, postiz
  <2>2. \A a : Held(a)' => Held(a)
    BY <2>1 DEF Held
  <2> QED
    BY <2>1, <2>2, <1>0, StaysSettled
<1>10. CASE Crash
  <2>1. UNCHANGED <<status, settledOff, home>>
    BY <1>10 DEF Crash, rows, postiz
  <2>2. \A a \in settledOff : ~Held(a)'
    <3>1. job'.todo = {} /\ job'.on = Nobody /\ \A r \in Request : requests'[r].seen = {}
      BY <1>10 DEF Crash, JobIdle, Idle
    <3> QED
      BY <3>1, <1>0 DEF Held, TypeOK
  <2> QED
    BY <2>1, <2>2, <1>0, StaysSettled
<1>11. CASE MissedRun
  <2>1. UNCHANGED <<status, job, requests, settledOff, home>>
    BY <1>11 DEF MissedRun, rows, postiz
  <2>2. \A a : Held(a)' => Held(a)
    BY <2>1 DEF Held
  <2> QED
    BY <2>1, <2>2, <1>0, StaysSettled
<1>12. CASE DayPasses
  <2>1. UNCHANGED <<status, job, requests, settledOff, home>>
    BY <1>12 DEF DayPasses, rows, postiz
  <2>2. \A a : Held(a)' => Held(a)
    BY <2>1 DEF Held
  <2> QED
    BY <2>1, <2>2, <1>0, StaysSettled
<1>13. CASE UNCHANGED vars
  BY <1>13 DEF vars, rows, postiz, SettledInv, Held
<1> QED
  BY <1>1, <1>2, <1>3, <1>4, <1>5, <1>6, <1>7, <1>8, <1>9, <1>10, <1>11,
     <1>12, <1>13
  DEF Next, JobStep

(* A request that goes on, and is not the one that keeps the key.          *)
LEMMA KeyStays ==
  ASSUME TypeInv, KeyInv, NEW q \in Request, Alone(q), requests[q].pc # "saveKey",
         UNCHANGED <<organizations, postizKey, crowded>>, mishaps' = mishaps
  PROVE  KeyInv'
<1>1. \A r \in Request : At(r, "saveKey") => At(r, "saveKey")'
  BY DEF Alone, At
<1> QED
  BY <1>1 DEF KeyInv

LEMMA KeyFault ==
  ASSUME TypeInv, Mishap PROVE KeyInv'
<1>1. mishaps' # 0
  BY DEF Mishap, TypeInv, TypeOK
<1> QED
  BY <1>1 DEF KeyInv

LEMMA RequestsKeepKey ==
  ASSUME TypeInv, KeyInv,
         NEW q \in Request, RequestStep(q)
  PROVE  KeyInv'
<1>0. TypeInv /\ KeyInv /\ TypeOK /\ Carries(q) /\ Alone(q)
  BY RequestMoves DEF TypeInv
<1>1. CASE SyncStart(q)
  <2>1. /\ requests[q].pc /= "saveKey" /\ mishaps' = mishaps
        /\ UNCHANGED <<organizations, postizKey, crowded>>
    BY <1>1 DEF SyncStart, Begin, At, OnlyRequests, postiz
  <2> QED
    BY <2>1, <1>0, KeyStays
<1>2. CASE ConnectStart(q)
  <2>1. /\ requests[q].pc /= "saveKey" /\ mishaps' = mishaps
        /\ UNCHANGED <<organizations, postizKey, crowded>>
    BY <1>2 DEF ConnectStart, Begin, At, OnlyRequests, postiz
  <2> QED
    BY <2>1, <1>0, KeyStays
<1>3. CASE KeyRead(q)
  <2>1. /\ requests[q].pc /= "saveKey" /\ mishaps' = mishaps
        /\ UNCHANGED <<organizations, postizKey, crowded>>
    BY <1>3 DEF KeyRead, At, OnlyRequests, postiz
  <2> QED
    BY <2>1, <1>0, KeyStays
<1>4. CASE Provision(q)
  <2> SUFFICES ASSUME ~crowded', mishaps' = 0
               PROVE  organizations' <= 1 /\ At(q, "saveKey")'
    BY DEF KeyInv
  <2>1. /\ ~crowded /\ mishaps = 0 /\ postizKey = 0
        /\ \A r \in Request \ {q} : ~(requests[r].pc \in {"provision", "saveKey"})
    BY <1>4 DEF Provision
  <2>2. \A r \in Request : ~At(r, "saveKey")
    BY <1>4, <2>1 DEF Provision, At
  <2>3. organizations = 0
    BY <2>1, <2>2, <1>0 DEF KeyInv, TypeOK
  <2>4. /\ organizations' = organizations + 1
        /\ requests' = [requests EXCEPT ![q].pc = "saveKey", ![q].key = organizations + 1]
    BY <1>4 DEF Provision
  <2>5. "saveKey" \in Pc /\ organizations + 1 \in Nat
    BY <1>0 DEF Pc, TypeOK
  <2>6. requests'[q].pc = "saveKey"
    BY <2>4, <2>5, <1>0, KeyFields
  <2> QED
    BY <2>3, <2>4, <2>6 DEF At
<1>5. CASE SaveKey(q)
  <2>1. /\ UNCHANGED <<organizations, crowded, mishaps>>
        /\ postizKey' = requests[q].key /\ requests[q].key > 0
    BY <1>5, <1>0 DEF SaveKey, Carries, At, postiz
  <2>2. requests[q].key \in Nat
    BY <1>0, RecordFields
  <2> QED
    BY <2>1, <2>2, <1>0 DEF KeyInv
<1>6. CASE ListIntegrations(q)
  <2>1. /\ requests[q].pc /= "saveKey" /\ mishaps' = mishaps
        /\ UNCHANGED <<organizations, postizKey, crowded>>
    BY <1>6 DEF ListIntegrations, At, OnlyRequests, postiz
  <2> QED
    BY <2>1, <1>0, KeyStays
<1>7. CASE DisconnectInPostiz(q)
  <2>1. /\ requests[q].pc /= "saveKey" /\ mishaps' = mishaps
        /\ UNCHANGED <<organizations, postizKey, crowded>>
    BY <1>7 DEF DisconnectInPostiz, At, OnlyRequests, postiz
  <2> QED
    BY <2>1, <1>0, KeyStays
<1>8. CASE DisconnectWrite(q)
  <2>1. /\ requests[q].pc /= "saveKey" /\ mishaps' = mishaps
        /\ UNCHANGED <<organizations, postizKey, crowded>>
    BY <1>8 DEF DisconnectWrite, At, OnlyRequests, postiz
  <2> QED
    BY <2>1, <1>0, KeyStays
<1>9. CASE CallbackWrite(q)
  <2>1. /\ requests[q].pc /= "saveKey" /\ mishaps' = mishaps
        /\ UNCHANGED <<organizations, postizKey, crowded>>
    BY <1>9 DEF CallbackWrite, At, OnlyRequests, postiz
  <2> QED
    BY <2>1, <1>0, KeyStays
<1>10. CASE RequestFails(q)
  BY <1>10, <1>0, KeyFault DEF RequestFails
<1>11. ASSUME NEW a \in Account, DisconnectRead(q, a)
      PROVE  KeyInv'
  <2>1. /\ requests[q].pc /= "saveKey" /\ mishaps' = mishaps
        /\ UNCHANGED <<organizations, postizKey, crowded>>
    BY <1>11 DEF DisconnectRead, Begin, At, OnlyRequests, postiz
  <2> QED
    BY <2>1, <1>0, KeyStays
<1>12. ASSUME NEW x \in requests[q].seen, Upsert(q, x)
      PROVE  KeyInv'
  <2>1. /\ requests[q].pc /= "saveKey" /\ mishaps' = mishaps
        /\ UNCHANGED <<organizations, postizKey, crowded>>
    BY <1>12 DEF Upsert, At, OnlyRequests, postiz
  <2> QED
    BY <2>1, <1>0, KeyStays
<1>13. ASSUME NEW refresh \in BOOLEAN, CallbackExchange(q, refresh)
      PROVE  KeyInv'
  <2>1. /\ requests[q].pc /= "saveKey" /\ mishaps' = mishaps
        /\ UNCHANGED <<organizations, postizKey, crowded>>
    BY <1>13 DEF CallbackExchange, At, OnlyRequests, postiz
  <2> QED
    BY <2>1, <1>0, KeyStays
<1>14. ASSUME NEW p \in Page, CallbackOrganization(q, p)
      PROVE  KeyInv'
  <2>1. /\ requests[q].pc /= "saveKey" /\ mishaps' = mishaps
        /\ UNCHANGED <<organizations, postizKey, crowded>>
    BY <1>14 DEF CallbackOrganization, At, OnlyRequests, postiz
  <2> QED
    BY <2>1, <1>0, KeyStays
<1> QED
  BY <1>1, <1>2, <1>3, <1>4, <1>5, <1>6, <1>7, <1>8, <1>9, <1>10, <1>11, <1>12,
     <1>13, <1>14
    DEF RequestStep

LEMMA KeyStep ==
  ASSUME TypeInv, KeyInv, [Next]_vars
  PROVE  KeyInv'
<1>1. ASSUME NEW q \in Request, RequestStep(q)
      PROVE  KeyInv'
  BY <1>1, RequestsKeepKey
<1>2. CASE JobRead
  BY <1>2 DEF JobRead, JobStarts, KeyInv, At, postiz
<1>3. CASE RefreshWrite
  BY <1>3 DEF RefreshWrite, KeyInv, At, postiz
<1>4. CASE ExpireWrite
  BY <1>4 DEF ExpireWrite, KeyInv, At, postiz
<1>5. CASE RefreshThrows
  BY <1>5, KeyFault DEF RefreshThrows
<1>6. ASSUME NEW p \in Page, RefreshRead(p)
      PROVE  KeyInv'
  BY <1>6 DEF RefreshRead, KeyInv, At, postiz
<1>7. ASSUME NEW granted \in BOOLEAN, RefreshAsk(granted)
      PROVE  KeyInv'
  BY <1>7 DEF RefreshAsk, KeyInv, At, postiz
<1>8. ASSUME NEW i \in Integration, PostizConnects(i)
      PROVE  KeyInv'
  BY <1>8 DEF PostizConnects, KeyInv, At, postiz
<1>9. ASSUME NEW i \in Integration, PostizDisables(i)
      PROVE  KeyInv'
  BY <1>9 DEF PostizDisables, KeyInv, At, postiz
<1>10. CASE Crash
  BY <1>10, KeyFault DEF Crash
<1>11. CASE MissedRun
  BY <1>11, KeyFault DEF MissedRun
<1>12. CASE DayPasses
  BY <1>12 DEF DayPasses, KeyInv, At, postiz
<1>13. CASE UNCHANGED vars
  BY <1>13 DEF vars, postiz, KeyInv, At
<1> QED
  BY <1>1, <1>2, <1>3, <1>4, <1>5, <1>6, <1>7, <1>8, <1>9, <1>10, <1>11,
     <1>12, <1>13
  DEF Next, JobStep

LEMMA DaysAreNumbers ==
  ASSUME TypeInv PROVE \A p \in Page : daysLeft[p] \in Nat
  BY DEF TypeInv, TypeOK

(* Nothing that UsableInv speaks of gets worse.                            *)
LEMMA StaysUsable ==
  ASSUME TypeInv, UsableInv, UNCHANGED <<daysLeft, jobRan, mishaps>>,
         \A p \in Page : InJob(p) => InJob(p)',
         \A p \in Page : status'[p] = "connected" => status[p] = "connected"
  PROVE  UsableInv'
  BY DEF UsableInv

(* A fault that takes a page out of the hands of the job pays for its day. *)
LEMMA FaultPays ==
  ASSUME TypeInv, UsableInv, Mishap, UNCHANGED <<daysLeft, status>>
  PROVE  UsableInv'
<1> SUFFICES ASSUME NEW p \in Page, status'[p] = "connected"
             PROVE  daysLeft'[p] + mishaps' >= RenewWindow
  BY DaysAreNumbers DEF UsableInv, TypeInv, TypeOK, Mishap
<1>1. daysLeft[p] + mishaps >= RenewWindow - 1 /\ mishaps' = mishaps + 1
  BY DEF UsableInv, Mishap
<1>2. daysLeft[p] \in Nat /\ mishaps \in Nat
  BY DaysAreNumbers DEF TypeInv, TypeOK
<1> QED
  BY <1>1, <1>2

LEMMA PageRenewed ==
  ASSUME TypeInv, UsableInv, NEW p \in Page, NEW refresh, Renewed(p, refresh),
         UNCHANGED <<jobRan, mishaps>>,
         \A r \in Page \ {p} : InJob(r) => InJob(r)'
  PROVE  UsableInv'
<1> SUFFICES ASSUME NEW r \in Page, status'[r] = "connected"
             PROVE  /\ daysLeft'[r] + mishaps' >= RenewWindow - 1
                    /\ jobRan' /\ ~InJob(r)' => daysLeft'[r] + mishaps' >= RenewWindow
  BY DEF UsableInv
<1>1. daysLeft \in [Page -> 0..Lifetime] /\ mishaps \in Nat /\ status \in [Account -> Status]
  BY DEF TypeInv, TypeOK
<1>2. CASE r = p
  <2>1. daysLeft'[r] = Lifetime
    BY <1>1, <1>2 DEF Renewed
  <2> QED
    BY <2>1, <1>1
<1>3. CASE ~(r = p)
  <2>1. daysLeft'[r] = daysLeft[r] /\ status'[r] = status[r]
    BY <1>1, <1>3 DEF Renewed, Account
  <2> QED
    BY <2>1, <1>3 DEF UsableInv
<1> QED
  BY <1>2, <1>3

LEMMA RequestsKeepUsable ==
  ASSUME TypeInv, UsableInv,
         NEW q \in Request, RequestStep(q)
  PROVE  UsableInv'
<1>0. TypeInv /\ UsableInv /\ TypeOK /\ Carries(q)
  BY DEF TypeInv
<1>1. CASE SyncStart(q)
  <2>1. UNCHANGED <<daysLeft, jobRan, mishaps, job, status>>
    BY <1>1 DEF SyncStart, Begin, OnlyRequests, rows
  <2> QED
    BY <2>1, <1>0, StaysUsable DEF InJob
<1>2. CASE ConnectStart(q)
  <2>1. UNCHANGED <<daysLeft, jobRan, mishaps, job, status>>
    BY <1>2 DEF ConnectStart, Begin, OnlyRequests, rows
  <2> QED
    BY <2>1, <1>0, StaysUsable DEF InJob
<1>3. CASE KeyRead(q)
  <2>1. UNCHANGED <<daysLeft, jobRan, mishaps, job, status>>
    BY <1>3 DEF KeyRead, OnlyRequests, rows
  <2> QED
    BY <2>1, <1>0, StaysUsable DEF InJob
<1>4. CASE Provision(q)
  <2>1. UNCHANGED <<daysLeft, jobRan, mishaps, job, status>>
    BY <1>4 DEF Provision, OnlyRequests, rows
  <2> QED
    BY <2>1, <1>0, StaysUsable DEF InJob
<1>5. CASE SaveKey(q)
  <2>1. UNCHANGED <<daysLeft, jobRan, mishaps, job, status>>
    BY <1>5 DEF SaveKey, OnlyRequests, rows
  <2> QED
    BY <2>1, <1>0, StaysUsable DEF InJob
<1>6. CASE ListIntegrations(q)
  <2>1. UNCHANGED <<daysLeft, jobRan, mishaps, job, status>>
    BY <1>6 DEF ListIntegrations, OnlyRequests, rows
  <2> QED
    BY <2>1, <1>0, StaysUsable DEF InJob
<1>7. CASE DisconnectInPostiz(q)
  <2>1. UNCHANGED <<daysLeft, jobRan, mishaps, job, status>>
    BY <1>7 DEF DisconnectInPostiz, OnlyRequests, rows
  <2> QED
    BY <2>1, <1>0, StaysUsable DEF InJob
<1>8. CASE DisconnectWrite(q)
  <2>1. UNCHANGED <<daysLeft, jobRan, mishaps, job>>
    BY <1>8 DEF DisconnectWrite
  <2>2. \A p \in Page : status'[p] = "connected" => status[p] = "connected"
    BY <1>8, <1>0 DEF DisconnectWrite, TypeOK, Account
  <2> QED
    BY <2>1, <2>2, <1>0, StaysUsable DEF InJob
<1>9. CASE CallbackWrite(q)
  <2>1. requests[q].on \in Page /\ UNCHANGED <<jobRan, mishaps, job>>
    BY <1>9, <1>0 DEF CallbackWrite, Carries, At
  <2> QED
    BY <1>9, <2>1, <1>0, PageRenewed DEF CallbackWrite, InJob
<1>10. CASE RequestFails(q)
  BY <1>10, <1>0, FaultPays DEF RequestFails, rows
<1>11. ASSUME NEW a \in Account, DisconnectRead(q, a)
      PROVE  UsableInv'
  <2>1. UNCHANGED <<daysLeft, jobRan, mishaps, job, status>>
    BY <1>11 DEF DisconnectRead, Begin, OnlyRequests, rows
  <2> QED
    BY <2>1, <1>0, StaysUsable DEF InJob
<1>12. ASSUME NEW x \in requests[q].seen, Upsert(q, x)
      PROVE  UsableInv'
  <2>1. UNCHANGED <<daysLeft, jobRan, mishaps, job>> /\ x \in Listed
    BY <1>12, <1>0, RecordFields DEF Upsert
  <2>2. \A p \in Page : ~(p = x.id)
    BY <2>1 DEF Listed
  <2>3. \A p \in Page : status'[p] = status[p]
    BY <1>12, <2>2, <1>0 DEF Upsert, TypeOK, Account
  <2> QED
    BY <2>1, <2>3, <1>0, StaysUsable DEF InJob
<1>13. ASSUME NEW refresh \in BOOLEAN, CallbackExchange(q, refresh)
      PROVE  UsableInv'
  <2>1. UNCHANGED <<daysLeft, jobRan, mishaps, job, status>>
    BY <1>13 DEF CallbackExchange, OnlyRequests, rows
  <2> QED
    BY <2>1, <1>0, StaysUsable DEF InJob
<1>14. ASSUME NEW p \in Page, CallbackOrganization(q, p)
      PROVE  UsableInv'
  <2>1. UNCHANGED <<daysLeft, jobRan, mishaps, job, status>>
    BY <1>14 DEF CallbackOrganization, OnlyRequests, rows
  <2> QED
    BY <2>1, <1>0, StaysUsable DEF InJob
<1> QED
  BY <1>1, <1>2, <1>3, <1>4, <1>5, <1>6, <1>7, <1>8, <1>9, <1>10, <1>11, <1>12,
     <1>13, <1>14
    DEF RequestStep

LEMMA OthersWait ==
  ASSUME TypeInv, job' = JobGoesOn, NEW r \in Page \ {job.on}, InJob(r)
  PROVE  InJob(r)'
<1>1. job'.todo = job.todo
  BY DEF JobGoesOn, JobIdle, TypeInv, JobFits, JobState
<1> QED
  BY <1>1 DEF InJob

LEMMA UsableStep ==
  ASSUME TypeInv, UsableInv, [Next]_vars
  PROVE  UsableInv'
<1>0. TypeInv /\ UsableInv /\ TypeOK /\ JobFits
  BY DEF TypeInv
<1>1. ASSUME NEW q \in Request, RequestStep(q)
      PROVE  UsableInv'
  BY <1>1, RequestsKeepUsable
<1>2. CASE JobRead
  <2> DEFINE due == {p \in Page : status[p] = "connected" /\ daysLeft[p] < RenewWindow}
  <2>1. UNCHANGED <<daysLeft, mishaps, status>>
    BY <1>2 DEF JobRead, JobStarts, rows
  <2>2. job' = IF due = {} THEN JobIdle ELSE [JobIdle EXCEPT !.pc = "next", !.todo = due]
    BY <1>2 DEF JobRead, JobStarts
  <2>3. \A p \in Page : status[p] = "connected" /\ p \notin due => daysLeft[p] >= RenewWindow
    BY <1>0, DaysAreNumbers
  <2> HIDE DEF due
  <2>4. \A p \in due : InJob(p)'
    BY <2>2 DEF JobIdle, InJob
  <2> QED
    BY <2>1, <2>3, <2>4, <1>0, DaysAreNumbers DEF UsableInv, TypeOK
<1>3. CASE RefreshWrite
  <2>1. job.on \in Page /\ UNCHANGED <<jobRan, mishaps>> /\ job.pc /= "idle"
    BY <1>3, <1>0 DEF RefreshWrite, JobFits
  <2>2. \A r \in Page \ {job.on} : InJob(r) => InJob(r)'
    BY <1>3, <1>0, OthersWait DEF RefreshWrite
  <2> QED
    BY <1>3, <2>1, <2>2, <1>0, PageRenewed DEF RefreshWrite
<1>4. CASE ExpireWrite
  <2>1. job.on \in Page /\ UNCHANGED <<daysLeft, jobRan, mishaps>>
    BY <1>4, <1>0 DEF ExpireWrite, JobFits
  <2>2. \A r \in Page \ {job.on} : InJob(r) => InJob(r)'
    BY <1>4, <1>0, OthersWait DEF ExpireWrite
  <2>3. \A p \in Page : status'[p] = IF p = job.on THEN "expired" ELSE status[p]
    BY <1>4, <1>0 DEF ExpireWrite, TypeOK, Account
  <2> QED
    BY <2>1, <2>2, <2>3, <1>0 DEF UsableInv
<1>5. CASE RefreshThrows
  BY <1>5, <1>0, FaultPays DEF RefreshThrows, rows
<1>6. ASSUME NEW p \in Page, RefreshRead(p)
      PROVE  UsableInv'
  <2>1. UNCHANGED <<daysLeft, jobRan, mishaps, status>>
    BY <1>6 DEF RefreshRead, rows
  <2>2. job'.todo = job.todo \ {p} /\ job'.on = p /\ job.on = Nobody
    BY <1>6, <1>0 DEF RefreshRead, JobFits
  <2>3. \A r \in Page : InJob(r) => InJob(r)'
    BY <2>2 DEF InJob, Account
  <2> QED
    BY <2>1, <2>3, <1>0, StaysUsable
<1>7. ASSUME NEW granted \in BOOLEAN, RefreshAsk(granted)
      PROVE  UsableInv'
  <2>1. UNCHANGED <<daysLeft, jobRan, mishaps, status>>
    BY <1>7 DEF RefreshAsk, rows
  <2>2. job'.todo = job.todo /\ job'.on = job.on
    BY <1>7, <1>0 DEF RefreshAsk, JobFits, JobState
  <2> QED
    BY <2>1, <2>2, <1>0, StaysUsable DEF InJob
<1>8. ASSUME NEW i \in Integration, PostizConnects(i)
      PROVE  UsableInv'
  <2>1. UNCHANGED <<daysLeft, jobRan, mishaps, job, status>>
    BY <1>8 DEF PostizConnects, rows
  <2> QED
    BY <2>1, <1>0, StaysUsable DEF InJob
<1>9. ASSUME NEW i \in Integration, PostizDisables(i)
      PROVE  UsableInv'
  <2>1. UNCHANGED <<daysLeft, jobRan, mishaps, job, status>>
    BY <1>9 DEF PostizDisables, rows
  <2> QED
    BY <2>1, <1>0, StaysUsable DEF InJob
<1>10. CASE Crash
  BY <1>10, <1>0, FaultPays DEF Crash, rows
<1>11. CASE MissedRun
  BY <1>11, <1>0, FaultPays DEF MissedRun, rows
<1>12. CASE DayPasses
  <2> SUFFICES ASSUME NEW p \in Page, status'[p] = "connected"
               PROVE  daysLeft'[p] + mishaps' >= RenewWindow - 1
    BY <1>12 DEF DayPasses, UsableInv
  <2>1. ~InJob(p)
    BY <1>12, <1>0 DEF DayPasses, JobFits, JobIdle, InJob, Account
  <2>2. status[p] = "connected" /\ jobRan /\ mishaps' = mishaps
    BY <1>12 DEF DayPasses
  <2>3. daysLeft[p] + mishaps >= RenewWindow
    BY <2>1, <2>2, <1>0 DEF UsableInv
  <2>4. daysLeft'[p] = IF daysLeft[p] = 0 THEN 0 ELSE daysLeft[p] - 1
    BY <1>12 DEF DayPasses
  <2>5. daysLeft[p] \in Nat /\ mishaps \in Nat
    BY <1>0, DaysAreNumbers DEF TypeOK
  <2> QED
    BY <2>2, <2>3, <2>4, <2>5
<1>13. CASE UNCHANGED vars
  BY <1>13 DEF vars, rows, UsableInv, InJob
<1> QED
  BY <1>1, <1>2, <1>3, <1>4, <1>5, <1>6, <1>7, <1>8, <1>9, <1>10, <1>11,
     <1>12, <1>13
  DEF Next, JobStep

-----------------------------------------------------------------------------
(* The inductive invariant, its base and its step.                         *)
IInv == TypeInv /\ SettledInv /\ KeyInv /\ UsableInv

LEMMA Initially == Init => IInv
<1> SUFFICES ASSUME Init PROVE IInv
  OBVIOUS
<1>1. TypeOK
  <2>1. /\ status \in [Account -> Status] /\ daysLeft \in [Page -> 0..Lifetime]
        /\ home \in [Integration -> 0..organizations]
    BY DEF Init, Status
  <2>2. requests \in [Request -> RequestState] /\ job \in JobState
    BY IdleType DEF Init, JobState, JobIdle
  <2>3. /\ postizKey \in 0..organizations /\ organizations \in Nat /\ mishaps \in Nat
    BY DEF Init
  <2>4. /\ renewable \subseteq Page /\ enabled \subseteq Integration /\ settledOff \subseteq Account
        /\ jobRan \in BOOLEAN /\ crowded \in BOOLEAN
    BY DEF Init
  <2> QED
    BY <2>1, <2>2, <2>3, <2>4 DEF TypeOK
<1>2. \A q \in Request : Carries(q)
  BY DEF Init, Carries, Idle
<1>3. JobFits
  BY DEF Init, JobFits, JobState, JobIdle
<1>4. SettledInv /\ KeyInv
  BY DEF Init, SettledInv, KeyInv
<1>5. UsableInv
  BY DEF Init, UsableInv, Account
<1> QED
  BY <1>1, <1>2, <1>3, <1>4, <1>5 DEF IInv, TypeInv

LEMMA Inductive == IInv /\ [Next]_vars => IInv'
  BY TypeStep, SettledStep, KeyStep, UsableStep DEF IInv

LEMMA Invariance == Spec => []IInv
  BY Initially, Inductive, PTL DEF Spec

(* The variables keep their types, whatever requests and job do.           *)
THEOREM AccountTypes == Spec => []TypeOK
<1>1. IInv => TypeOK
  BY DEF IInv, TypeInv
<1> QED
  BY Invariance, <1>1, PTL

(* disconnect is final: an account that was disconnected while nobody held *)
(* an older reading of its row is brought back neither by a sync, nor by   *)
(* the job that renews tokens, nor by another request under way; only a    *)
(* new connection does that.                                               *)
THEOREM DisconnectIsFinal == Spec => []DisconnectSticks
<1>1. IInv => DisconnectSticks
  BY DEF IInv, SettledInv, DisconnectSticks
<1> QED
  BY Invariance, <1>1, PTL

(* ensurePostizApiKey makes one organization of Postiz for a workspace, as *)
(* long as no two requests provision at once and nothing fails between     *)
(* the call and the row, and its key is the one in use: a key is that of   *)
(* an organization made, and there is one.                                 *)
THEOREM WorkspaceHasOneOrganization == Spec => []OneOrganization
<1>1. IInv => OneOrganization
  <2> SUFFICES ASSUME IInv, ~crowded, mishaps = 0
               PROVE  /\ organizations <= 1
                      /\ \/ postizKey = organizations
                         \/ \E q \in Request :
                              At(q, "saveKey") /\ requests[q].key = organizations
                      /\ \A q \in Request :
                           requests[q].pc \in {"list", "delete"}
                             => requests[q].key = organizations
    BY DEF OneOrganization
  <2>1. /\ organizations \in Nat /\ postizKey \in 0..organizations
        /\ \A q \in Request : requests[q] \in RequestState /\ Carries(q)
    BY DEF IInv, TypeInv, TypeOK
  <2>2. organizations <= 1
    BY DEF IInv, KeyInv
  <2>3. ASSUME NEW q \in Request, requests[q].pc \in {"saveKey", "list", "delete"}
        PROVE  requests[q].key = organizations
    <3>1. requests[q].key \in Nat
      BY <2>1 DEF RequestState
    <3>2. requests[q].key > 0 /\ requests[q].key <= organizations
      BY <2>1, <2>3 DEF Carries
    <3> QED
      BY <2>1, <2>2, <3>1, <3>2
  <2>4. \/ postizKey = organizations
        \/ \E q \in Request : At(q, "saveKey") /\ requests[q].key = organizations
    <3>1. CASE organizations = 0
      BY <2>1, <3>1
    <3>2. CASE organizations > 0
      <4>1. postizKey # 0 \/ \E q \in Request : At(q, "saveKey")
        BY <3>2 DEF IInv, KeyInv
      <4>2. CASE postizKey # 0
        BY <2>1, <2>2, <4>2
      <4>3. ASSUME NEW q \in Request, At(q, "saveKey")
            PROVE  requests[q].key = organizations
        BY <2>3, <4>3 DEF At
      <4> QED
        BY <4>1, <4>2, <4>3
    <3> QED
      BY <2>1, <3>1, <3>2
  <2> QED
    BY <2>2, <2>3, <2>4
<1> QED
  BY Invariance, <1>1, PTL

(* renewExpiringTokens runs early enough: with fewer faults than the       *)
(* window has spare days, a page that says it is connected has a token     *)
(* that still works.                                                       *)
THEOREM ConnectedWorks == Spec => []ConnectedIsUsable
<1>1. IInv => ConnectedIsUsable
  <2> SUFFICES ASSUME IInv, mishaps < RenewWindow - 1,
                      NEW p \in Page, status[p] = "connected"
               PROVE  daysLeft[p] > 0
    BY DEF ConnectedIsUsable
  <2>1. daysLeft[p] + mishaps >= RenewWindow - 1
    BY DEF IInv, UsableInv
  <2>2. daysLeft[p] \in Nat /\ mishaps \in Nat
    BY DaysAreNumbers DEF IInv, TypeInv, TypeOK
  <2> QED
    BY <2>1, <2>2
<1> QED
  BY Invariance, <1>1, PTL
=============================================================================
