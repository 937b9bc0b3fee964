------------------------------- MODULE Tenancy -------------------------------
(***************************************************************************)
(* Workspaces, their members and invitations, the guard in front of every  *)
(* resource, the platform administrators and the deletion of a workspace   *)
(* with its accounts (apps/api/src/workspaces, common/guards,              *)
(* platform-admin, data-privacy).  Every check is a read of its own, one   *)
(* or more awaits before the write it permits.                             *)
(*                                                                         *)
(* The editor and viewer roles are one, `member'; a slug is whatever the   *)
(* unique index lets pass.  Invitations and deletion requests are tickets: *)
(* a row with a token, a date it expires and a mark once it was used.      *)
(***************************************************************************)
EXTENDS Integers, FiniteSets

CONSTANTS
  Workspace, User,
  SuperAdmin,     \* users with is_platform_super_admin
  Ticket,         \* rows of workspace_invites and data_deletion_requests
  Request,        \* request slots
  Nil,
  MaxMishaps      \* bound on failed calls

ASSUME TenancyAssumption ==
  /\ SuperAdmin \subseteq User
  /\ Nil \notin Workspace \cup User \cup Ticket
  /\ MaxMishaps \in Nat

VARIABLES
  made, exists,   \* workspaces ever created, and not deleted since
  suspended,      \* workspaces whose status is suspended
  role,           \* workspace_members
  users,          \* public.users
  tickets,
  requests,
  contested,      \* history: workspaces two removals ran on at once
  lapsed,         \* history: workspaces an invitation of which expired
  hasty,          \* history: users that joined something while being erased
  mishaps

tenants == <<made, exists, suspended, role>>
history == <<contested, lapsed, hasty>>
vars == <<tenants, users, tickets, requests, history, mishaps>>

-----------------------------------------------------------------------------
Role == {"workspace_admin", "member"}
TicketRow == [kind : {"none", "invite", "deletion"}, workspace : Workspace \cup {Nil},
              role : Role, state : {"open", "used", "expired"}]
Unissued == [kind |-> "none", workspace |-> Nil, role |-> "member", state |-> "open"]
Issue(kind, w, r) == [kind |-> kind, workspace |-> w, role |-> r, state |-> "open"]
Open(t, kind) == tickets[t].kind = kind /\ tickets[t].state = "open"

Idle == [pc |-> "idle", user |-> Nil, workspace |-> Nil, target |-> Nil, ticket |-> Nil,
         role |-> "member", members |-> {}, outrun |-> FALSE]
RequestState ==
  [pc : {"idle", "create", "invite", "accept", "count", "remove", "status", "act",
         "suspend", "reactivate", "provision", "provisionInvite", "deletion", "members",
         "mark", "delete", "sweep", "erase", "eraseRow"},
   user : User \cup {Nil}, workspace : Workspace \cup {Nil}, target : User \cup {Nil},
   ticket : Ticket \cup {Nil}, role : Role, members : SUBSET User, outrun : BOOLEAN]

Init ==
  /\ made = {} /\ exists = {} /\ suspended = {}
  /\ role = [w \in Workspace |-> [u \in User |-> "none"]]
  /\ users = SuperAdmin
  /\ tickets = [t \in Ticket |-> Unissued]
  /\ requests = [q \in Request |-> Idle]
  /\ contested = {} /\ lapsed = {} /\ hasty = {} /\ mishaps = 0

-----------------------------------------------------------------------------
At(q, pc) == requests[q].pc = pc
Reply(q) == requests' = [requests EXCEPT ![q] = Idle]
Goto(q, pc) == requests' = [requests EXCEPT ![q].pc = pc]
Rest == UNCHANGED <<tenants, users, tickets, history, mishaps>>

Begin(q, request) ==
  /\ At(q, "idle")
  /\ requests' = [requests EXCEPT ![q] = request]
  /\ Rest
For(pc, u, w) == [Idle EXCEPT !.pc = pc, !.user = u, !.workspace = w]

IsAdmin(u, w) == role[w][u] = "workspace_admin"
Members(w) == {u \in User : role[w][u] # "none"}
BeingErased(u) == \E r \in Request : requests[r].pc \in {"erase", "eraseRow"}
                                       /\ requests[r].target = u

-----------------------------------------------------------------------------
(* Workspaces are created with their first admin and their subscription in *)
(* one transaction.                                                        *)
CreateRead(q, u) == u \in users /\ Begin(q, For("create", u, Nil))

CreateWrite(q, w) ==
  LET u == requests[q].user IN
  /\ At(q, "create") /\ w \notin made
  /\ IF u \in users
       THEN /\ made' = made \cup {w} /\ exists' = exists \cup {w}
            /\ role' = [role EXCEPT ![w][u] = "workspace_admin"]
            /\ hasty' = IF BeingErased(u) THEN hasty \cup {u} ELSE hasty
       ELSE UNCHANGED <<made, exists, role, hasty>>
  /\ Reply(q)
  /\ UNCHANGED <<suspended, users, tickets, contested, lapsed, mishaps>>

InviteRead(q, u, w, r) ==
  IsAdmin(u, w) /\ Begin(q, [For("invite", u, w) EXCEPT !.role = r])

InviteWrite(q, t) ==
  LET w == requests[q].workspace IN
  /\ At(q, "invite") /\ tickets[t] = Unissued
  /\ tickets' = IF w \in exists
                  THEN [tickets EXCEPT ![t] = Issue("invite", w, requests[q].role)] ELSE tickets
  /\ Reply(q)
  /\ UNCHANGED <<tenants, users, history, mishaps>>

(* acceptInvite: a member keeps the role it had.  Whether the invitation   *)
(* was used is not asked again at the write.                               *)
AcceptRead(q, u, t) ==
  /\ u \in users /\ Open(t, "invite")
  /\ Begin(q, [For("accept", u, tickets[t].workspace) EXCEPT !.ticket = t])

AcceptWrite(q) ==
  LET u == requests[q].user  w == requests[q].workspace  t == requests[q].ticket IN
  /\ At(q, "accept")
  /\ IF w \in exists /\ u \in users
       THEN /\ tickets' = [tickets EXCEPT ![t].state = "used"]
            /\ role' = [role EXCEPT ![w][u] = IF @ = "none" THEN tickets[t].role ELSE @]
            /\ hasty' = IF BeingErased(u) THEN hasty \cup {u} ELSE hasty
       ELSE UNCHANGED <<tickets, role, hasty>>
  /\ Reply(q)
  /\ UNCHANGED <<made, exists, suspended, users, contested, lapsed, mishaps>>

(* removeMember: the admins are only counted when somebody leaves; the     *)
(* first form never counts them.                                           *)
RemoveBegins(q, u, w, v, pc) ==
  /\ IsAdmin(u, w) /\ At(q, "idle")
  /\ requests' = [requests EXCEPT ![q] = [For(pc, u, w) EXCEPT !.target = v]]
  /\ contested' = IF \E r \in Request : requests[r].pc \in {"count", "remove"}
                                          /\ requests[r].workspace = w
                    THEN contested \cup {w} ELSE contested
  /\ UNCHANGED <<tenants, users, tickets, lapsed, hasty, mishaps>>
RemoveReadUncounted(q, u, w, v) == RemoveBegins(q, u, w, v, "remove")
RemoveRead(q, u, w, v) == RemoveBegins(q, u, w, v, IF u = v THEN "count" ELSE "remove")

CountAdmins(q) ==
  LET w == requests[q].workspace IN
  /\ At(q, "count")
  /\ IF Cardinality({u \in User : IsAdmin(u, w)}) <= 1 THEN Reply(q) ELSE Goto(q, "remove")
  /\ Rest

RemoveWrite(q) ==
  /\ At(q, "remove")
  /\ role' = [role EXCEPT ![requests[q].workspace][requests[q].target] = "none"]
  /\ Reply(q)
  /\ UNCHANGED <<made, exists, suspended, users, tickets, history, mishaps>>

-----------------------------------------------------------------------------
(* WorkspaceGuard, and the handler behind it.  A workspace that no longer  *)
(* exists is not suspended; the first form only asks about suspension when *)
(* the client named the workspace.                                         *)
GuardReadNamedOnly(q, u, w, named) ==
  /\ u \in users
  /\ \/ named
     \/ {x \in Workspace : role[x][u] # "none"} = {w}
  /\ role[w][u] # "none" \/ (named /\ u \in SuperAdmin)
  /\ Begin(q, For(IF ~named \/ u \in SuperAdmin THEN "act" ELSE "status", u, w))

GuardRead(q, u, w, named) ==
  /\ u \in users
  /\ \/ named
     \/ {x \in Workspace : role[x][u] # "none"} = {w}
  /\ role[w][u] # "none" \/ (named /\ u \in SuperAdmin)
  /\ Begin(q, For(IF u \in SuperAdmin THEN "act" ELSE "status", u, w))

AssertWorkspaceActive(q) ==
  /\ At(q, "status")
  /\ IF requests[q].workspace \in suspended THEN Reply(q) ELSE Goto(q, "act")
  /\ Rest

Act(q) == At(q, "act") /\ Reply(q) /\ Rest

(* Suspension and reactivation by a platform administrator.                *)
AdminRead(q, s, w, pc) == s \in SuperAdmin \cap users /\ Begin(q, For(pc, s, w))

Suspend(q) ==
  LET w == requests[q].workspace IN
  /\ At(q, "suspend")
  /\ suspended' = IF w \in exists THEN suspended \cup {w} ELSE suspended
  /\ requests' = [r \in Request |->
       IF r = q THEN Idle
       ELSE IF requests[r].pc = "act" /\ requests[r].workspace = w
              THEN [requests[r] EXCEPT !.outrun = TRUE] ELSE requests[r]]
  /\ UNCHANGED <<made, exists, role, users, tickets, history, mishaps>>

Reactivate(q) ==
  /\ At(q, "reactivate")
  /\ suspended' = suspended \ {requests[q].workspace}
  /\ Reply(q)
  /\ UNCHANGED <<made, exists, role, users, tickets, history, mishaps>>

(* provisionWorkspace: for a user there is, as if it had created it itself; *)
(* else a workspace of nobody's, and then an invitation to be its admin.   *)
ProvisionRead(q, s, u) ==
  /\ s \in SuperAdmin \cap users
  /\ Begin(q, IF u \in users THEN For("create", u, Nil) ELSE For("provision", s, Nil))

ProvisionWrite(q, w) ==
  /\ At(q, "provision") /\ w \notin made
  /\ made' = made \cup {w} /\ exists' = exists \cup {w}
  /\ requests' = [requests EXCEPT ![q].pc = "provisionInvite", ![q].workspace = w]
  /\ UNCHANGED <<suspended, role, users, tickets, history, mishaps>>

ProvisionInvite(q, t) ==
  /\ At(q, "provisionInvite") /\ tickets[t] = Unissued
  /\ tickets' = [tickets EXCEPT ![t] = Issue("invite", requests[q].workspace, "workspace_admin")]
  /\ Reply(q)
  /\ UNCHANGED <<tenants, users, history, mishaps>>

-----------------------------------------------------------------------------
(* requestDeletion; then confirmDeletion with the token of the mail.  The  *)
(* first form of the confirmation takes a token of any workspace.          *)
DeletionRead(q, u, w) == IsAdmin(u, w) /\ Begin(q, For("deletion", u, w))

DeletionWrite(q, t) ==
  /\ At(q, "deletion") /\ tickets[t] = Unissued
  /\ tickets' = IF \E u \in User : IsAdmin(u, requests[q].workspace)
                  THEN [tickets EXCEPT ![t] =
                         Issue("deletion", requests[q].workspace, "workspace_admin")]
                  ELSE tickets
  /\ Reply(q)
  /\ UNCHANGED <<tenants, users, history, mishaps>>

ConfirmReadAnyWorkspace(q, u, w, t) ==
  /\ IsAdmin(u, w) /\ Open(t, "deletion")
  /\ Begin(q, [For("members", u, w) EXCEPT !.ticket = t])
ConfirmRead(q, u, w, t) ==
  /\ IsAdmin(u, w) /\ Open(t, "deletion") /\ tickets[t].workspace = w
  /\ Begin(q, [For("members", u, w) EXCEPT !.ticket = t])

ReadMembers(q, alsoDeleteAccount) ==
  LET w == requests[q].workspace IN
  /\ At(q, "members")
  /\ IF w \in exists
       THEN requests' = [requests EXCEPT ![q].pc = "mark",
                               ![q].members = IF alsoDeleteAccount THEN Members(w) ELSE {}]
       ELSE Reply(q)
  /\ Rest

MarkConfirmed(q) ==
  /\ At(q, "mark")
  /\ tickets' = [tickets EXCEPT ![requests[q].ticket].state = "used"]
  /\ Goto(q, "delete")
  /\ UNCHANGED <<tenants, users, history, mishaps>>

(* The delete cascades to members and invitations; deletion requests stay. *)
DeleteWorkspace(q) ==
  LET w == requests[q].workspace IN
  /\ At(q, "delete")
  /\ exists' = exists \ {w} /\ suspended' = suspended \ {w}
  /\ role' = [role EXCEPT ![w] = [u \in User |-> "none"]]
  /\ tickets' = [t \in Ticket |->
       IF tickets[t].kind = "invite" /\ tickets[t].workspace = w THEN Unissued ELSE tickets[t]]
  /\ IF w \in exists THEN Goto(q, "sweep") ELSE Reply(q)
  /\ UNCHANGED <<made, users, history, mishaps>>

(* The accounts of the members read before, one after the other, of those  *)
(* that are in no other workspace; the first form does not count.          *)
SweepUncounted(q, u) ==
  /\ At(q, "sweep") /\ u \in requests[q].members
  /\ requests' = [requests EXCEPT ![q].pc = "erase", ![q].target = u, ![q].members = @ \ {u}]
  /\ Rest
Sweep(q, u) ==
  LET alone == \A w \in Workspace : role[w][u] = "none" IN
  /\ At(q, "sweep") /\ u \in requests[q].members
  /\ requests' = [requests EXCEPT ![q].pc = IF alone THEN "erase" ELSE "sweep",
                                  ![q].target = IF alone THEN u ELSE @,
                                  ![q].members = @ \ {u}]
  /\ Rest

EraseAccount(q) == At(q, "erase") /\ Goto(q, "eraseRow") /\ Rest

EraseRow(q) ==
  LET u == requests[q].target IN
  /\ At(q, "eraseRow")
  /\ users' = users \ {u}
  /\ role' = [w \in Workspace |-> [role[w] EXCEPT ![u] = "none"]]
  /\ requests' = [requests EXCEPT ![q].pc = "sweep", ![q].target = Nil]
  /\ UNCHANGED <<made, exists, suspended, tickets, history, mishaps>>

SweepDone(q) == At(q, "sweep") /\ requests[q].members = {} /\ Reply(q) /\ Rest

-----------------------------------------------------------------------------
(* People sign up (handle_new_user copies the account); dates go by.       *)
SignUp(u) ==
  /\ u \notin users
  /\ users' = users \cup {u}
  /\ UNCHANGED <<tenants, tickets, requests, history, mishaps>>

TicketExpires(t) ==
  /\ tickets[t].kind # "none" /\ tickets[t].state = "open"
  /\ tickets' = [tickets EXCEPT ![t].state = "expired"]
  /\ lapsed' = IF tickets[t].kind = "invite" THEN lapsed \cup {tickets[t].workspace} ELSE lapsed
  /\ UNCHANGED <<tenants, users, requests, contested, hasty, mishaps>>

(* A call throws, or the process dies.  The loop over the accounts catches *)
(* and goes on.                                                            *)
RequestFails(q) ==
  /\ mishaps < MaxMishaps /\ mishaps' = mishaps + 1
  /\ ~At(q, "idle")
  /\ IF requests[q].pc \in {"erase", "eraseRow"}
       THEN requests' = [requests EXCEPT ![q].pc = "sweep", ![q].target = Nil] ELSE Reply(q)
  /\ UNCHANGED <<tenants, users, tickets, history>>

-----------------------------------------------------------------------------
Membership(q) ==
  \/ \E u \in User : CreateRead(q, u)
  \/ \E w \in Workspace : CreateWrite(q, w)
  \/ \E u \in User, w \in Workspace, r \in Role : InviteRead(q, u, w, r)
  \/ \E t \in Ticket : InviteWrite(q, t)
  \/ \E u \in User, t \in Ticket : AcceptRead(q, u, t)
  \/ AcceptWrite(q)
  \/ \E u, v \in User, w \in Workspace : RemoveRead(q, u, w, v)
  \/ CountAdmins(q) \/ RemoveWrite(q)

Guard(q) ==
  \/ \E u \in User, w \in Workspace, named \in BOOLEAN : GuardRead(q, u, w, named)
  \/ AssertWorkspaceActive(q) \/ Act(q)

Administration(q) ==
  \/ \E s \in SuperAdmin, w \in Workspace, pc \in {"suspend", "reactivate"} : AdminRead(q, s, w, pc)
  \/ Suspend(q) \/ Reactivate(q)
  \/ \E s \in SuperAdmin, u \in User : ProvisionRead(q, s, u)
  \/ \E w \in Workspace : ProvisionWrite(q, w)
  \/ \E t \in Ticket : ProvisionInvite(q, t)

Deletion(q) ==
  \/ \E u \in User, w \in Workspace : DeletionRead(q, u, w)
  \/ \E t \in Ticket : DeletionWrite(q, t)
  \/ \E u \in User, w \in Workspace, t \in Ticket : ConfirmRead(q, u, w, t)
  \/ \E also \in BOOLEAN : ReadMembers(q, also)
  \/ MarkConfirmed(q) \/ DeleteWorkspace(q)
  \/ \E u \in User : Sweep(q, u)
  \/ EraseAccount(q) \/ EraseRow(q) \/ SweepDone(q)

Next ==
  \/ \E q \in Request :
       Membership(q) \/ Guard(q) \/ Administration(q) \/ Deletion(q) \/ RequestFails(q)
  \/ \E u \in User : SignUp(u)
  \/ \E t \in Ticket : TicketExpires(t)

Spec == Init /\ [][Next]_vars

-----------------------------------------------------------------------------
(* The types of the variables.                                             *)
TypeOK ==
  /\ exists \subseteq made /\ made \subseteq Workspace /\ suspended \subseteq exists
  /\ role \in [Workspace -> [User -> Role \cup {"none"}]]
  /\ users \subseteq User
  /\ tickets \in [Ticket -> TicketRow]
  /\ requests \in [Request -> RequestState]
  /\ contested \subseteq Workspace /\ lapsed \subseteq Workspace
  /\ hasty \subseteq User /\ mishaps \in Nat

(* A workspace always has an administrator, or an invitation out for one,  *)
(* unless two removals ran on it at once, an invitation expired, somebody  *)
(* joined while being erased, or a provisioning failed half-way (spec 009, *)
(* CA-05: the only administrator cannot be removed).                       *)
HasAdmin(w) ==
  \/ \E u \in User : IsAdmin(u, w)
  \/ \E t \in Ticket : Open(t, "invite") /\ tickets[t].workspace = w
                         /\ tickets[t].role = "workspace_admin"
  \/ \E q \in Request : At(q, "provisionInvite") /\ requests[q].workspace = w
KeepsAnAdmin ==
  hasty = {} /\ mishaps = 0 => \A w \in exists \ (contested \cup lapsed) : HasAdmin(w)

(* Whose account is being erased is in no workspace, unless it joined one  *)
(* after it was counted.                                                   *)
ErasedHadNoWorkspace ==
  \A u \in User \ hasty : BeingErased(u) => \A w \in Workspace : role[w][u] = "none"

(* A workspace is only ever gone with a deletion request of its own that    *)
(* was confirmed (spec 042, CA-04).                                        *)
DeletedWasConfirmed ==
  \A w \in made \ exists : \E t \in Ticket :
    tickets[t].kind = "deletion" /\ tickets[t].workspace = w /\ tickets[t].state = "used"

(* Behind the guard, in a suspended workspace, are only platform           *)
(* administrators and requests that were let through before (spec 041,     *)
(* CA-03).                                                                 *)
SuspendedIsShut ==
  \A q \in Request :
    At(q, "act") /\ requests[q].workspace \in suspended
      => requests[q].user \in SuperAdmin \/ requests[q].outrun
=============================================================================
