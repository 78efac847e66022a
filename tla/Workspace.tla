------------------------------ MODULE Workspace ------------------------------
(***************************************************************************)
(* Workspaces and their members (src/lib/gate/tenant.server.ts): how a     *)
(* user's requests find their workspace, and how people join, are given    *)
(* roles, are removed and delete their accounts, by requests that run      *)
(* concurrently against one Postgres database, beside an operator who      *)
(* provisions accounts and makes users owners with scripts.                *)
(*                                                                         *)
(* As in ReleaseGate an action is one statement, or a run of statements    *)
(* that no other request can tell apart; transactions are READ COMMITTED   *)
(* and their writes are part of the action that commits them.  The one     *)
(* exclusive lock the code takes on workspace_members is on the row of the *)
(* target; nothing locks the set of owners that is counted.                *)
(*                                                                         *)
(* Workspaces are never deleted.  Which of several memberships is the      *)
(* oldest is not modelled: tenantForUser may fall back on any of them.     *)
(***************************************************************************)
EXTENDS Naturals, FiniteSets

CONSTANTS
  Users,
  Workspaces,      \* ids that may be drawn; each is drawn once
  Requests,        \* slots for concurrently running requests
  Invites,         \* ids that invitations may draw; each is drawn once
  InvitedRoles,    \* bound: the roles that invitations offer
  AssignedRoles,   \* bound: the roles that setWorkspaceMemberRole is asked for
  Operations,      \* bound: request slot -> the operations that are requested there
  Scripts,         \* bound: script -> the workspaces an operator runs it for
  InitialAccounts, \* the users who have an account when the model starts
  Verified,        \* the users whose account, when they have one, is emailVerified
  InitialMembers,  \* workspace -> user -> role when the model starts
  None

Roles == { "owner", "admin", "member" }

AllOperations == { "role", "remove", "invite", "accept", "switch", "create", "delete" }

\* A row of workspace_invites.
Invitation ==
  [ ws : Workspaces, to : Users, role : InvitedRoles, status : { "open", "accepted", "expired" } ]

ASSUME WorkspaceAssumption ==
  /\ InvitedRoles \subseteq { "admin", "member" }
  /\ AssignedRoles \subseteq Roles
  /\ Operations \in [ Requests -> SUBSET AllOperations ]
  /\ Scripts \in [ { "provision", "recover" } -> SUBSET Workspaces ]
  /\ InitialAccounts \subseteq Users
  /\ Verified \subseteq Users
  /\ InitialMembers \in [ Workspaces -> [ Users -> Roles \cup {"none"} ] ]
  /\ \A w \in Workspaces, u \in Users \ InitialAccounts : InitialMembers[w][u] = "none"
  /\ IsFiniteSet(Users)
  /\ None \notin Users \cup Workspaces \cup Requests \cup Invites \cup Invitation

VARIABLES
  accounts,   \* "user": the users whose account exists
  existing,   \* workspaces
  member,     \* workspace_members: workspace -> user -> role, "none" without a row
  pref,       \* user_workspace_preferences: user -> workspace, or None
  invite,     \* workspace_invites: id -> invitation, or None
  rowLock,    \* workspace -> user -> the request that locked or inserts the row, or None
  inviteLock, \* invite -> the request that locked its row, or None
  req         \* request slot -> what the request is doing

vars == << accounts, existing, member, pref, invite, rowLock, inviteLock, req >>

\* ws is the workspace the request works on, and owners the number it counted.
\* The last three fields are history, used by properties alone: the workspaces
\* the user belonged to at some instant while the request looked for one (later
\* only whether the one it found is among them), whether the user lost a
\* membership while the request could still set the preference, and whether the
\* owners are no longer those it counted.
Idle ==
  [ pc |-> "idle", op |-> None, user |-> None, ws |-> None, target |-> None,
    newRole |-> "none", invite |-> None, owners |-> 0,
    been |-> {}, overtaken |-> FALSE, ownersMoved |-> FALSE ]

Owners(w) == { u \in Users : member[w][u] = "owner" }

MemberOf(u) == { w \in Workspaces : member[w][u] # "none" }

Init ==
  /\ accounts   = InitialAccounts
  /\ existing   = { w \in Workspaces : \E u \in Users : InitialMembers[w][u] # "none" }
  /\ member     = InitialMembers
  /\ pref       = [ u \in Users |-> None ]
  /\ invite     = [ i \in Invites |-> None ]
  /\ rowLock    = [ w \in Workspaces |-> [ u \in Users |-> None ] ]
  /\ inviteLock = [ i \in Invites |-> None ]
  /\ req        = [ r \in Requests |-> Idle ]

-----------------------------------------------------------------------------
(* Requests, locks and what a commit does to the history.                  *)

At(r, pc) == req[r].pc = pc

Advance(r, pc) == req' = [ req EXCEPT ![r].pc = pc ]

Finish(r) == req' = [ req EXCEPT ![r] = Idle ]

Begin(r, u, first) ==
  /\ req[r] = Idle
  /\ first.op \in Operations[r]
  /\ u \in accounts
  /\ req' = [ req EXCEPT ![r] =
       [ first EXCEPT !.user = u, !.been = IF first.pc = "preferred" THEN MemberOf(u) ELSE {} ] ]

Unlock(r) ==
  /\ rowLock' = [ w \in Workspaces |-> [ u \in Users |->
                    IF rowLock[w][u] = r THEN None ELSE rowLock[w][u] ] ]
  /\ inviteLock' = [ i \in Invites |-> IF inviteLock[i] = r THEN None ELSE inviteLock[i] ]

\* Request q, as left by an action, when members becomes the membership.
Witness(q, members) ==
  IF q = Idle THEN Idle
  ELSE [ q EXCEPT
           !.been = IF q.pc \in { "preferred", "existing" }
                    THEN @ \cup { w \in Workspaces : members[w][q.user] # "none" } ELSE @,
           !.overtaken =
             \/ @
             \/ /\ q.pc \in { "preferred", "existing", "adopt", "bootstrap", "switch", "join", "accept" }
                /\ \E w \in MemberOf(q.user) : members[w][q.user] = "none",
           !.ownersMoved =
             \/ @
             \/ q.pc = "change" /\ \E u \in Owners(q.ws) : members[q.ws][u] # "owner"
             \/ q.pc = "delete" /\ \E w \in Workspaces, u \in Users :
                                     (u \in Owners(w)) # (members[w][u] = "owner") ]

\* The membership becomes members, and request r becomes q.
CommitMembers(r, q, members) ==
  /\ member' = members
  /\ req' = [ s \in Requests |-> Witness(IF s = r THEN q ELSE req[s], members) ]

SetMember(w, u, role) == [ member EXCEPT ![w][u] = role ]

\* Every way a request ends without its writes: a refused check, a database
\* error, a lost connection, the crash of its process.
Rollback(r) ==
  /\ req[r] # Idle
  /\ Finish(r)
  /\ Unlock(r)
  /\ UNCHANGED << accounts, existing, member, pref, invite >>

-----------------------------------------------------------------------------
(* tenantForUser: the workspace of a request.                              *)

BeginInWorkspace(r) ==
  /\ \E u \in Users, target \in Users :
       \/ \E role \in AssignedRoles :
            Begin(r, u, [ Idle EXCEPT !.pc = "preferred", !.op = "role",
                                      !.target = target, !.newRole = role ])
       \/ Begin(r, u, [ Idle EXCEPT !.pc = "preferred", !.op = "remove", !.target = target ])
       \/ \E role \in InvitedRoles :
            Begin(r, u, [ Idle EXCEPT !.pc = "preferred", !.op = "invite",
                                      !.target = target, !.newRole = role ])
  /\ UNCHANGED << accounts, existing, member, pref, invite, rowLock, inviteLock >>

\* Faults, here and below: what a plausible mistake would put in the place of
\* the definition that follows; they show which properties would notice it.
PreferredUnchecked(u) == { w \in Workspaces : pref[u] = w }

\* The preference counts only when it is joined by a membership.
Preferred(u) == { w \in MemberOf(u) : pref[u] = w }

\* Request q has its workspace w.
Resolved(q, w) ==
  [ q EXCEPT !.pc = "authorize", !.ws = w, !.been = @ \cap {w}, !.overtaken = FALSE ]

ReadPreferred(r) ==
  /\ At(r, "preferred")
  /\ \/ \E w \in Preferred(req[r].user) : req' = [ req EXCEPT ![r] = Resolved(@, w) ]
     \/ /\ Preferred(req[r].user) = {}
        /\ Advance(r, "existing")
  /\ UNCHANGED << accounts, existing, member, pref, invite, rowLock, inviteLock >>

ReadExisting(r) ==
  /\ At(r, "existing")
  /\ \/ \E w \in MemberOf(req[r].user) :
          req' = [ req EXCEPT ![r].pc = "adopt", ![r].ws = w, ![r].been = @ \cap {w} ]
     \/ /\ MemberOf(req[r].user) = {}
        /\ Advance(r, "bootstrap")
  /\ UNCHANGED << accounts, existing, member, pref, invite, rowLock, inviteLock >>

PreferUnreferenced(u, w) == pref' = [ pref EXCEPT ![u] = w ]

\* insert into user_workspace_preferences ... on conflict do update; a row for
\* a user who is gone violates the foreign key, and the request can only end.
Prefer(u, w) ==
  /\ u \in accounts
  /\ pref' = [ pref EXCEPT ![u] = w ]

Adopt(r) ==
  /\ At(r, "adopt")
  /\ Prefer(req[r].user, req[r].ws)
  /\ req' = [ req EXCEPT ![r] = Resolved(@, @.ws) ]
  /\ UNCHANGED << accounts, existing, member, invite, rowLock, inviteLock >>

UpsertPreference(u, w) == Prefer(u, w)

\* A plain insert: with a row in place it violates the primary key.
InsertPreference(u, w) ==
  /\ pref[u] = None
  /\ Prefer(u, w)

\* A user who belongs nowhere founds a workspace.
Bootstrap(r) ==
  /\ At(r, "bootstrap")
  /\ \E w \in Workspaces \ existing :
       /\ existing' = existing \cup {w}
       /\ InsertPreference(req[r].user, w)
       /\ CommitMembers(r, [ Resolved(req[r], w) EXCEPT !.been = {w} ],
                        SetMember(w, req[r].user, "owner"))
  /\ UNCHANGED << accounts, invite, rowLock, inviteLock >>

-----------------------------------------------------------------------------
(* createWorkspaceForUser and switchWorkspace.                             *)

CreateWorkspace(r) ==
  /\ req[r] = Idle
  /\ "create" \in Operations[r]
  /\ \E u \in Users, w \in Workspaces \ existing :
       /\ existing' = existing \cup {w}
       /\ Prefer(u, w)
       /\ CommitMembers(r, Idle, SetMember(w, u, "owner"))
  /\ UNCHANGED << accounts, invite, rowLock, inviteLock >>

\* The membership is read by one statement, and the preference written by the
\* next, with no transaction around them.
SwitchCheck(r) ==
  /\ \E u \in Users, w \in Workspaces :
       /\ w \in MemberOf(u)
       /\ Begin(r, u, [ Idle EXCEPT !.pc = "switch", !.op = "switch", !.ws = w ])
  /\ UNCHANGED << accounts, existing, member, pref, invite, rowLock, inviteLock >>

Switch(r) ==
  /\ At(r, "switch")
  /\ Prefer(req[r].user, req[r].ws)
  /\ Finish(r)
  /\ UNCHANGED << accounts, existing, member, invite, rowLock, inviteLock >>

-----------------------------------------------------------------------------
(* inviteWorkspaceMember and acceptWorkspaceInvite.                        *)

MayInvite(role) == role \in { "owner", "admin" }

AuthorizeInvite(r) ==
  /\ At(r, "authorize")
  /\ req[r].op = "invite"
  /\ MayInvite(member[req[r].ws][req[r].user])
  /\ Advance(r, "issue")
  /\ UNCHANGED << accounts, existing, member, pref, invite, rowLock, inviteLock >>

\* The e-mail address of the invitation stands for the user who has it.
Issue(r) ==
  /\ At(r, "issue")
  /\ \E i \in Invites :
       /\ invite[i] = None
       /\ invite' = [ invite EXCEPT ![i] =
            [ ws |-> req[r].ws, to |-> req[r].target, role |-> req[r].newRole, status |-> "open" ] ]
  /\ Finish(r)
  /\ UNCHANGED << accounts, existing, member, pref, rowLock, inviteLock >>

\* Seven days pass.
Expire(i) ==
  /\ invite[i] # None
  /\ invite[i].status = "open"
  /\ invite' = [ invite EXCEPT ![i].status = "expired" ]
  /\ UNCHANGED << accounts, existing, member, pref, rowLock, inviteLock, req >>

ReadInviteUnlocked(r, i) == inviteLock' = inviteLock

\* SELECT ... FOR UPDATE waits for the request that holds the row.
LockInvite(r, i) ==
  /\ inviteLock[i] = None
  /\ inviteLock' = [ inviteLock EXCEPT ![i] = r ]

BeginAccept(r) ==
  /\ \E i \in Invites :
       /\ invite[i] # None
       /\ LockInvite(r, i)
       /\ invite[i].status = "open"
       /\ Begin(r, invite[i].to,
                [ Idle EXCEPT !.pc = "join", !.op = "accept", !.invite = i, !.ws = invite[i].ws ])
  /\ UNCHANGED << accounts, existing, member, pref, invite, rowLock >>

\* insert into workspace_members ... on conflict do nothing: it waits for
\* another insertion of the same row, not for one who has only locked it.
Join(r) ==
  /\ At(r, "join")
  /\ LET w == req[r].ws  u == req[r].user IN
     \/ /\ member[w][u] = "none"
        /\ rowLock[w][u] = None
        /\ rowLock' = [ rowLock EXCEPT ![w][u] = r ]
     \/ /\ member[w][u] # "none"
        /\ rowLock' = rowLock
  /\ Advance(r, "accept")
  /\ UNCHANGED << accounts, existing, member, pref, invite, inviteLock >>

Accept(r) ==
  /\ At(r, "accept")
  /\ LET w == req[r].ws  u == req[r].user  i == req[r].invite IN
     /\ Prefer(u, w)
     /\ invite' = [ invite EXCEPT ![i].status = "accepted" ]
     /\ CommitMembers(r, Idle, IF rowLock[w][u] = r THEN SetMember(w, u, invite[i].role) ELSE member)
  /\ Unlock(r)
  /\ UNCHANGED << accounts, existing >>

-----------------------------------------------------------------------------
(* setWorkspaceMemberRole and removeWorkspaceMember.                       *)

\* requireWorkspaceOwner
AuthorizeChange(r) ==
  /\ At(r, "authorize")
  /\ req[r].op \in { "role", "remove" }
  /\ member[req[r].ws][req[r].user] = "owner"
  /\ Advance(r, "lock")
  /\ UNCHANGED << accounts, existing, member, pref, invite, rowLock, inviteLock >>

LockTarget(r) ==
  /\ At(r, "lock")
  /\ member[req[r].ws][req[r].target] # "none"
  /\ rowLock[req[r].ws][req[r].target] = None
  /\ rowLock' = [ rowLock EXCEPT ![req[r].ws][req[r].target] = r ]
  /\ Advance(r, "count")
  /\ UNCHANGED << accounts, existing, member, pref, invite, inviteLock >>

\* select count(*) ... where role='owner': what is committed now, unlocked.
CountOwners(r) ==
  /\ At(r, "count")
  /\ req' = [ req EXCEPT ![r].pc = "change", ![r].owners = Cardinality(Owners(req[r].ws)) ]
  /\ UNCHANGED << accounts, existing, member, pref, invite, rowLock, inviteLock >>

ownerMayAlwaysGo(targetRole, ownerCount) == TRUE

canRemoveOrDemoteOwner(targetRole, ownerCount) == targetRole # "owner" \/ ownerCount > 1

TargetRole(r) == member[req[r].ws][req[r].target]

ChangeRole(r) ==
  /\ At(r, "change")
  /\ req[r].op = "role"
  /\ \/ req[r].newRole = "owner"
     \/ canRemoveOrDemoteOwner(TargetRole(r), req[r].owners)
  /\ CommitMembers(r, Idle, SetMember(req[r].ws, req[r].target, req[r].newRole))
  /\ Unlock(r)
  /\ UNCHANGED << accounts, existing, pref, invite >>

KeepPreference(u, w) == pref' = pref

\* delete from user_workspace_preferences where user_id=$1 and workspace_id=$2
ForgetPreference(u, w) ==
  pref' = [ pref EXCEPT ![u] = IF pref[u] = w THEN None ELSE pref[u] ]

Remove(r) ==
  /\ At(r, "change")
  /\ req[r].op = "remove"
  /\ canRemoveOrDemoteOwner(TargetRole(r), req[r].owners)
  /\ CommitMembers(r, Idle, SetMember(req[r].ws, req[r].target, "none"))
  /\ ForgetPreference(req[r].target, req[r].ws)
  /\ Unlock(r)
  /\ UNCHANGED << accounts, existing, invite >>

-----------------------------------------------------------------------------
(* Account deletion (src/lib/auth/server.ts): Better Auth calls the        *)
(* beforeDelete hook, then deletes the user; foreign keys cascade.         *)

BeforeDelete(r) ==
  /\ \E u \in Users :
       /\ \A w \in Workspaces : Owners(w) # {u}
       /\ Begin(r, u, [ Idle EXCEPT !.pc = "delete", !.op = "delete" ])
  /\ UNCHANGED << accounts, existing, member, pref, invite, rowLock, inviteLock >>

\* The cascade waits for whoever has locked, or is inserting, a row of the user.
DeleteAccount(r) ==
  /\ At(r, "delete")
  /\ LET u == req[r].user IN
     /\ \A w \in Workspaces : rowLock[w][u] = None
     /\ accounts' = accounts \ {u}
     /\ pref' = [ pref EXCEPT ![u] = None ]
     /\ CommitMembers(r, Idle, [ w \in Workspaces |-> [ member[w] EXCEPT ![u] = "none" ] ])
  /\ UNCHANGED << existing, invite, rowLock, inviteLock >>

-----------------------------------------------------------------------------
(* The operator's scripts, each one transaction that commits in one step.  *)

\* scripts/provision-operator.mjs: a verified account with a workspace of its own.
\* Its id is new: the id of a deleted account is used again only when no request
\* remembers it, which nobody can tell from a new one.
Provision(u, w) ==
  /\ w \in Scripts["provision"]
  /\ u \in Verified \ accounts
  /\ \A r \in Requests : u \notin { req[r].user, req[r].target }
  /\ w \notin existing
  /\ accounts' = accounts \cup {u}
  /\ existing' = existing \cup {w}
  /\ member' = SetMember(w, u, "owner")
  /\ pref' = [ pref EXCEPT ![u] = w ]
  /\ UNCHANGED << invite, rowLock, inviteLock, req >>

\* scripts/admin-owner-recovery.mjs: a verified user becomes an owner, whatever they
\* were before and whoever else owns the workspace.
Recover(w, u) ==
  /\ w \in Scripts["recover"]
  /\ w \in existing
  /\ u \in Verified
  /\ rowLock[w][u] = None   \* the upsert waits for whoever has locked or inserts the row
  /\ Prefer(u, w)
  /\ member' = SetMember(w, u, "owner")
  /\ req' = [ r \in Requests |-> Witness(req[r], member') ]
  /\ UNCHANGED << accounts, existing, invite, rowLock, inviteLock >>

-----------------------------------------------------------------------------
Next ==
  \/ \E r \in Requests :
       \/ BeginInWorkspace(r) \/ ReadPreferred(r) \/ ReadExisting(r) \/ Adopt(r) \/ Bootstrap(r)
       \/ CreateWorkspace(r) \/ SwitchCheck(r) \/ Switch(r)
       \/ AuthorizeInvite(r) \/ Issue(r) \/ BeginAccept(r) \/ Join(r) \/ Accept(r)
       \/ AuthorizeChange(r) \/ LockTarget(r) \/ CountOwners(r) \/ ChangeRole(r) \/ Remove(r)
       \/ BeforeDelete(r) \/ DeleteAccount(r)
       \/ Rollback(r)
  \/ \E i \in Invites : Expire(i)
  \/ \E u \in Users, w \in Workspaces : Provision(u, w) \/ Recover(w, u)

Spec == Init /\ [][Next]_vars

-----------------------------------------------------------------------------
(* Properties.                                                             *)

Request ==
  [ pc : { "idle", "preferred", "existing", "adopt", "bootstrap", "authorize", "issue", "switch",
           "join", "accept", "lock", "count", "change", "delete" },
    op : AllOperations \cup {None},
    user : Users \cup {None}, ws : Workspaces \cup {None}, target : Users \cup {None},
    newRole : Roles \cup {"none"}, invite : Invites \cup {None}, owners : Nat,
    been : SUBSET Workspaces, overtaken : BOOLEAN, ownersMoved : BOOLEAN ]

\* Every table and every request holds values of its kind, and only an account
\* that exists has memberships and a preference (the foreign keys).
TypeOK ==
  /\ accounts \subseteq Users
  /\ existing \subseteq Workspaces
  /\ member \in [ Workspaces -> [ Users -> Roles \cup {"none"} ] ]
  /\ pref \in [ Users -> Workspaces \cup {None} ]
  /\ invite \in [ Invites -> Invitation \cup {None} ]
  /\ rowLock \in [ Workspaces -> [ Users -> Requests \cup {None} ] ]
  /\ inviteLock \in [ Invites -> Requests \cup {None} ]
  /\ req \in [ Requests -> Request ]
  /\ \A u \in Users \ accounts : pref[u] = None /\ MemberOf(u) = {}

\* tenantForUser names a workspace that the user belonged to at some instant of
\* the request: somebody who was removed before they asked is never sent back to
\* the workspace that their preference may still name.
ResolvesToOwnWorkspace ==
  \A r \in Requests :
    req[r].pc \in { "adopt", "authorize", "issue", "lock", "count", "change" } =>
      req[r].ws \in req[r].been

\* Nobody becomes admin or member of a workspace, having had no role in it, except
\* through an invitation to them, for that role, which this very step spends: an
\* invitation admits once, even when it is accepted twice at the same time and the
\* first admission has been revoked meanwhile.
JoinsSpendAnInvitation ==
  [][ \A w \in Workspaces, u \in Users :
        member[w][u] = "none" /\ member'[w][u] \in { "admin", "member" } =>
          \E i \in Invites :
            /\ invite[i] # None
            /\ invite[i].ws = w /\ invite[i].to = u /\ invite[i].role = member'[w][u]
            /\ invite[i].status # "accepted"
            /\ invite'[i].status = "accepted" ]_vars

\* A workspace loses its last owner to no request alone: between the count of the
\* owners and the commit of the request that takes the last one, another request
\* took away an owner (or, when an account is deleted, changed who the owners are).
LastOwnerLostOnlyInARace ==
  [][ \A w \in Workspaces :
        Owners(w) # {} /\ Owners(w)' = {} =>
          \E r \in Requests :
            /\ req[r].ownersMoved /\ req'[r] = Idle
            /\ \/ req[r].pc = "change" /\ req[r].ws = w
               \/ req[r].pc = "delete" ]_vars

\* A preference goes stale (it names a workspace that the user does not belong to)
\* only through a request of that user which a removal has overtaken.  Removing a
\* member, and deleting an account, leave no stale preference themselves.
PreferenceStaleOnlyWhenOvertaken ==
  [][ \A u \in Users :
        pref[u] \in MemberOf(u) \cup {None} /\ pref'[u] \notin MemberOf(u)' \cup {None} =>
          \E r \in Requests : req[r].user = u /\ req[r].overtaken ]_vars

\* The first requests of a new user may run at the same time; one of them founds a
\* workspace and the others fail.  A user who belongs to a workspace founds another
\* by tenantForUser only if they lost a membership while the request ran.
BootstrapIsAlone ==
  [][ \A r \in Requests :
        At(r, "bootstrap") /\ req'[r].pc = "authorize" =>
          MemberOf(req[r].user) = {} \/ req[r].overtaken ]_vars

\* What SECURITY.md says: the last owner cannot be removed or demoted.
WorkspaceKeepsAnOwner == \A w \in existing : Owners(w) # {}

-----------------------------------------------------------------------------
(* Refinement.  A request holds a mandate from the statement that reads    *)
(* the role of its user to its commit.                                     *)

NoMandate == [ may |-> "nothing", ws |-> None, user |-> None, role |-> "none" ]

MandateOf(q) ==
  CASE q.pc \in { "lock", "count", "change" } ->
         [ may |-> "change", ws |-> q.ws, user |-> q.target,
           role |-> IF q.op = "remove" THEN "none" ELSE q.newRole ]
    [] q.pc = "issue" -> [ may |-> "offer", ws |-> q.ws, user |-> q.target, role |-> q.newRole ]
    [] OTHER -> NoMandate

NoOffer == [ state |-> "none", ws |-> None, to |-> None, role |-> "none" ]

\* Whether an invitation has expired shows only in its being accepted no more.
OfferOf(v) ==
  IF v = None THEN NoOffer
  ELSE [ state |-> IF v.status = "accepted" THEN "spent" ELSE "open",
         ws |-> v.ws, to |-> v.to, role |-> v.role ]

Offered == [ i \in Invites |-> OfferOf(invite[i]) ]
Pending == [ r \in Requests |-> MandateOf(req[r]) ]

Promise ==
  INSTANCE Membership WITH
    Slots <- Requests, Offers <- Invites, people <- accounts, founded <- existing, roles <- member,
    offers <- Offered, mandates <- Pending

\* Whatever requests interleave, memberships change as Membership promises: by a
\* role that was read before, used once and for one member, by an invitation that
\* this very step spends (it admits once, even when it is accepted twice at the same
\* time and the first admission has been revoked meanwhile), by founding, leaving, or
\* an operator's making somebody an owner.
ImplementsMembership == Promise!MSpec
=============================================================================
