----------------------------- MODULE Credentials -----------------------------
(***************************************************************************)
(* The machine credentials of one workspace: verifier principals           *)
(* (src/lib/gate/verifiers.server.ts) and the API tokens, some bound to a  *)
(* verifier, that machines authenticate with (api-keys.server.ts), down to *)
(* the deletion of the account a token belongs to (src/lib/auth/server.ts).*)
(*                                                                         *)
(* None of these operations is a transaction: each statement commits by    *)
(* itself, so every statement is an action, requests interleave between    *)
(* them, and Stop may end a request after any of them, for a database      *)
(* error, a refused check or the crash of its process.  How the members of *)
(* the workspace change is module Workspace; here they simply do.          *)
(***************************************************************************)
EXTENDS Naturals

CONSTANTS
  Users,
  Verifiers,     \* ids registerVerifierPrincipal may draw; each is drawn once
  Tokens,        \* ids createApiToken may draw; each is drawn once
  Requests,      \* slots for concurrently running requests
  InitialRoles,  \* user -> role when the model starts
  RoleChanges,   \* bound: the <<user, role>> assignments that may happen
  None

Roles == { "owner", "admin", "member", "none" }

\* A row of api_tokens.
Token == [ user : Users, verifier : Verifiers \cup {None}, revoked : BOOLEAN ]

ASSUME CredentialsAssumption ==
  /\ InitialRoles \in [ Users -> Roles ]
  /\ RoleChanges \subseteq Users \X Roles
  /\ None \notin Users \cup Verifiers \cup Tokens \cup Token

VARIABLES
  accounts,   \* "user"
  role,       \* workspace_members: user -> role, "none" when no member
  verifier,   \* verifier_principals: id -> "none", "active", or "disabled"
  token,      \* api_tokens: id -> row, or None
  req         \* request slot -> what the request is doing

vars == << accounts, role, verifier, token, req >>

\* Of a request that authenticates by a token, the last three fields are
\* history, used by properties alone: whether the token and its verifier were
\* good when the request began, and whether its user was a member then or since.
Idle ==
  [ pc |-> "idle", user |-> None, verifier |-> None, token |-> None,
    tokenWasLive |-> FALSE, verifierWasActive |-> FALSE, userWasMember |-> FALSE ]

Init ==
  /\ accounts = Users
  /\ role     = InitialRoles
  /\ verifier = [ v \in Verifiers |-> "none" ]
  /\ token    = [ t \in Tokens |-> None ]
  /\ req      = [ r \in Requests |-> Idle ]

-----------------------------------------------------------------------------
At(r, pc) == req[r].pc = pc

Advance(r, pc) == req' = [ req EXCEPT ![r].pc = pc ]

Finish(r) == req' = [ req EXCEPT ![r] = Idle ]

\* A signed-in user's request resolves to this workspace: they are a member.
Begin(r, u, first) ==
  /\ req[r] = Idle
  /\ role[u] # "none"
  /\ req' = [ req EXCEPT ![r] = [ first EXCEPT !.user = u ] ]

Stop(r) ==
  /\ req[r] # Idle
  /\ Finish(r)
  /\ UNCHANGED << accounts, role, verifier, token >>

\* requireVerifierAdmin
requireVerifierAdmin(u) == role[u] \in { "owner", "admin" }

Exists(t) == token[t] # None

-----------------------------------------------------------------------------
(* registerVerifierPrincipal and disableVerifierPrincipal.                 *)

BeginManage(r) ==
  /\ \E u \in Users :
       \/ Begin(r, u, [ Idle EXCEPT !.pc = "authorize register" ])
       \/ \E v \in Verifiers : Begin(r, u, [ Idle EXCEPT !.pc = "authorize disable", !.verifier = v ])
  /\ UNCHANGED << accounts, role, verifier, token >>

Authorize(r) ==
  /\ \/ At(r, "authorize register") /\ Advance(r, "register")
     \/ At(r, "authorize disable") /\ Advance(r, "disable")
  /\ requireVerifierAdmin(req[r].user)
  /\ UNCHANGED << accounts, role, verifier, token >>

Register(r) ==
  /\ At(r, "register")
  /\ \E v \in Verifiers :
       /\ verifier[v] = "none"
       /\ verifier' = [ verifier EXCEPT ![v] = "active" ]
  /\ Finish(r)
  /\ UNCHANGED << accounts, role, token >>

\* update ... where disabled_at is null returning id: no row is an error.
Disable(r) ==
  /\ At(r, "disable")
  /\ verifier[req[r].verifier] = "active"
  /\ verifier' = [ verifier EXCEPT ![req[r].verifier] = "disabled" ]
  /\ Advance(r, "revoke bound")
  /\ UNCHANGED << accounts, role, token >>

Revoked(which(_)) ==
  [ t \in Tokens |-> IF Exists(t) /\ which(t) THEN [ token[t] EXCEPT !.revoked = TRUE ] ELSE token[t] ]

\* Faults, here and below: what a plausible mistake would put in the place of
\* the definition that follows; they show which properties would notice it.
IsBound(t, v) == token[t].verifier # None

IsBoundTo(t, v) == token[t].verifier = v

RevokeBound(r) ==
  /\ At(r, "revoke bound")
  /\ token' = Revoked(LAMBDA t : IsBoundTo(t, req[r].verifier))
  /\ Finish(r)
  /\ UNCHANGED << accounts, role, verifier >>

-----------------------------------------------------------------------------
(* createApiToken and revokeApiToken.                                      *)

BeginCreate(r) ==
  /\ \E u \in Users :
       \/ Begin(r, u, [ Idle EXCEPT !.pc = "insert" ])
       \/ \E v \in Verifiers : Begin(r, u, [ Idle EXCEPT !.pc = "authorize bind", !.verifier = v ])
  /\ UNCHANGED << accounts, role, verifier, token >>

AuthorizeBind(r) ==
  /\ At(r, "authorize bind")
  /\ requireVerifierAdmin(req[r].user)
  /\ Advance(r, "find")
  /\ UNCHANGED << accounts, role, verifier, token >>

AnyId == Verifiers

ActiveVerifiers == { v \in Verifiers : verifier[v] = "active" }

FindVerifier(r) ==
  /\ At(r, "find")
  /\ req[r].verifier \in ActiveVerifiers
  /\ Advance(r, "insert")
  /\ UNCHANGED << accounts, role, verifier, token >>

\* api_tokens.user_id is no foreign key: the account may be gone by now.
Insert(r) ==
  /\ At(r, "insert")
  /\ \E t \in Tokens :
       /\ ~ Exists(t)
       /\ token' = [ token EXCEPT ![t] =
            [ user |-> req[r].user, verifier |-> req[r].verifier, revoked |-> FALSE ] ]
  /\ Finish(r)
  /\ UNCHANGED << accounts, role, verifier >>

Anybodys(u, t) == Exists(t)

Own(u, t) == Exists(t) /\ token[t].user = u

\* revokeApiToken: a token that is not the user's own is left alone silently.
BeginRevoke(r) ==
  /\ \E u \in Users, t \in Tokens : Begin(r, u, [ Idle EXCEPT !.pc = "revoke", !.token = t ])
  /\ UNCHANGED << accounts, role, verifier, token >>

Revoke(r) ==
  /\ At(r, "revoke")
  /\ token' = Revoked(LAMBDA t : t = req[r].token /\ Own(req[r].user, t))
  /\ Finish(r)
  /\ UNCHANGED << accounts, role, verifier >>

-----------------------------------------------------------------------------
(* authenticateApiRequest: a machine presents a token.                     *)

OfAnyVerifier(t) == TRUE

\* t.verifier_principal_id is null or v.disabled_at is null, by a left join
OfActiveVerifier(t) == token[t].verifier \in ActiveVerifiers \cup {None}

Arrive(r) ==
  /\ req[r] = Idle
  /\ \E t \in Tokens :
       /\ Exists(t)
       /\ req' = [ req EXCEPT ![r] =
            [ Idle EXCEPT !.pc = "read token", !.token = t, !.user = token[t].user,
                          !.tokenWasLive = ~ token[t].revoked,
                          !.verifierWasActive = \A v \in Verifiers \ ActiveVerifiers : token[t].verifier # v,
                          !.userWasMember = role[token[t].user] # "none" ] ]
  /\ UNCHANGED << accounts, role, verifier, token >>

ReadToken(r) ==
  /\ At(r, "read token")
  /\ ~ token[req[r].token].revoked
  /\ OfActiveVerifier(req[r].token)
  /\ Advance(r, "access")
  /\ UNCHANGED << accounts, role, verifier, token >>

\* userCanAccessTenant, by another statement.
CheckAccess(r) ==
  /\ At(r, "access")
  /\ role[req[r].user] # "none"
  /\ Advance(r, "admitted")
  /\ UNCHANGED << accounts, role, verifier, token >>

-----------------------------------------------------------------------------
(* Members and accounts.                                                   *)

NewRoles(new) ==
  /\ role' = new
  /\ req' = [ r \in Requests |->
       IF req[r].pc \in { "read token", "access" }
       THEN [ req[r] EXCEPT !.userWasMember = @ \/ new[req[r].user] # "none" ]
       ELSE req[r] ]

ChangeRole ==
  /\ \E change \in RoleChanges :
       /\ change[1] \in accounts
       /\ role[change[1]] # change[2]
       /\ NewRoles([ role EXCEPT ![change[1]] = change[2] ])
  /\ UNCHANGED << accounts, verifier, token >>

\* Better Auth deletes the user, whose memberships go by cascade, and then calls
\* the afterDelete hook, which revokes the user's tokens.
DeleteAccount(r) ==
  /\ req[r] = Idle
  /\ \E u \in accounts :
       /\ accounts' = accounts \ {u}
       /\ role' = [ role EXCEPT ![u] = "none" ]
       /\ req' = [ req EXCEPT ![r] = [ Idle EXCEPT !.pc = "after delete", !.user = u ] ]
  /\ UNCHANGED << verifier, token >>

AfterDelete(r) ==
  /\ At(r, "after delete")
  /\ token' = Revoked(LAMBDA t : Own(req[r].user, t))
  /\ Finish(r)
  /\ UNCHANGED << accounts, role, verifier >>

-----------------------------------------------------------------------------
Next ==
  \/ \E r \in Requests :
       \/ BeginManage(r) \/ Authorize(r) \/ Register(r) \/ Disable(r) \/ RevokeBound(r)
       \/ BeginCreate(r) \/ AuthorizeBind(r) \/ FindVerifier(r) \/ Insert(r)
       \/ BeginRevoke(r) \/ Revoke(r)
       \/ Arrive(r) \/ ReadToken(r) \/ CheckAccess(r)
       \/ DeleteAccount(r) \/ AfterDelete(r)
       \/ Stop(r)
  \/ ChangeRole

Spec == Init /\ [][Next]_vars

-----------------------------------------------------------------------------
(* Properties.                                                             *)

Request ==
  [ pc : { "idle", "authorize register", "authorize disable", "register", "disable",
           "revoke bound", "revoke", "insert", "authorize bind", "find", "read token", "access",
           "admitted", "after delete" },
    user : Users \cup {None}, verifier : Verifiers \cup {None}, token : Tokens \cup {None},
    tokenWasLive : BOOLEAN, verifierWasActive : BOOLEAN, userWasMember : BOOLEAN ]

\* Every table and every request holds values of its kind; only accounts have
\* memberships, and a token is bound only to a verifier that was registered.
TypeOK ==
  /\ accounts \subseteq Users
  /\ role \in [ Users -> Roles ]
  /\ \A u \in Users \ accounts : role[u] = "none"
  /\ verifier \in [ Verifiers -> { "none", "active", "disabled" } ]
  /\ token \in [ Tokens -> Token \cup {None} ]
  /\ \A t \in Tokens :
       Exists(t) /\ token[t].verifier # None => verifier[token[t].verifier] # "none"
  /\ req \in [ Requests -> Request ]

\* A token that was revoked, whose verifier was disabled or whose user had lost
\* the workspace before a request began, admits the request no more: although the
\* three checks of authenticateApiRequest are spread over two statements, and
\* although disabling a verifier, or deleting an account, may fail half way and
\* leave tokens that nobody revoked.
StaleCredentialsAreRefused ==
  \A r \in Requests :
    At(r, "admitted") => req[r].tokenWasLive /\ req[r].verifierWasActive /\ req[r].userWasMember

\* A token is revoked on its own user's request, with its verifier, or with its
\* user's account, and never by what anybody does to other credentials.
RevokedForCause ==
  [][ \A t \in Tokens :
        Exists(t) /\ ~ token[t].revoked /\ token'[t].revoked =>
          \/ token[t].user \notin accounts
          \/ token[t].verifier # None /\ verifier[token[t].verifier] = "disabled"
          \/ \E r \in Requests : At(r, "revoke") /\ req[r].user = token[t].user ]_vars

\* What docs/TRUST_PROTOCOL.md says: disabling a verifier revokes its bound
\* machine tokens.  Once no request is at work on a disabled verifier, no token
\* bound to it is left unrevoked.
DisablingRevokesTokens ==
  \A t \in Tokens :
    /\ Exists(t)
    /\ token[t].verifier # None
    /\ verifier[token[t].verifier] = "disabled"
    /\ \A r \in Requests : req[r].verifier # token[t].verifier
    => token[t].revoked
=============================================================================
