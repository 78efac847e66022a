------------------------- MODULE CredentialsProofs -------------------------
(***************************************************************************)
(* Proofs, for any number of users, verifiers, tokens and requests, of the *)
(* safety properties of module Credentials.                                *)
(*                                                                         *)
(* The tables only ever move one way (Forward): a deleted account does not *)
(* come back, a registered verifier stays, a disabled one stays disabled,  *)
(* and a token keeps its user, its verifier and its revocation.  So what a *)
(* request in flight has found stays true enough (RequestOK) whatever the  *)
(* others do meanwhile (Carried).                                          *)
(***************************************************************************)
EXTENDS Credentials, TLAPS

NamesVerifier == { "authorize disable", "disable", "revoke bound", "authorize bind", "find" }
Presents      == { "read token", "access", "admitted" }

\* Who a request acts for and what it is about.
NamesWhatItNeeds(r) ==
  /\ req[r].pc # "idle" => req[r].user \in Users
  /\ req[r].pc \in NamesVerifier => req[r].verifier \in Verifiers
  /\ req[r].pc = "revoke" => req[r].token \in Tokens
  /\ req[r].pc \in Presents =>
       /\ req[r].token \in Tokens
       /\ Exists(req[r].token)
       /\ token[req[r].token].user = req[r].user

\* What a request that changes credentials has found or done before.
ChangesOK(r) ==
  /\ req[r].pc = "revoke bound" => verifier[req[r].verifier] = "disabled"
  /\ req[r].pc = "insert" /\ req[r].verifier # None => verifier[req[r].verifier] # "none"
  /\ req[r].pc = "after delete" => req[r].user \notin accounts

\* A token that is good now was good when the request began, and what a request
\* has checked was so then.
PresentsOK(r) ==
  /\ req[r].pc = "read token" =>
       /\ ~ token[req[r].token].revoked => req[r].tokenWasLive
       /\ \/ req[r].verifierWasActive
          \/ /\ token[req[r].token].verifier \in Verifiers
             /\ verifier[token[req[r].token].verifier] = "disabled"
  /\ req[r].pc \in { "access", "admitted" } => req[r].tokenWasLive /\ req[r].verifierWasActive
  /\ req[r].pc \in { "read token", "access" } /\ role[req[r].user] # "none" => req[r].userWasMember
  /\ req[r].pc = "admitted" => req[r].userWasMember

RequestOK(r) == NamesWhatItNeeds(r) /\ ChangesOK(r) /\ PresentsOK(r)

\* The inductive invariant.
IInv == TypeOK /\ \A r \in Requests : RequestOK(r)

\* How the tables may change.
Forward ==
  /\ accounts' \subseteq accounts
  /\ \A v \in Verifiers : /\ verifier[v] # "none" => verifier'[v] # "none"
                          /\ verifier[v] = "disabled" => verifier'[v] = "disabled"
  /\ \A t \in Tokens : Exists(t) =>
       /\ token'[t] # None
       /\ token'[t].user = token[t].user
       /\ token'[t].verifier = token[t].verifier
       /\ token[t].revoked => token'[t].revoked

-----------------------------------------------------------------------------
(* Lemmas.                                                                 *)

LEMMA IdleFacts ==
  /\ Idle \in Request
  /\ Idle.pc = "idle"
  /\ Idle.verifier = None
BY DEF Idle, Request

\* A request that does not move itself keeps what it relies on, if its history
\* takes note of a membership that its user is given meanwhile.
LEMMA Carried ==
  ASSUME IInv, Forward, NEW r \in Requests,
         req'[r].pc = req[r].pc, req'[r].user = req[r].user,
         req'[r].verifier = req[r].verifier, req'[r].token = req[r].token,
         req'[r].tokenWasLive = req[r].tokenWasLive,
         req'[r].verifierWasActive = req[r].verifierWasActive,
         req[r].userWasMember => req'[r].userWasMember,
         req[r].pc \in { "read token", "access" } /\ role'[req[r].user] # "none"
           => role[req[r].user] # "none" \/ req'[r].userWasMember
  PROVE  RequestOK(r)'
<1>1. req[r] \in Request /\ RequestOK(r)
  BY DEF IInv, TypeOK
<1>2. NamesWhatItNeeds(r)'
  BY <1>1 DEF RequestOK, NamesWhatItNeeds, Forward, Exists
<1>3. ChangesOK(r)'
  BY <1>1 DEF RequestOK, NamesWhatItNeeds, ChangesOK, Forward, Request, NamesVerifier
<1>4. PresentsOK(r)'
  BY <1>1 DEF RequestOK, NamesWhatItNeeds, PresentsOK, Forward, Presents
<1> QED
  BY <1>2, <1>3, <1>4 DEF RequestOK

\* The same, of a step that only one request takes and that gives no membership.
LEMMA OthersCarried ==
  ASSUME IInv, Forward, NEW r \in Requests, NEW q,
         req' = [ req EXCEPT ![r] = q ],
         \A u \in Users : role'[u] # "none" => role[u] # "none",
         RequestOK(r)'
  PROVE  \A s \in Requests : RequestOK(s)'
<1> SUFFICES ASSUME NEW s \in Requests, s # r  PROVE RequestOK(s)'
  OBVIOUS
<1>1. req'[s] = req[s]
  BY DEF IInv, TypeOK
<1>2. req[s].pc \in { "read token", "access" } => req[s].user \in Users
  BY DEF IInv, RequestOK, NamesWhatItNeeds
<1> QED
  BY <1>1, <1>2, Carried

\* A request that has ended relies on nothing.
LEMMA IdleIsOK ==
  ASSUME NEW r \in Requests, req'[r] = Idle
  PROVE  RequestOK(r)'
BY IdleFacts DEF RequestOK, NamesWhatItNeeds, ChangesOK, PresentsOK, NamesVerifier, Presents

\* Tables that do not change go forward.
LEMMA StillIsForward ==
  ASSUME IInv, UNCHANGED << accounts, verifier, token >>
  PROVE  Forward
BY DEF Forward, Exists

\* Revoking some tokens.
LEMMA RevokingIsForward ==
  ASSUME IInv, UNCHANGED << accounts, verifier >>, NEW S,
         token' = [ t \in Tokens |->
           IF Exists(t) /\ t \in S THEN [ token[t] EXCEPT !.revoked = TRUE ] ELSE token[t] ]
  PROVE  /\ Forward
         /\ token' \in [ Tokens -> Token \cup {None} ]
         /\ \A t \in Tokens : Exists(t)' /\ token'[t].verifier # None => verifier'[token'[t].verifier] # "none"
         /\ \A t \in Tokens : Exists(t) /\ ~ token[t].revoked /\ token'[t].revoked => t \in S
<1>1. ASSUME NEW t \in Tokens
      PROVE  /\ token'[t] \in Token \cup {None}
             /\ Exists(t) => /\ token'[t] # None
                             /\ token'[t].user = token[t].user
                             /\ token'[t].verifier = token[t].verifier
                             /\ token[t].revoked => token'[t].revoked
             /\ ~ Exists(t) => token'[t] = None
             /\ t \notin S => token'[t] = token[t]
  <2>1. token[t] \in Token \cup {None}
    BY DEF IInv, TypeOK
  <2>2. CASE Exists(t) /\ t \in S
    <3>1. token[t] \in Token /\ token'[t] = [ token[t] EXCEPT !.revoked = TRUE ]
      BY <2>1, <2>2 DEF Exists
    <3>2. /\ token'[t] \in Token
          /\ token'[t].user = token[t].user /\ token'[t].verifier = token[t].verifier /\ token'[t].revoked = TRUE
      BY <3>1 DEF Token
    <3> QED
      BY <2>2, <3>2, CredentialsAssumption
  <2>3. CASE ~ (Exists(t) /\ t \in S)
    BY <2>1, <2>3 DEF Exists
  <2> QED
    BY <2>2, <2>3
<1>2. Forward
  BY <1>1 DEF Forward
<1>3. \A t \in Tokens : Exists(t)' /\ token'[t].verifier # None => verifier'[token'[t].verifier] # "none"
  BY <1>1 DEF IInv, TypeOK, Exists
<1>4. token' \in [ Tokens -> Token \cup {None} ]
  BY <1>1
<1>5. \A t \in Tokens : Exists(t) /\ ~ token[t].revoked /\ token'[t].revoked => t \in S
  BY <1>1
<1> QED
  BY <1>2, <1>3, <1>4, <1>5

-----------------------------------------------------------------------------
(* The invariant, action by action.                                        *)

LEMMA InitHolds == Init => IInv
<1> SUFFICES ASSUME Init PROVE IInv
  OBVIOUS
<1>1. TypeOK
  BY IdleFacts, CredentialsAssumption DEF Init, TypeOK, Exists
<1>2. ASSUME NEW r \in Requests PROVE RequestOK(r)
  <2>1. req[r] = Idle
    BY DEF Init
  <2> QED
    BY <2>1, IdleFacts DEF RequestOK, NamesWhatItNeeds, ChangesOK, PresentsOK, NamesVerifier, Presents
<1> QED
  BY <1>1, <1>2 DEF IInv

\* A step of one request that leaves every table as it is.
LEMMA QuietStep ==
  ASSUME IInv, NEW r \in Requests, NEW q \in Request,
         req' = [ req EXCEPT ![r] = q ],
         UNCHANGED << accounts, role, verifier, token >>,
         RequestOK(r)'
  PROVE  IInv'
<1>1. Forward
  BY StillIsForward
<1>2. \A s \in Requests : RequestOK(s)'
  BY <1>1, OthersCarried
<1>3. TypeOK'
  BY DEF IInv, TypeOK, Exists
<1> QED
  BY <1>2, <1>3 DEF IInv

\* A request that ends, whatever it has done to the tables that is typed.
LEMMA LastStep ==
  ASSUME IInv, Forward, NEW r \in Requests, Finish(r),
         UNCHANGED << accounts, role >>,
         verifier' \in [ Verifiers -> { "none", "active", "disabled" } ],
         token' \in [ Tokens -> Token \cup {None} ],
         \A t \in Tokens : Exists(t)' /\ token'[t].verifier # None => verifier'[token'[t].verifier] # "none"
  PROVE  IInv'
<1>1. req' = [ req EXCEPT ![r] = Idle ] /\ req'[r] = Idle
  BY DEF Finish, IInv, TypeOK
<1>2. \A s \in Requests : RequestOK(s)'
  BY <1>1, IdleIsOK, OthersCarried
<1>3. TypeOK'
  BY <1>1, IdleFacts DEF IInv, TypeOK
<1> QED
  BY <1>2, <1>3 DEF IInv

LEMMA StopKeeps == ASSUME IInv, NEW r \in Requests, Stop(r) PROVE IInv'
<1>1. Forward
  BY StillIsForward DEF Stop
<1> QED
  BY <1>1, LastStep DEF Stop, IInv, TypeOK, Exists

LEMMA BeginManageKeeps == ASSUME IInv, NEW r \in Requests, BeginManage(r) PROVE IInv'
<1>1. PICK u \in Users : \E first :
        /\ Begin(r, u, first)
        /\ \/ first = [ Idle EXCEPT !.pc = "authorize register" ]
           \/ \E v \in Verifiers : first = [ Idle EXCEPT !.pc = "authorize disable", !.verifier = v ]
  BY DEF BeginManage
<1>2. PICK first :
        /\ Begin(r, u, first)
        /\ \/ first = [ Idle EXCEPT !.pc = "authorize register" ]
           \/ \E v \in Verifiers : first = [ Idle EXCEPT !.pc = "authorize disable", !.verifier = v ]
  BY <1>1
<1> DEFINE q == [ first EXCEPT !.user = u ]
<1>3. /\ q \in Request /\ q.user = u
      /\ \/ q.pc = "authorize register"
         \/ q.pc = "authorize disable" /\ q.verifier \in Verifiers
  BY <1>2 DEF Request, Idle
<1>4. req' = [ req EXCEPT ![r] = q ] /\ req'[r] = q
  BY <1>2 DEF Begin, IInv, TypeOK
<1> HIDE DEF q
<1>5. RequestOK(r)'
  BY <1>3, <1>4 DEF RequestOK, NamesWhatItNeeds, ChangesOK, PresentsOK, NamesVerifier, Presents
<1> QED
  BY <1>3, <1>4, <1>5, QuietStep DEF BeginManage

LEMMA BeginCreateKeeps == ASSUME IInv, NEW r \in Requests, BeginCreate(r) PROVE IInv'
<1>1. PICK u \in Users : \E first :
        /\ Begin(r, u, first)
        /\ \/ first = [ Idle EXCEPT !.pc = "insert" ]
           \/ \E v \in Verifiers : first = [ Idle EXCEPT !.pc = "authorize bind", !.verifier = v ]
  BY DEF BeginCreate
<1>2. PICK first :
        /\ Begin(r, u, first)
        /\ \/ first = [ Idle EXCEPT !.pc = "insert" ]
           \/ \E v \in Verifiers : first = [ Idle EXCEPT !.pc = "authorize bind", !.verifier = v ]
  BY <1>1
<1> DEFINE q == [ first EXCEPT !.user = u ]
<1>3. /\ q \in Request /\ q.user = u
      /\ \/ q.pc = "insert" /\ q.verifier = None
         \/ q.pc = "authorize bind" /\ q.verifier \in Verifiers
  BY <1>2 DEF Request, Idle
<1>4. req' = [ req EXCEPT ![r] = q ] /\ req'[r] = q
  BY <1>2 DEF Begin, IInv, TypeOK
<1> HIDE DEF q
<1>5. RequestOK(r)'
  BY <1>3, <1>4 DEF RequestOK, NamesWhatItNeeds, ChangesOK, PresentsOK, NamesVerifier, Presents
<1> QED
  BY <1>3, <1>4, <1>5, QuietStep DEF BeginCreate

LEMMA BeginRevokeKeeps == ASSUME IInv, NEW r \in Requests, BeginRevoke(r) PROVE IInv'
<1>1. PICK u \in Users, t \in Tokens : Begin(r, u, [ Idle EXCEPT !.pc = "revoke", !.token = t ])
  BY DEF BeginRevoke
<1> DEFINE q == [ [ Idle EXCEPT !.pc = "revoke", !.token = t ] EXCEPT !.user = u ]
<1>2. q \in Request /\ q.user = u /\ q.pc = "revoke" /\ q.token = t
  BY <1>1 DEF Request, Idle
<1>3. req' = [ req EXCEPT ![r] = q ] /\ req'[r] = q
  BY <1>1 DEF Begin, IInv, TypeOK
<1> HIDE DEF q
<1>4. RequestOK(r)'
  BY <1>2, <1>3 DEF RequestOK, NamesWhatItNeeds, ChangesOK, PresentsOK, NamesVerifier, Presents
<1> QED
  BY <1>2, <1>3, <1>4, QuietStep DEF BeginRevoke

\* A request goes on to another point and keeps the rest of its record.
LEMMA AdvanceFacts ==
  ASSUME IInv, NEW r \in Requests,
         NEW pc \in { "register", "disable", "revoke bound", "insert", "find", "access", "admitted" },
         req' = [ req EXCEPT ![r].pc = pc ]
  PROVE  /\ req'[r] \in Request
         /\ req' = [ req EXCEPT ![r] = req'[r] ]
         /\ req'[r].pc = pc
         /\ req'[r].user = req[r].user
         /\ req'[r].verifier = req[r].verifier
         /\ req'[r].token = req[r].token
         /\ req'[r].tokenWasLive = req[r].tokenWasLive
         /\ req'[r].verifierWasActive = req[r].verifierWasActive
         /\ req'[r].userWasMember = req[r].userWasMember
<1> DEFINE q == [ req[r] EXCEPT !.pc = pc ]
<1>1. req[r] \in Request
  BY DEF IInv, TypeOK
<1>2. /\ q \in Request
      /\ q.pc = pc /\ q.user = req[r].user /\ q.verifier = req[r].verifier /\ q.token = req[r].token
      /\ q.tokenWasLive = req[r].tokenWasLive /\ q.verifierWasActive = req[r].verifierWasActive
      /\ q.userWasMember = req[r].userWasMember
  BY <1>1 DEF Request
<1>3. req'[r] = q /\ req' = [ req EXCEPT ![r] = q ]
  BY DEF IInv, TypeOK
<1> HIDE DEF q
<1> QED
  BY <1>2, <1>3

LEMMA AuthorizeKeeps == ASSUME IInv, NEW r \in Requests, Authorize(r) PROVE IInv'
<1>1. PICK pc \in { "register", "disable", "revoke bound", "insert", "find", "access", "admitted" } :
        /\ req' = [ req EXCEPT ![r].pc = pc ]
        /\ pc \in { "register", "disable" }
        /\ pc = "disable" => req[r].pc = "authorize disable"
        /\ req[r].pc \in { "authorize register", "authorize disable" }
  BY DEF Authorize, At, Advance
<1>2. /\ req'[r] \in Request /\ req' = [ req EXCEPT ![r] = req'[r] ]
      /\ req'[r].pc = pc /\ req'[r].user = req[r].user /\ req'[r].verifier = req[r].verifier
  BY <1>1, AdvanceFacts
<1>3. NamesWhatItNeeds(r)
  BY DEF IInv, RequestOK
<1>4. RequestOK(r)'
  BY <1>1, <1>2, <1>3 DEF RequestOK, NamesWhatItNeeds, ChangesOK, PresentsOK, NamesVerifier, Presents
<1> QED
  BY <1>2, <1>4, QuietStep DEF Authorize

LEMMA AuthorizeBindKeeps == ASSUME IInv, NEW r \in Requests, AuthorizeBind(r) PROVE IInv'
<1>1. req[r].pc = "authorize bind" /\ Advance(r, "find")
  BY DEF AuthorizeBind, At
<1>2. /\ req'[r] \in Request /\ req' = [ req EXCEPT ![r] = req'[r] ]
      /\ req'[r].pc = "find" /\ req'[r].user = req[r].user /\ req'[r].verifier = req[r].verifier
  BY <1>1, AdvanceFacts DEF Advance
<1>3. NamesWhatItNeeds(r)
  BY DEF IInv, RequestOK
<1>4. RequestOK(r)'
  BY <1>1, <1>2, <1>3 DEF RequestOK, NamesWhatItNeeds, ChangesOK, PresentsOK, NamesVerifier, Presents
<1> QED
  BY <1>2, <1>4, QuietStep DEF AuthorizeBind

LEMMA FindVerifierKeeps == ASSUME IInv, NEW r \in Requests, FindVerifier(r) PROVE IInv'
<1>1. req[r].pc = "find" /\ Advance(r, "insert") /\ verifier[req[r].verifier] = "active"
  BY DEF FindVerifier, At, ActiveVerifiers
<1>2. /\ req'[r] \in Request /\ req' = [ req EXCEPT ![r] = req'[r] ]
      /\ req'[r].pc = "insert" /\ req'[r].user = req[r].user /\ req'[r].verifier = req[r].verifier
  BY <1>1, AdvanceFacts DEF Advance
<1>3. NamesWhatItNeeds(r)
  BY DEF IInv, RequestOK
<1>4. verifier' = verifier
  BY DEF FindVerifier
<1>5. RequestOK(r)'
  BY <1>1, <1>2, <1>3, <1>4 DEF RequestOK, NamesWhatItNeeds, ChangesOK, PresentsOK, NamesVerifier, Presents
<1> QED
  BY <1>2, <1>5, QuietStep DEF FindVerifier

LEMMA RegisterKeeps == ASSUME IInv, NEW r \in Requests, Register(r) PROVE IInv'
<1>1. PICK v \in Verifiers : verifier[v] = "none" /\ verifier' = [ verifier EXCEPT ![v] = "active" ]
  BY DEF Register
<1>2. /\ verifier' \in [ Verifiers -> { "none", "active", "disabled" } ]
      /\ \A w \in Verifiers : verifier[w] # "none" => verifier'[w] = verifier[w]
  BY <1>1 DEF IInv, TypeOK
<1>3. accounts' = accounts /\ role' = role /\ token' = token /\ Finish(r)
  BY DEF Register
<1>4. Forward
  BY <1>2, <1>3 DEF Forward, Exists
<1>5. \A t \in Tokens : Exists(t)' /\ token'[t].verifier # None => verifier'[token'[t].verifier] # "none"
  <2> SUFFICES ASSUME NEW t \in Tokens, token[t] # None, token[t].verifier # None
               PROVE  verifier'[token[t].verifier] # "none"
    BY <1>3 DEF Exists
  <2>1. token[t].verifier \in Verifiers /\ verifier[token[t].verifier] # "none"
    BY DEF IInv, TypeOK, Token, Exists
  <2> QED
    BY <1>2, <2>1
<1> QED
  BY <1>2, <1>3, <1>4, <1>5, LastStep DEF IInv, TypeOK

LEMMA DisableKeeps == ASSUME IInv, NEW r \in Requests, Disable(r) PROVE IInv'
<1> DEFINE d == req[r].verifier
<1>1. /\ req[r].pc = "disable" /\ verifier[d] = "active"
      /\ verifier' = [ verifier EXCEPT ![d] = "disabled" ]
      /\ Advance(r, "revoke bound") /\ accounts' = accounts /\ role' = role /\ token' = token
  BY DEF Disable, At
<1>2. NamesWhatItNeeds(r) /\ d \in Verifiers
  BY <1>1 DEF IInv, RequestOK, NamesWhatItNeeds, NamesVerifier
<1>3. /\ verifier' \in [ Verifiers -> { "none", "active", "disabled" } ]
      /\ verifier'[d] = "disabled"
      /\ \A w \in Verifiers : w # d => verifier'[w] = verifier[w]
  BY <1>1, <1>2 DEF IInv, TypeOK
<1>4. /\ req'[r] \in Request /\ req' = [ req EXCEPT ![r] = req'[r] ]
      /\ req'[r].pc = "revoke bound" /\ req'[r].user = req[r].user /\ req'[r].verifier = d
  BY <1>1, AdvanceFacts DEF Advance
<1>5. RequestOK(r)'
  BY <1>1, <1>2, <1>3, <1>4 DEF RequestOK, NamesWhatItNeeds, ChangesOK, PresentsOK, NamesVerifier, Presents
<1>6. Forward
  BY <1>1, <1>3 DEF Forward, Exists
<1>7. \A s \in Requests : RequestOK(s)'
  BY <1>1, <1>4, <1>5, <1>6, OthersCarried
<1>8. TypeOK'
  <2>1. \A t \in Tokens : Exists(t)' /\ token'[t].verifier # None => verifier'[token'[t].verifier] # "none"
    <3> SUFFICES ASSUME NEW t \in Tokens, token[t] # None, token[t].verifier # None
                 PROVE  verifier'[token[t].verifier] # "none"
      BY <1>1 DEF Exists
    <3>1. token[t].verifier \in Verifiers /\ verifier[token[t].verifier] # "none"
      BY DEF IInv, TypeOK, Token, Exists
    <3> QED
      BY <1>3, <3>1
  <2> QED
    BY <1>1, <1>3, <1>4, <2>1 DEF IInv, TypeOK
<1> QED
  BY <1>7, <1>8 DEF IInv

LEMMA RevokeBoundKeeps == ASSUME IInv, NEW r \in Requests, RevokeBound(r) PROVE IInv'
<1> DEFINE S == { t \in Tokens : IsBoundTo(t, req[r].verifier) }
<1>1. token' = [ t \in Tokens |->
        IF Exists(t) /\ t \in S THEN [ token[t] EXCEPT !.revoked = TRUE ] ELSE token[t] ]
  BY DEF RevokeBound, Revoked
<1> HIDE DEF S
<1> QED
  BY <1>1, RevokingIsForward, LastStep DEF RevokeBound, IInv, TypeOK

LEMMA RevokeKeeps == ASSUME IInv, NEW r \in Requests, Revoke(r) PROVE IInv'
<1> DEFINE S == { t \in Tokens : t = req[r].token /\ Own(req[r].user, t) }
<1>1. token' = [ t \in Tokens |->
        IF Exists(t) /\ t \in S THEN [ token[t] EXCEPT !.revoked = TRUE ] ELSE token[t] ]
  BY DEF Revoke, Revoked
<1> HIDE DEF S
<1> QED
  BY <1>1, RevokingIsForward, LastStep DEF Revoke, IInv, TypeOK

LEMMA AfterDeleteKeeps == ASSUME IInv, NEW r \in Requests, AfterDelete(r) PROVE IInv'
<1> DEFINE S == { t \in Tokens : Own(req[r].user, t) }
<1>1. token' = [ t \in Tokens |->
        IF Exists(t) /\ t \in S THEN [ token[t] EXCEPT !.revoked = TRUE ] ELSE token[t] ]
  BY DEF AfterDelete, Revoked
<1> HIDE DEF S
<1> QED
  BY <1>1, RevokingIsForward, LastStep DEF AfterDelete, IInv, TypeOK

LEMMA InsertKeeps == ASSUME IInv, NEW r \in Requests, Insert(r) PROVE IInv'
<1> DEFINE row == [ user |-> req[r].user, verifier |-> req[r].verifier, revoked |-> FALSE ]
<1>1. PICK t \in Tokens : ~ Exists(t) /\ token' = [ token EXCEPT ![t] = row ]
  BY DEF Insert
<1>2. /\ row \in Token /\ row.verifier = req[r].verifier
      /\ req[r].verifier # None => verifier[req[r].verifier] # "none"
  <2>1. req[r] \in Request /\ req[r].pc = "insert" /\ NamesWhatItNeeds(r) /\ ChangesOK(r)
    BY DEF IInv, TypeOK, RequestOK, Insert, At
  <2> QED
    BY <2>1 DEF Request, Token, NamesWhatItNeeds, ChangesOK
<1>3. accounts' = accounts /\ role' = role /\ verifier' = verifier /\ Finish(r)
  BY DEF Insert
<1> HIDE DEF row
<1>4. /\ token' \in [ Tokens -> Token \cup {None} ]
      /\ token'[t] = row
      /\ \A s \in Tokens : s # t => token'[s] = token[s]
  BY <1>1, <1>2 DEF IInv, TypeOK
<1>5. Forward
  BY <1>1, <1>3, <1>4 DEF Forward, Exists
<1>6. \A s \in Tokens : Exists(s)' /\ token'[s].verifier # None => verifier'[token'[s].verifier] # "none"
  BY <1>2, <1>3, <1>4 DEF IInv, TypeOK, Exists
<1> QED
  BY <1>3, <1>4, <1>5, <1>6, LastStep DEF IInv, TypeOK

LEMMA ArriveKeeps == ASSUME IInv, NEW r \in Requests, Arrive(r) PROVE IInv'
<1>1. PICK t \in Tokens :
        /\ Exists(t)
        /\ req' = [ req EXCEPT ![r] =
             [ Idle EXCEPT !.pc = "read token", !.token = t, !.user = token[t].user,
                           !.tokenWasLive = ~ token[t].revoked,
                           !.verifierWasActive = \A v \in Verifiers \ ActiveVerifiers : token[t].verifier # v,
                           !.userWasMember = role[token[t].user] # "none" ] ]
  BY DEF Arrive
<1>2. /\ token[t] \in Token
      /\ token[t].verifier \in Verifiers => verifier[token[t].verifier] \in { "active", "disabled" }
  BY <1>1, CredentialsAssumption DEF IInv, TypeOK, Exists
<1> DEFINE live == ~ token[t].revoked
           active == \A v \in Verifiers \ ActiveVerifiers : token[t].verifier # v
           member == role[token[t].user] # "none"
           q == [ Idle EXCEPT !.pc = "read token", !.token = t, !.user = token[t].user,
                              !.tokenWasLive = live, !.verifierWasActive = active, !.userWasMember = member ]
<1>3. req' = [ req EXCEPT ![r] = q ] /\ req'[r] = q
  <2>1. req' = [ req EXCEPT ![r] = q ]
    BY <1>1
  <2> HIDE DEF q
  <2> QED
    BY <2>1 DEF IInv, TypeOK
<1>4. \/ active
      \/ token[t].verifier \in Verifiers /\ verifier[token[t].verifier] = "disabled"
  BY <1>2 DEF ActiveVerifiers
<1>5. token' = token /\ verifier' = verifier /\ role' = role /\ accounts' = accounts
  BY DEF Arrive
<1> HIDE DEF live, active, member
<1>6. q \in Request
  <2>1. live \in BOOLEAN /\ active \in BOOLEAN /\ member \in BOOLEAN
    BY DEF live, active, member
  <2> QED
    BY <1>2, <2>1 DEF Request, Token, Idle
<1>7. /\ q.pc = "read token" /\ q.token = t /\ q.user = token[t].user
      /\ q.tokenWasLive = live /\ q.verifierWasActive = active /\ q.userWasMember = member
  BY DEF Idle
<1> HIDE DEF q
<1>8. NamesWhatItNeeds(r)'
  BY <1>1, <1>2, <1>3, <1>5, <1>7 DEF NamesWhatItNeeds, NamesVerifier, Exists, Token
<1>9. ChangesOK(r)'
  BY <1>3, <1>7 DEF ChangesOK
<1>10. PresentsOK(r)'
  BY <1>3, <1>4, <1>5, <1>7 DEF PresentsOK, live, member
<1> QED
  BY <1>3, <1>5, <1>6, <1>8, <1>9, <1>10, QuietStep DEF RequestOK

LEMMA ReadTokenKeeps == ASSUME IInv, NEW r \in Requests, ReadToken(r) PROVE IInv'
<1>1. /\ req[r].pc = "read token" /\ Advance(r, "access")
      /\ ~ token[req[r].token].revoked
      /\ token[req[r].token].verifier \in ActiveVerifiers \cup {None}
      /\ role' = role /\ token' = token /\ accounts' = accounts /\ verifier' = verifier
  BY DEF ReadToken, At, OfActiveVerifier
<1>2. /\ req'[r] \in Request /\ req' = [ req EXCEPT ![r] = req'[r] ]
      /\ req'[r].pc = "access" /\ req'[r].user = req[r].user /\ req'[r].token = req[r].token
      /\ req'[r].tokenWasLive = req[r].tokenWasLive
      /\ req'[r].verifierWasActive = req[r].verifierWasActive
      /\ req'[r].userWasMember = req[r].userWasMember
  BY <1>1, AdvanceFacts DEF Advance
<1>3. NamesWhatItNeeds(r) /\ PresentsOK(r)
  BY DEF IInv, RequestOK
<1>4. req[r].tokenWasLive /\ req[r].verifierWasActive
  BY <1>1, <1>3, CredentialsAssumption DEF PresentsOK, ActiveVerifiers
<1>5. NamesWhatItNeeds(r)'
  BY <1>1, <1>2, <1>3 DEF NamesWhatItNeeds, NamesVerifier, Presents, Exists
<1>6. ChangesOK(r)' /\ PresentsOK(r)'
  BY <1>1, <1>2, <1>3, <1>4 DEF ChangesOK, PresentsOK
<1> QED
  BY <1>1, <1>2, <1>5, <1>6, QuietStep DEF RequestOK

LEMMA CheckAccessKeeps == ASSUME IInv, NEW r \in Requests, CheckAccess(r) PROVE IInv'
<1>1. /\ req[r].pc = "access" /\ Advance(r, "admitted") /\ role[req[r].user] # "none"
      /\ role' = role /\ token' = token /\ accounts' = accounts /\ verifier' = verifier
  BY DEF CheckAccess, At
<1>2. /\ req'[r] \in Request /\ req' = [ req EXCEPT ![r] = req'[r] ]
      /\ req'[r].pc = "admitted" /\ req'[r].user = req[r].user /\ req'[r].token = req[r].token
      /\ req'[r].tokenWasLive = req[r].tokenWasLive
      /\ req'[r].verifierWasActive = req[r].verifierWasActive
      /\ req'[r].userWasMember = req[r].userWasMember
  BY <1>1, AdvanceFacts DEF Advance
<1>3. NamesWhatItNeeds(r) /\ PresentsOK(r)
  BY DEF IInv, RequestOK
<1>4. NamesWhatItNeeds(r)'
  BY <1>1, <1>2, <1>3 DEF NamesWhatItNeeds, NamesVerifier, Presents, Exists
<1>5. ChangesOK(r)' /\ PresentsOK(r)'
  BY <1>1, <1>2, <1>3 DEF ChangesOK, PresentsOK
<1> QED
  BY <1>1, <1>2, <1>4, <1>5, QuietStep DEF RequestOK

LEMMA DeleteAccountKeeps == ASSUME IInv, NEW r \in Requests, DeleteAccount(r) PROVE IInv'
<1>1. PICK u \in accounts :
        /\ accounts' = accounts \ {u}
        /\ role' = [ role EXCEPT ![u] = "none" ]
        /\ req' = [ req EXCEPT ![r] = [ Idle EXCEPT !.pc = "after delete", !.user = u ] ]
  BY DEF DeleteAccount
<1>2. u \in Users /\ token' = token /\ verifier' = verifier
  BY DEF DeleteAccount, IInv, TypeOK
<1> DEFINE q == [ Idle EXCEPT !.pc = "after delete", !.user = u ]
<1>3. q \in Request /\ q.pc = "after delete" /\ q.user = u
  BY <1>2 DEF Idle, Request
<1>4. req' = [ req EXCEPT ![r] = q ] /\ req'[r] = q
  BY <1>1 DEF IInv, TypeOK
<1> HIDE DEF q
<1>5. RequestOK(r)'
  BY <1>1, <1>2, <1>3, <1>4 DEF RequestOK, NamesWhatItNeeds, ChangesOK, PresentsOK, NamesVerifier, Presents
<1>6. /\ role' \in [ Users -> Roles ]
      /\ \A w \in Users : role'[w] # "none" => role[w] # "none"
      /\ \A w \in Users \ accounts' : role'[w] = "none"
  BY <1>1, <1>2 DEF IInv, TypeOK, Roles
<1>7. Forward
  BY <1>1, <1>2 DEF Forward, Exists
<1>8. \A s \in Requests : RequestOK(s)'
  BY <1>4, <1>5, <1>6, <1>7, OthersCarried
<1>9. TypeOK'
  BY <1>1, <1>2, <1>3, <1>4, <1>6 DEF IInv, TypeOK, Exists
<1> QED
  BY <1>8, <1>9 DEF IInv

LEMMA ChangeRoleKeeps == ASSUME IInv, ChangeRole PROVE IInv'
<1>1. PICK change \in RoleChanges :
        change[1] \in accounts /\ NewRoles([ role EXCEPT ![change[1]] = change[2] ])
  BY DEF ChangeRole
<1>2. change[1] \in Users /\ change[2] \in Roles
  BY CredentialsAssumption
<1> DEFINE new == [ role EXCEPT ![change[1]] = change[2] ]
<1>3. new \in [ Users -> Roles ] /\ \A u \in Users \ accounts : new[u] = "none"
  BY <1>1, <1>2 DEF IInv, TypeOK
<1>4. /\ role' = new /\ accounts' = accounts /\ verifier' = verifier /\ token' = token
      /\ req' = [ r \in Requests |->
           IF req[r].pc \in { "read token", "access" }
           THEN [ req[r] EXCEPT !.userWasMember = @ \/ new[req[r].user] # "none" ]
           ELSE req[r] ]
  BY <1>1 DEF ChangeRole, NewRoles
<1> HIDE DEF new
<1>5. ASSUME NEW r \in Requests
      PROVE  req'[r] \in Request /\ RequestOK(r)'
  <2> DEFINE q == req[r]
             noted == q.userWasMember \/ new[q.user] # "none"
  <2>1. q \in Request
    BY DEF IInv, TypeOK
  <2>2. CASE q.pc \in { "read token", "access" }
    <3>1. req'[r] = [ q EXCEPT !.userWasMember = noted ]
      BY <1>4, <2>2
    <3>2. noted \in BOOLEAN
      BY <2>1 DEF Request
    <3>3. q.userWasMember => noted
      BY <2>1 DEF Request
    <3>4. new[q.user] # "none" => noted
      OBVIOUS
    <3> HIDE DEF noted, q
    <3>5. /\ req'[r] \in Request /\ req'[r].pc = q.pc /\ req'[r].user = q.user
          /\ req'[r].verifier = q.verifier /\ req'[r].token = q.token
          /\ req'[r].tokenWasLive = q.tokenWasLive /\ req'[r].verifierWasActive = q.verifierWasActive
          /\ req'[r].userWasMember = noted
      BY <2>1, <3>1, <3>2 DEF Request
    <3>6. RequestOK(r)'
      BY <1>4, <3>3, <3>4, <3>5, StillIsForward, Carried DEF q
    <3> QED
      BY <3>5, <3>6
  <2>3. CASE q.pc \notin { "read token", "access" }
    <3>1. req'[r] = q
      BY <1>4, <2>3
    <3> QED
      BY <1>4, <2>1, <2>3, <3>1, StillIsForward, Carried
  <2> QED
    BY <2>2, <2>3
<1>6. TypeOK'
  <2>1. req' \in [ Requests -> Request ]
    BY <1>4, <1>5
  <2> QED
    BY <1>3, <1>4, <2>1 DEF IInv, TypeOK, Exists
<1> QED
  BY <1>5, <1>6 DEF IInv

LEMMA NextKeeps == IInv /\ [Next]_vars => IInv'
<1> SUFFICES ASSUME IInv, [Next]_vars PROVE IInv'
  OBVIOUS
<1>1. ASSUME NEW r \in Requests,
             \/ BeginManage(r) \/ Authorize(r) \/ Register(r) \/ Disable(r) \/ RevokeBound(r)
             \/ BeginCreate(r) \/ AuthorizeBind(r) \/ FindVerifier(r) \/ Insert(r)
             \/ BeginRevoke(r) \/ Revoke(r)
             \/ Arrive(r) \/ ReadToken(r) \/ CheckAccess(r)
             \/ DeleteAccount(r) \/ AfterDelete(r)
             \/ Stop(r)
      PROVE  IInv'
  BY <1>1, BeginManageKeeps, AuthorizeKeeps, RegisterKeeps, DisableKeeps, RevokeBoundKeeps,
     BeginCreateKeeps, AuthorizeBindKeeps, FindVerifierKeeps, InsertKeeps, BeginRevokeKeeps, RevokeKeeps,
     ArriveKeeps, ReadTokenKeeps, CheckAccessKeeps, DeleteAccountKeeps, AfterDeleteKeeps, StopKeeps
<1>2. CASE UNCHANGED vars
  <2>1. Forward
    BY <1>2, StillIsForward DEF vars
  <2>2. \A r \in Requests : RequestOK(r)'
    BY <1>2, <2>1, Carried DEF vars
  <2> QED
    BY <1>2, <2>2 DEF vars, IInv, TypeOK, Exists
<1> QED
  BY <1>1, <1>2, ChangeRoleKeeps DEF Next

-----------------------------------------------------------------------------
(* The theorems.                                                           *)

\* Whatever requests run at once, and wherever they end, every reachable state of
\* the credentials satisfies the inductive invariant.
THEOREM CredentialsInvariant == Spec => []IInv
BY InitHolds, NextKeeps, PTL DEF Spec

\* The rows of the tables are of their kind, a deleted account has no membership,
\* and a token is bound only to a verifier that was registered.
THEOREM TypeCorrect == Spec => []TypeOK
<1>1. IInv => TypeOK
  BY DEF IInv
<1> QED
  BY <1>1, CredentialsInvariant, PTL

\* authenticateApiRequest admits no request whose token, verifier or membership was
\* gone before it began, though it checks them in two statements and though a
\* disabled verifier or a deleted account may leave tokens that nobody revoked.
THEOREM StaleCredentialsRefused == Spec => []StaleCredentialsAreRefused
<1>1. IInv => StaleCredentialsAreRefused
  BY DEF IInv, RequestOK, PresentsOK, StaleCredentialsAreRefused, At
<1> QED
  BY <1>1, CredentialsInvariant, PTL

\* No step revokes a token but for its user, its disabled verifier or its user's
\* deleted account.
LEMMA RevokedFor ==
  ASSUME IInv, [Next]_vars, NEW t \in Tokens, Exists(t), ~ token[t].revoked, token'[t].revoked
  PROVE  \/ token[t].user \notin accounts
         \/ token[t].verifier # None /\ verifier[token[t].verifier] = "disabled"
         \/ \E r \in Requests : At(r, "revoke") /\ req[r].user = token[t].user
<1>1. token'[t] # token[t]
  OBVIOUS
<1>2. PICK r \in Requests : RevokeBound(r) \/ Revoke(r) \/ AfterDelete(r) \/ Insert(r)
  BY <1>1 DEF Next, vars, BeginManage, Authorize, Register, Disable, BeginCreate, AuthorizeBind, FindVerifier,
     BeginRevoke, Arrive, ReadToken, CheckAccess, DeleteAccount, Stop, ChangeRole
<1>3. CASE RevokeBound(r)
  <2>1. token[t].verifier = req[r].verifier
    BY <1>1, <1>3 DEF RevokeBound, Revoked, IsBoundTo
  <2>2. req[r].verifier \in Verifiers /\ verifier[req[r].verifier] = "disabled"
    BY <1>3 DEF RevokeBound, At, IInv, RequestOK, NamesWhatItNeeds, ChangesOK, NamesVerifier
  <2> QED
    BY <2>1, <2>2, CredentialsAssumption
<1>4. CASE Revoke(r)
  <2>1. token[t].user = req[r].user /\ At(r, "revoke")
    BY <1>1, <1>4 DEF Revoke, Revoked, Own
  <2> QED
    BY <2>1
<1>5. CASE AfterDelete(r)
  <2>1. token[t].user = req[r].user
    BY <1>1, <1>5 DEF AfterDelete, Revoked, Own
  <2>2. req[r].user \notin accounts
    BY <1>5 DEF AfterDelete, At, IInv, RequestOK, ChangesOK
  <2> QED
    BY <2>1, <2>2
<1>6. CASE Insert(r)
  <2>1. PICK s \in Tokens :
          /\ ~ Exists(s)
          /\ token' = [ token EXCEPT ![s] =
               [ user |-> req[r].user, verifier |-> req[r].verifier, revoked |-> FALSE ] ]
    BY <1>6 DEF Insert
  <2> QED
    BY <1>1, <2>1 DEF IInv, TypeOK
<1> QED
  BY <1>2, <1>3, <1>4, <1>5, <1>6

\* In every behaviour a token is revoked on its own user's request, with its verifier,
\* or with its user's account, and never by what happens to other credentials.
THEOREM OnlyRevokedForCause == Spec => RevokedForCause
<1>1. IInv /\ [Next]_vars =>
        [ \A t \in Tokens :
            Exists(t) /\ ~ token[t].revoked /\ token'[t].revoked =>
              \/ token[t].user \notin accounts
              \/ token[t].verifier # None /\ verifier[token[t].verifier] = "disabled"
              \/ \E r \in Requests : At(r, "revoke") /\ req[r].user = token[t].user ]_vars
  BY RevokedFor
<1> QED
  BY <1>1, CredentialsInvariant, PTL DEF Spec, RevokedForCause

-----------------------------------------------------------------------------
(* The two ways in which disabling a verifier fails to revoke.             *)

\* Without them: a request that has disabled a verifier is not ended before it has
\* revoked, and no token is inserted for a verifier that is not active any more.
CarefulStep ==
  /\ Next
  /\ \A r \in Requests :
       /\ At(r, "revoke bound") /\ req'[r] = Idle => RevokeBound(r)
       /\ Insert(r) => req[r].verifier \in ActiveVerifiers \cup {None}

CarefulSpec == Init /\ [][CarefulStep]_vars

\* A token whose verifier is disabled is revoked, or about to be.
RevokedOrAboutToBe ==
  \A t \in Tokens :
    /\ Exists(t)
    /\ token[t].verifier # None
    /\ verifier[token[t].verifier] = "disabled"
    => \/ token[t].revoked
       \/ \E r \in Requests : At(r, "revoke bound") /\ req[r].verifier = token[t].verifier

\* A request that is about to revoke stays so until it has.
LEMMA RevokersStay ==
  ASSUME IInv, [CarefulStep]_vars, NEW r \in Requests, At(r, "revoke bound"), ~ RevokeBound(r)
  PROVE  At(r, "revoke bound")' /\ req'[r].verifier = req[r].verifier
<1>1. /\ req \in [ Requests -> Request ]
      /\ req[r].pc = "revoke bound" /\ req[r] # Idle
  BY IdleFacts DEF IInv, TypeOK, At
<1>2. CASE UNCHANGED vars
  BY <1>1, <1>2 DEF vars, At
<1>3. CASE ChangeRole
  BY <1>1, <1>3 DEF ChangeRole, NewRoles, At
<1>4. ASSUME NEW s \in Requests, NEW q, s # r, req' = [ req EXCEPT ![s] = q ]
      PROVE  At(r, "revoke bound")' /\ req'[r].verifier = req[r].verifier
  BY <1>1, <1>4 DEF At
<1>5. ASSUME NEW s \in Requests,
             \/ BeginManage(s) \/ Authorize(s) \/ Register(s) \/ Disable(s) \/ RevokeBound(s)
             \/ BeginCreate(s) \/ AuthorizeBind(s) \/ FindVerifier(s) \/ Insert(s)
             \/ BeginRevoke(s) \/ Revoke(s)
             \/ Arrive(s) \/ ReadToken(s) \/ CheckAccess(s)
             \/ DeleteAccount(s) \/ AfterDelete(s)
             \/ Stop(s)
      PROVE  At(r, "revoke bound")' /\ req'[r].verifier = req[r].verifier
  <2>1. s # r
    <3> SUFFICES ASSUME s = r PROVE FALSE
      OBVIOUS
    <3>1. ~ Stop(r)
      BY <1>1 DEF Stop, Finish, CarefulStep, vars, At
    <3>2. ~ (BeginManage(r) \/ BeginCreate(r) \/ BeginRevoke(r) \/ Arrive(r) \/ DeleteAccount(r))
      BY <1>1 DEF BeginManage, BeginCreate, BeginRevoke, Begin, Arrive, DeleteAccount
    <3> QED
      BY <1>1, <1>5, <3>1, <3>2 DEF Authorize, Register, Disable, AuthorizeBind, FindVerifier, Insert,
         Revoke, ReadToken, CheckAccess, AfterDelete, At
  <2>2. CASE BeginManage(s) \/ BeginCreate(s) \/ BeginRevoke(s) \/ Arrive(s) \/ DeleteAccount(s)
    BY <1>4, <2>1, <2>2 DEF BeginManage, BeginCreate, BeginRevoke, Begin, Arrive, DeleteAccount
  <2>3. CASE Authorize(s) \/ AuthorizeBind(s) \/ FindVerifier(s) \/ Disable(s) \/ ReadToken(s) \/ CheckAccess(s)
    BY <1>1, <2>1, <2>3 DEF Authorize, AuthorizeBind, FindVerifier, Disable, ReadToken, CheckAccess, Advance, At
  <2>4. CASE Register(s) \/ RevokeBound(s) \/ Insert(s) \/ Revoke(s) \/ AfterDelete(s) \/ Stop(s)
    BY <1>4, <2>1, <2>4 DEF Register, RevokeBound, Insert, Revoke, AfterDelete, Stop, Finish
  <2> QED
    BY <1>5, <2>2, <2>3, <2>4
<1> QED
  BY <1>2, <1>3, <1>5 DEF CarefulStep, Next

\* What is written of tokens and verifiers, and by whom.
LEMMA CredentialWrites ==
  ASSUME IInv, [Next]_vars, NEW t \in Tokens, Exists(t)',
         LET v == token'[t].verifier IN v # None /\ verifier'[v] = "disabled",
         ~ token'[t].revoked
  PROVE  \/ /\ Exists(t) /\ ~ token[t].revoked /\ token'[t].verifier = token[t].verifier
            /\ verifier[token[t].verifier] = "disabled"
            /\ \A r \in Requests : RevokeBound(r) => req[r].verifier # token[t].verifier
         \/ \E r \in Requests : Disable(r) /\ req[r].verifier = token'[t].verifier
         \/ \E r \in Requests :
              Insert(r) /\ req[r].verifier = token'[t].verifier /\ verifier' = verifier
<1>1. /\ token \in [ Tokens -> Token \cup {None} ]
      /\ verifier \in [ Verifiers -> { "none", "active", "disabled" } ]
      /\ token'[t] \in Token
  BY NextKeeps DEF IInv, TypeOK, Exists
<1> DEFINE v == token'[t].verifier
<1>2. v \in Verifiers /\ verifier'[v] = "disabled"
  BY <1>1 DEF Token
<1>3. ASSUME Exists(t), token'[t] = token[t], verifier[v] = "disabled"
      PROVE  /\ Exists(t) /\ ~ token[t].revoked /\ token'[t].verifier = token[t].verifier
             /\ verifier[token[t].verifier] = "disabled"
             /\ \A r \in Requests : RevokeBound(r) => req[r].verifier # token[t].verifier
  <2>1. ASSUME NEW r \in Requests, RevokeBound(r), req[r].verifier = token[t].verifier
        PROVE  FALSE
    <3>1. token'[t] = [ token[t] EXCEPT !.revoked = TRUE ]
      BY <1>3, <2>1 DEF RevokeBound, Revoked, IsBoundTo
    <3> QED
      BY <1>1, <1>3, <3>1 DEF Token, Exists
  <2> QED
    BY <1>3, <2>1
<1>4. CASE token' = token /\ verifier' = verifier
  BY <1>2, <1>3, <1>4 DEF Exists
<1>5. ASSUME NEW r \in Requests, Register(r) \/ Disable(r)
      PROVE  verifier[v] = "disabled" \/ (Disable(r) /\ req[r].verifier = v)
  BY <1>1, <1>2, <1>5 DEF Register, Disable
<1>6. ASSUME NEW r \in Requests, RevokeBound(r) \/ Revoke(r) \/ AfterDelete(r)
      PROVE  Exists(t) /\ token'[t] = token[t] /\ verifier' = verifier
  <2>1. ASSUME NEW which(_), token' = Revoked(which)
        PROVE  Exists(t) /\ token'[t] = token[t]
    BY <1>1, <2>1 DEF Revoked, Exists, Token
  <2> QED
    BY <1>6, <2>1 DEF RevokeBound, Revoke, AfterDelete
<1>7. ASSUME NEW r \in Requests, Insert(r)
      PROVE  /\ verifier' = verifier
             /\ (Exists(t) /\ token'[t] = token[t]) \/ req[r].verifier = v
  BY <1>1, <1>7 DEF Insert, Exists
<1>8. ASSUME NEW r \in Requests,
             \/ BeginManage(r) \/ Authorize(r) \/ BeginCreate(r) \/ AuthorizeBind(r) \/ FindVerifier(r)
             \/ BeginRevoke(r) \/ Arrive(r) \/ ReadToken(r) \/ CheckAccess(r)
             \/ DeleteAccount(r) \/ Stop(r)
      PROVE  token' = token /\ verifier' = verifier
  BY <1>8 DEF BeginManage, Authorize, BeginCreate, AuthorizeBind, FindVerifier, BeginRevoke, Arrive,
     ReadToken, CheckAccess, DeleteAccount, Stop
<1>9. CASE ChangeRole \/ UNCHANGED vars
  BY <1>4, <1>9 DEF ChangeRole, vars
<1>10. ASSUME NEW r \in Requests, Register(r) \/ Disable(r)
       PROVE  token' = token
  BY <1>10 DEF Register, Disable
<1> QED
  BY <1>2, <1>3, <1>4, <1>5, <1>6, <1>7, <1>8, <1>9, <1>10 DEF Next, Exists

\* Unless a request is ended between disabling a verifier and revoking, or a token is
\* inserted for a verifier that was disabled since it was looked up, what
\* docs/TRUST_PROTOCOL.md says of disabling holds: finding DisablingRevokesTokens has
\* these two causes and no other.
THEOREM CarefulDisablingRevokes == CarefulSpec => []DisablingRevokesTokens
<1>1. Init => IInv /\ RevokedOrAboutToBe
  BY InitHolds DEF Init, RevokedOrAboutToBe, Exists
<1>2. IInv /\ RevokedOrAboutToBe /\ [CarefulStep]_vars => (IInv /\ RevokedOrAboutToBe)'
  <2> SUFFICES ASSUME IInv, RevokedOrAboutToBe, [CarefulStep]_vars
               PROVE  IInv' /\ RevokedOrAboutToBe'
    OBVIOUS
  <2>1. [Next]_vars /\ IInv'
    BY NextKeeps DEF CarefulStep
  <2>2. ASSUME NEW t \in Tokens, Exists(t)', token'[t].verifier # None,
               verifier'[token'[t].verifier] = "disabled", ~ token'[t].revoked
        PROVE  \E r \in Requests : At(r, "revoke bound")' /\ req'[r].verifier = token'[t].verifier
    <3>1. CASE /\ Exists(t) /\ ~ token[t].revoked /\ token'[t].verifier = token[t].verifier
               /\ verifier[token[t].verifier] = "disabled"
               /\ \A r \in Requests : RevokeBound(r) => req[r].verifier # token[t].verifier
      <4>1. PICK r \in Requests : At(r, "revoke bound") /\ req[r].verifier = token[t].verifier
        BY <2>2, <3>1 DEF RevokedOrAboutToBe
      <4> QED
        BY <3>1, <4>1, RevokersStay
    <3>2. CASE \E r \in Requests : Disable(r) /\ req[r].verifier = token'[t].verifier
      <4>1. PICK r \in Requests : Disable(r) /\ req[r].verifier = token'[t].verifier
        BY <3>2
      <4>2. req[r] \in Request /\ req' = [ req EXCEPT ![r].pc = "revoke bound" ]
        BY <4>1 DEF Disable, Advance, IInv, TypeOK
      <4>3. req'[r].pc = "revoke bound" /\ req'[r].verifier = req[r].verifier
        BY <4>2 DEF IInv, TypeOK, Request
      <4> QED
        BY <4>1, <4>3 DEF At
    <3>3. CASE \E r \in Requests :
                 Insert(r) /\ req[r].verifier = token'[t].verifier /\ verifier' = verifier
      <4>1. PICK r \in Requests :
              Insert(r) /\ req[r].verifier = token'[t].verifier /\ verifier' = verifier
        BY <3>3
      <4>2. ~ UNCHANGED vars
        BY <4>1, IdleFacts DEF Insert, Finish, At, vars, IInv, TypeOK
      <4>3. req[r].verifier \in ActiveVerifiers
        BY <2>2, <4>1, <4>2 DEF CarefulStep
      <4> QED
        BY <2>2, <4>1, <4>3 DEF ActiveVerifiers
    <3> QED
      BY <2>1, <2>2, <3>1, <3>2, <3>3, CredentialWrites
  <2> QED
    BY <2>1, <2>2 DEF RevokedOrAboutToBe, Exists, At
<1>3. IInv /\ RevokedOrAboutToBe => DisablingRevokesTokens
  BY DEF RevokedOrAboutToBe, DisablingRevokesTokens
<1> QED
  BY <1>1, <1>2, <1>3, PTL DEF CarefulSpec
=============================================================================
