-------------------------- MODULE WorkspaceProofs --------------------------
(***************************************************************************)
(* Proofs, for any number of users, workspaces, invitations and concurrent *)
(* requests, of the safety properties of module Workspace.                 *)
(*                                                                         *)
(* The invariant (IInv) says of every request in flight what it may rely   *)
(* on (RequestOK): that the row it locked is still there, that nobody else *)
(* has spent its invitation, and, of what no lock protects, that it holds  *)
(* unless its history has recorded otherwise.  A request that does not     *)
(* move keeps all that if its history follows the membership (Follows) and *)
(* the tables leave what it has locked alone (Spares): that is Carried.    *)
(***************************************************************************)
EXTENDS Workspace, FiniteSetTheorems, TLAPS

Seeking     == { "preferred", "existing" }
InWorkspace == { "preferred", "existing", "adopt", "bootstrap", "authorize", "issue", "lock", "count", "change" }
HasWorkspace == { "adopt", "authorize", "issue", "switch", "join", "accept", "lock", "count", "change" }
HasOwn      == { "adopt", "authorize", "issue", "lock", "count", "change" }
Watched     == { "preferred", "existing", "adopt", "bootstrap", "switch", "join", "accept" }
HoldsRow    == { "accept", "count", "change" }

\* Who a request acts for and what it asks.
AskOK(r) ==
  /\ req[r].pc # "idle" => req[r].user \in Users
  /\ req[r].pc \in InWorkspace =>
       /\ req[r].target \in Users
       /\ req[r].op \in { "role", "remove", "invite" }
       /\ req[r].op = "role" => req[r].newRole \in AssignedRoles
       /\ req[r].op = "invite" => req[r].newRole \in InvitedRoles
  /\ req[r].pc = "issue" => req[r].op = "invite"
  /\ req[r].pc \in HasWorkspace => req[r].ws \in existing

\* The workspace it works in is one the user belonged to while it ran.
OwnOK(r) ==
  /\ req[r].pc \in Seeking => MemberOf(req[r].user) \subseteq req[r].been
  /\ req[r].pc \in HasOwn => req[r].ws \in req[r].been

\* What it has locked: no other request touches it.
LockedOK(r) ==
  /\ \A w \in Workspaces, u \in Users : rowLock[w][u] = r => req[r].pc \in HoldsRow
  /\ req[r].pc \in { "count", "change" } =>
       /\ rowLock[req[r].ws][req[r].target] = r
       /\ member[req[r].ws][req[r].target] # "none"
  /\ req[r].pc = "accept" /\ rowLock[req[r].ws][req[r].user] = r => member[req[r].ws][req[r].user] = "none"
  /\ req[r].pc \in { "join", "accept" } =>
       /\ req[r].invite \in Invites
       /\ inviteLock[req[r].invite] = r
       /\ invite[req[r].invite] # None
       /\ invite[req[r].invite].ws = req[r].ws
       /\ invite[req[r].invite].to = req[r].user
       /\ invite[req[r].invite].status # "accepted"

\* What it has read without a lock: that holds, or its history says it was overtaken.
ReadOK(r) ==
  /\ req[r].pc \in { "adopt", "switch" } => req[r].overtaken \/ req[r].ws \in MemberOf(req[r].user)
  /\ req[r].pc = "accept" =>
       \/ req[r].overtaken
       \/ rowLock[req[r].ws][req[r].user] = r
       \/ req[r].ws \in MemberOf(req[r].user)
  /\ req[r].pc = "bootstrap" =>
       req[r].overtaken \/ MemberOf(req[r].user) = {} \/ pref[req[r].user] # None

\* The owners it has counted, or found not to be its user alone, are still so, or
\* its history says that they moved.
CountOK(r) ==
  /\ req[r].pc = "change" => req[r].ownersMoved \/ Cardinality(Owners(req[r].ws)) >= req[r].owners
  /\ req[r].pc = "delete" => req[r].ownersMoved \/ \A w \in Workspaces : Owners(w) # { req[r].user }

RequestOK(r) == AskOK(r) /\ OwnOK(r) /\ LockedOK(r) /\ ReadOK(r) /\ CountOK(r)

\* Members and invitations belong to workspaces that exist.
TablesOK ==
  /\ \A w \in Workspaces, u \in Users : member[w][u] # "none" => w \in existing
  /\ \A i \in Invites : invite[i] # None => invite[i].ws \in existing

\* The inductive invariant.
IInv == TypeOK /\ TablesOK /\ \A r \in Requests : RequestOK(r)

\* Request r stays where it is, and its history follows the membership.
Follows(r) ==
  /\ req'[r] \in Request
  /\ req'[r].pc = req[r].pc /\ req'[r].op = req[r].op /\ req'[r].user = req[r].user
  /\ req'[r].ws = req[r].ws /\ req'[r].target = req[r].target /\ req'[r].newRole = req[r].newRole
  /\ req'[r].invite = req[r].invite /\ req'[r].owners = req[r].owners
  /\ req[r].been \subseteq req'[r].been
  /\ req[r].pc \in Seeking => MemberOf(req[r].user)' \subseteq req'[r].been
  /\ req[r].overtaken => req'[r].overtaken
  /\ req[r].pc \in Watched => req'[r].overtaken \/ MemberOf(req[r].user) \subseteq MemberOf(req[r].user)'
  /\ req[r].ownersMoved => req'[r].ownersMoved
  /\ req[r].pc = "change" => req'[r].ownersMoved \/ Owners(req[r].ws) \subseteq Owners(req[r].ws)'
  /\ req[r].pc = "delete" =>
       \/ req'[r].ownersMoved
       \/ \A w \in Workspaces : Owners(w) # { req[r].user } => Owners(w)' # { req[r].user }

\* The tables leave alone what request r relies on.
Spares(r) ==
  /\ existing \subseteq existing'
  /\ \A w \in Workspaces, u \in Users : (rowLock[w][u] = r) = (rowLock'[w][u] = r)
  /\ \A w \in existing, u \in Users : rowLock[w][u] = r => (member[w][u] = "none") = (member'[w][u] = "none")
  /\ \A i \in Invites : inviteLock[i] = r => inviteLock'[i] = r
  /\ \A i \in Invites : invite[i] # None =>
       /\ invite'[i] # None /\ invite'[i].ws = invite[i].ws /\ invite'[i].to = invite[i].to
       /\ inviteLock[i] = r /\ invite[i].status # "accepted" => invite'[i].status # "accepted"
  /\ \A u \in Users : pref'[u] = None =>
       \/ MemberOf(u)' = {}
       \/ ~ (MemberOf(u) \subseteq MemberOf(u)')
       \/ pref[u] = None /\ MemberOf(u) # {}

-----------------------------------------------------------------------------
(* Lemmas.                                                                 *)

LEMMA IdleFacts ==
  /\ Idle \in Request
  /\ Idle.pc = "idle"
BY DEF Idle, Request

LEMMA OwnersAreFinite ==
  ASSUME NEW w
  PROVE  IsFiniteSet(Owners(w)) /\ Cardinality(Owners(w)) \in Nat
BY WorkspaceAssumption, FS_Subset, FS_CardinalityType DEF Owners

\* A request that does not move keeps what it relies on.
LEMMA Carried ==
  ASSUME IInv, NEW r \in Requests, Follows(r), Spares(r)
  PROVE  RequestOK(r)'
<1>1. /\ req[r] \in Request /\ RequestOK(r)
      /\ existing \subseteq Workspaces
  BY DEF IInv, TypeOK
<1>2. AskOK(r)'
  BY <1>1 DEF RequestOK, AskOK, Follows, Spares
<1>3. OwnOK(r)'
  BY <1>1 DEF RequestOK, OwnOK, Follows, Seeking, HasOwn
<1>4. LockedOK(r)'
  <2>1. /\ req[r].pc \in { "count", "change" } => req[r].ws \in existing /\ req[r].target \in Users
        /\ req[r].pc \in { "join", "accept" } => req[r].ws \in existing /\ req[r].user \in Users
    BY <1>1 DEF RequestOK, AskOK, InWorkspace, HasWorkspace
  <2> QED
    BY <1>1, <2>1 DEF RequestOK, LockedOK, Follows, Spares
<1>5. ReadOK(r)'
  <2>1. /\ req[r].pc \in HasWorkspace => req[r].ws \in Workspaces
        /\ req[r].pc # "idle" => req[r].user \in Users
    BY <1>1 DEF RequestOK, AskOK
  <2>2. CASE req[r].pc \in { "adopt", "switch" }
    BY <1>1, <2>2 DEF RequestOK, ReadOK, Follows, Watched
  <2>3. CASE req[r].pc = "accept"
    <3>1. req[r].overtaken \/ rowLock[req[r].ws][req[r].user] = r \/ req[r].ws \in MemberOf(req[r].user)
      BY <1>1, <2>3 DEF RequestOK, ReadOK
    <3>2. req'[r].overtaken \/ MemberOf(req[r].user) \subseteq MemberOf(req[r].user)'
      BY <2>3 DEF Follows, Watched
    <3>3. req[r].ws \in Workspaces /\ req[r].user \in Users
      BY <2>1, <2>3 DEF HasWorkspace
    <3>4. rowLock[req[r].ws][req[r].user] = r => rowLock'[req[r].ws][req[r].user] = r
      BY <3>3 DEF Spares
    <3>5. req[r].overtaken => req'[r].overtaken
      BY DEF Follows
    <3>6. req'[r].pc = "accept" /\ req'[r].ws = req[r].ws /\ req'[r].user = req[r].user
      BY <2>3 DEF Follows
    <3>7. \/ req'[r].overtaken
          \/ rowLock'[req[r].ws][req[r].user] = r
          \/ req[r].ws \in MemberOf(req[r].user)'
      BY <3>1, <3>2, <3>4, <3>5
    <3> QED
      BY <3>6, <3>7 DEF ReadOK, MemberOf
  <2>4. CASE req[r].pc = "bootstrap"
    <3>1. req[r].overtaken \/ MemberOf(req[r].user) = {} \/ pref[req[r].user] # None
      BY <1>1, <2>4 DEF RequestOK, ReadOK
    <3>2. req'[r].overtaken \/ MemberOf(req[r].user) \subseteq MemberOf(req[r].user)'
      BY <2>4 DEF Follows, Watched
    <3>3. pref'[req[r].user] = None =>
            \/ MemberOf(req[r].user)' = {}
            \/ ~ (MemberOf(req[r].user) \subseteq MemberOf(req[r].user)')
            \/ pref[req[r].user] = None /\ MemberOf(req[r].user) # {}
      <4>1. req[r].user \in Users /\ req'[r].user = req[r].user
        BY <2>1, <2>4 DEF Follows
      <4> QED
        BY <4>1 DEF Spares, MemberOf
    <3> QED
      BY <2>4, <3>1, <3>2, <3>3 DEF ReadOK, Follows
  <2> QED
    BY <2>2, <2>3, <2>4 DEF ReadOK, Follows
<1>6. CountOK(r)'
  <2>1. CASE req[r].pc = "change"
    <3>1. req'[r].ownersMoved \/ Owners(req[r].ws) \subseteq Owners(req[r].ws)'
      BY <2>1 DEF Follows
    <3>2. req[r].ownersMoved \/ Cardinality(Owners(req[r].ws)) >= req[r].owners
      BY <1>1, <2>1 DEF RequestOK, CountOK
    <3>3. Owners(req[r].ws) \subseteq Owners(req[r].ws)' =>
            Cardinality(Owners(req[r].ws)) <= Cardinality(Owners(req[r].ws)')
      <4>1. IsFiniteSet(Owners(req[r].ws)')
        BY WorkspaceAssumption, FS_Subset DEF Owners
      <4> QED
        BY <4>1, FS_Subset
    <3>4. /\ Cardinality(Owners(req[r].ws)) \in Nat /\ Cardinality(Owners(req[r].ws)') \in Nat
          /\ req[r].owners \in Nat
      <4>1. IsFiniteSet(Owners(req[r].ws)')
        BY WorkspaceAssumption, FS_Subset DEF Owners
      <4> QED
        BY <1>1, <4>1, OwnersAreFinite, FS_CardinalityType DEF Request
    <3>5. req'[r].ownersMoved \/ Cardinality(Owners(req[r].ws)') >= req[r].owners
      BY <3>1, <3>2, <3>3, <3>4 DEF Follows
    <3> QED
      BY <2>1, <3>5 DEF CountOK, Follows, Owners
  <2>2. CASE req[r].pc = "delete"
    BY <1>1, <2>2 DEF RequestOK, CountOK, Follows
  <2> QED
    BY <2>1, <2>2 DEF CountOK, Follows
<1> QED
  BY <1>2, <1>3, <1>4, <1>5, <1>6 DEF RequestOK

\* A request that has ended, and holds no row, relies on nothing.
LEMMA IdleIsOK ==
  ASSUME NEW r \in Requests, req'[r] = Idle,
         \A w \in Workspaces, u \in Users : rowLock'[w][u] # r
  PROVE  RequestOK(r)'
BY IdleFacts DEF RequestOK, AskOK, OwnOK, LockedOK, ReadOK, CountOK,
                 Seeking, InWorkspace, HasWorkspace, HasOwn

\* What Witness makes of a request.
LEMMA WitnessFacts ==
  ASSUME TypeOK, NEW q \in Request, NEW members,
         q.pc = "change" => q.ws \in Workspaces
  PROVE  LET p == Witness(q, members) IN
         /\ p \in Request
         /\ p.pc = q.pc /\ p.op = q.op /\ p.user = q.user /\ p.ws = q.ws /\ p.target = q.target
         /\ p.newRole = q.newRole /\ p.invite = q.invite /\ p.owners = q.owners
         /\ q.been \subseteq p.been
         /\ q.pc \notin Seeking => p.been = q.been
         /\ q.pc \in Seeking => \A w \in Workspaces : members[w][q.user] # "none" => w \in p.been
         /\ q.overtaken => p.overtaken
         /\ q.pc \in Watched => p.overtaken \/ \A w \in MemberOf(q.user) : members[w][q.user] # "none"
         /\ q.ownersMoved => p.ownersMoved
         /\ q.pc = "change" => p.ownersMoved \/ \A u \in Owners(q.ws) : members[q.ws][u] = "owner"
         /\ q.pc = "delete" =>
              \/ p.ownersMoved
              \/ \A w \in Workspaces, u \in Users : (u \in Owners(w)) = (members[w][u] = "owner")
<1> DEFINE p == Witness(q, members)
<1>1. CASE q = Idle
  <2>1. p = q
    BY <1>1 DEF Witness
  <2> QED
    BY <1>1, <2>1, IdleFacts DEF Seeking, Watched
<1>2. CASE q # Idle
  <2> DEFINE been == IF q.pc \in Seeking
                     THEN q.been \cup { w \in Workspaces : members[w][q.user] # "none" } ELSE q.been
             overtaken == \/ q.overtaken
                          \/ q.pc \in Watched /\ \E w \in MemberOf(q.user) : members[w][q.user] = "none"
             moved == \/ q.ownersMoved
                      \/ q.pc = "change" /\ \E u \in Owners(q.ws) : members[q.ws][u] # "owner"
                      \/ q.pc = "delete" /\ \E w \in Workspaces, u \in Users :
                                              (u \in Owners(w)) # (members[w][u] = "owner")
  <2>1. p = [ q EXCEPT !.been = been, !.overtaken = overtaken, !.ownersMoved = moved ]
    BY <1>2 DEF Witness, Seeking, Watched
  <2>2. been \in SUBSET Workspaces /\ overtaken \in BOOLEAN /\ moved \in BOOLEAN
    BY DEF Request
  <2>3. /\ q.been \subseteq been
        /\ q.pc \notin Seeking => been = q.been
        /\ q.pc \in Seeking => \A w \in Workspaces : members[w][q.user] # "none" => w \in been
    OBVIOUS
  <2>4. /\ q.overtaken => overtaken
        /\ q.pc \in Watched => overtaken \/ \A w \in MemberOf(q.user) : members[w][q.user] # "none"
    OBVIOUS
  <2>5. /\ q.ownersMoved => moved
        /\ q.pc = "change" => moved \/ \A u \in Owners(q.ws) : members[q.ws][u] = "owner"
        /\ q.pc = "delete" =>
             moved \/ \A w \in Workspaces, u \in Users : (u \in Owners(w)) = (members[w][u] = "owner")
    OBVIOUS
  <2> HIDE DEF been, overtaken, moved, p
  <2>6. /\ p \in Request
        /\ p.pc = q.pc /\ p.op = q.op /\ p.user = q.user /\ p.ws = q.ws /\ p.target = q.target
        /\ p.newRole = q.newRole /\ p.invite = q.invite /\ p.owners = q.owners
        /\ p.been = been /\ p.overtaken = overtaken /\ p.ownersMoved = moved
    BY <2>1, <2>2 DEF Request
  <2> QED
    BY <2>3, <2>4, <2>5, <2>6 DEF p
<1> QED
  BY <1>1, <1>2

\* A request whose record Witness has made follows the membership.
LEMMA WitnessFollows ==
  ASSUME IInv, NEW r \in Requests, req'[r] = Witness(req[r], member')
  PROVE  Follows(r)
<1>1. /\ req[r] \in Request /\ TypeOK
      /\ req[r].pc = "change" => req[r].ws \in Workspaces
  BY DEF IInv, TypeOK, RequestOK, AskOK, HasWorkspace
<1> DEFINE q == req[r]
           p == Witness(q, member')
<1>2. /\ p \in Request
      /\ p.pc = q.pc /\ p.op = q.op /\ p.user = q.user /\ p.ws = q.ws /\ p.target = q.target
      /\ p.newRole = q.newRole /\ p.invite = q.invite /\ p.owners = q.owners
      /\ q.been \subseteq p.been
      /\ q.pc \in Seeking => \A w \in Workspaces : member'[w][q.user] # "none" => w \in p.been
      /\ q.overtaken => p.overtaken
      /\ q.pc \in Watched => p.overtaken \/ \A w \in MemberOf(q.user) : member'[w][q.user] # "none"
      /\ q.ownersMoved => p.ownersMoved
      /\ q.pc = "change" => p.ownersMoved \/ \A u \in Owners(q.ws) : member'[q.ws][u] = "owner"
      /\ q.pc = "delete" =>
           \/ p.ownersMoved
           \/ \A w \in Workspaces, u \in Users : (u \in Owners(w)) = (member'[w][u] = "owner")
  BY <1>1, WitnessFacts
<1>3. req'[r] = p
  OBVIOUS
<1>4. /\ q.pc \in Seeking => { w \in Workspaces : member'[w][q.user] # "none" } \subseteq p.been
      /\ q.pc \in Watched =>
           \/ p.overtaken
           \/ MemberOf(q.user) \subseteq { w \in Workspaces : member'[w][q.user] # "none" }
      /\ q.pc = "change" =>
           p.ownersMoved \/ Owners(q.ws) \subseteq { u \in Users : member'[q.ws][u] = "owner" }
      /\ q.pc = "delete" =>
           \/ p.ownersMoved
           \/ \A w \in Workspaces : Owners(w) = { u \in Users : member'[w][u] = "owner" }
  <2> HIDE DEF p, q
  <2>1. \A w : Owners(w) \subseteq Users
    BY DEF Owners
  <2>2. \A u : MemberOf(u) \subseteq Workspaces
    BY DEF MemberOf
  <2> QED
    BY <1>2, <2>1, <2>2
<1> HIDE DEF p
<1>5. /\ MemberOf(q.user)' = { w \in Workspaces : member'[w][p.user] # "none" }
      /\ Owners(q.ws)' = { u \in Users : member'[p.ws][u] = "owner" }
  BY <1>3 DEF MemberOf, Owners
<1> QED
  BY <1>2, <1>3, <1>4, <1>5 DEF Follows, MemberOf, Owners

\* A request that is not touched, by a step that leaves the membership.
LEMMA StillFollows ==
  ASSUME IInv, NEW r \in Requests, req'[r] = req[r], member' = member
  PROVE  Follows(r)
<1>1. req[r] \in Request /\ OwnOK(r)
  BY DEF IInv, TypeOK, RequestOK
<1> QED
  BY <1>1 DEF Follows, OwnOK, MemberOf, Owners

\* Request r leaves the locks of the others alone.
LeavesLocks(r) ==
  \A s \in Requests \ {r} :
    /\ \A w \in Workspaces, u \in Users : (rowLock[w][u] = s) = (rowLock'[w][u] = s)
    /\ \A i \in Invites : inviteLock[i] = s => inviteLock'[i] = s

LEMMA UnlockFacts ==
  ASSUME IInv, NEW r \in Requests, Unlock(r)
  PROVE  /\ rowLock' \in [ Workspaces -> [ Users -> Requests \cup {None} ] ]
         /\ inviteLock' \in [ Invites -> Requests \cup {None} ]
         /\ LeavesLocks(r)
         /\ \A w \in Workspaces, u \in Users : rowLock'[w][u] # r
<1>1. \A w \in Workspaces, u \in Users :
        rowLock'[w][u] = IF rowLock[w][u] = r THEN None ELSE rowLock[w][u]
  BY DEF Unlock
<1>2. \A i \in Invites : inviteLock'[i] = IF inviteLock[i] = r THEN None ELSE inviteLock[i]
  BY DEF Unlock
<1>3. rowLock' \in [ Workspaces -> [ Users -> Requests \cup {None} ] ]
  BY DEF Unlock, IInv, TypeOK
<1>4. inviteLock' \in [ Invites -> Requests \cup {None} ]
  BY DEF Unlock, IInv, TypeOK
<1>5. LeavesLocks(r)
  BY <1>1, <1>2, WorkspaceAssumption DEF LeavesLocks
<1>6. \A w \in Workspaces, u \in Users : rowLock'[w][u] # r
  BY <1>1, WorkspaceAssumption
<1> QED
  BY <1>3, <1>4, <1>5, <1>6

\* A request that is idle has no row locked.
LEMMA IdleHoldsNoRow ==
  ASSUME IInv, NEW r \in Requests, req[r].pc \notin HoldsRow
  PROVE  \A w \in Workspaces, u \in Users : rowLock[w][u] # r
BY DEF IInv, RequestOK, LockedOK

\* How the invariant is kept by a step of request r, or of nobody.
LEMMA StepOf ==
  ASSUME IInv, NEW r \in Requests, TypeOK', TablesOK', RequestOK(r)',
         \A s \in Requests \ {r} : Follows(s) /\ Spares(s)
  PROVE  IInv'
<1>1. ASSUME NEW s \in Requests PROVE RequestOK(s)'
  <2>1. CASE s = r
    BY <2>1
  <2>2. CASE s # r
    BY <2>2, Carried
  <2> QED
    BY <2>1, <2>2
<1> QED
  BY <1>1 DEF IInv

LEMMA StepOfNobody ==
  ASSUME IInv, TypeOK', TablesOK', \A s \in Requests : Follows(s) /\ Spares(s)
  PROVE  IInv'
BY Carried DEF IInv

\* Request r becomes q, and nothing changes in the tables but what r has locked.
LEMMA QuietStep ==
  ASSUME IInv, NEW r \in Requests, NEW q \in Request,
         req' = [ req EXCEPT ![r] = q ],
         UNCHANGED << accounts, existing, member, pref, invite >>,
         rowLock' \in [ Workspaces -> [ Users -> Requests \cup {None} ] ],
         inviteLock' \in [ Invites -> Requests \cup {None} ],
         LeavesLocks(r),
         RequestOK(r)'
  PROVE  IInv'
<1>1. TypeOK'
  BY DEF IInv, TypeOK, MemberOf
<1>2. TablesOK'
  BY DEF IInv, TablesOK
<1>3. ASSUME NEW s \in Requests \ {r} PROVE Follows(s) /\ Spares(s)
  <2>1. req'[s] = req[s]
    BY DEF IInv, TypeOK
  <2>2. Follows(s)
    BY <2>1, StillFollows
  <2>3. Spares(s)
    BY DEF Spares, LeavesLocks, MemberOf
  <2> QED
    BY <2>2, <2>3
<1> QED
  BY <1>1, <1>2, <1>3, StepOf

LEMMA LocksStill ==
  ASSUME IInv, NEW r \in Requests, UNCHANGED << rowLock, inviteLock >>
  PROVE  /\ rowLock' \in [ Workspaces -> [ Users -> Requests \cup {None} ] ]
         /\ inviteLock' \in [ Invites -> Requests \cup {None} ]
         /\ LeavesLocks(r)
BY DEF LeavesLocks, IInv, TypeOK

-----------------------------------------------------------------------------
(* The initial states, and requests that begin and end.                    *)

LEMMA InitHolds == Init => IInv
<1> SUFFICES ASSUME Init PROVE IInv
  OBVIOUS
<1>1. TypeOK
  BY IdleFacts, WorkspaceAssumption DEF Init, TypeOK, MemberOf
<1>2. TablesOK
  BY WorkspaceAssumption DEF Init, TablesOK
<1>3. ASSUME NEW r \in Requests PROVE RequestOK(r)
  <2>1. req[r].pc = "idle"
    BY IdleFacts DEF Init
  <2>2. \A w \in Workspaces, u \in Users : rowLock[w][u] # r
    BY WorkspaceAssumption DEF Init
  <2> QED
    BY <2>1, <2>2 DEF RequestOK, AskOK, OwnOK, LockedOK, ReadOK, CountOK,
                      Seeking, InWorkspace, HasWorkspace, HasOwn
<1> QED
  BY <1>1, <1>2, <1>3 DEF IInv

LEMMA BeginFacts ==
  ASSUME IInv, NEW r \in Requests, NEW u \in Users, NEW first \in Request, Begin(r, u, first)
  PROVE  /\ \E q \in Request :
              /\ req' = [ req EXCEPT ![r] = q ]
              /\ req'[r] = q
              /\ q.pc = first.pc /\ q.op = first.op /\ q.user = u /\ q.ws = first.ws
              /\ q.target = first.target /\ q.newRole = first.newRole /\ q.invite = first.invite
              /\ q.pc = "preferred" => q.been = MemberOf(u)
         /\ \A w \in Workspaces, v \in Users : rowLock[w][v] # r
<1> DEFINE been == IF first.pc = "preferred" THEN MemberOf(u) ELSE {}
           q == [ first EXCEPT !.user = u, !.been = been ]
<1>1. been \in SUBSET Workspaces /\ (first.pc = "preferred" => been = MemberOf(u))
  BY DEF MemberOf
<1>2. req' = [ req EXCEPT ![r] = q ]
  BY DEF Begin
<1> HIDE DEF been
<1>3. /\ q \in Request
      /\ q.pc = first.pc /\ q.op = first.op /\ q.user = u /\ q.ws = first.ws
      /\ q.target = first.target /\ q.newRole = first.newRole /\ q.invite = first.invite
      /\ q.been = been
  BY <1>1 DEF Request
<1> HIDE DEF q
<1>4. req'[r] = q
  BY <1>2 DEF IInv, TypeOK
<1>5. \A w \in Workspaces, v \in Users : rowLock[w][v] # r
  BY IdleFacts, IdleHoldsNoRow DEF Begin, HoldsRow
<1> QED
  BY <1>1, <1>2, <1>3, <1>4, <1>5

LEMMA RollbackKeeps == ASSUME IInv, NEW r \in Requests, Rollback(r) PROVE IInv'
<1>1. req' = [ req EXCEPT ![r] = Idle ] /\ req'[r] = Idle
  BY DEF Rollback, Finish, IInv, TypeOK
<1>2. /\ rowLock' \in [ Workspaces -> [ Users -> Requests \cup {None} ] ]
      /\ inviteLock' \in [ Invites -> Requests \cup {None} ]
      /\ LeavesLocks(r)
      /\ \A w \in Workspaces, u \in Users : rowLock'[w][u] # r
  BY UnlockFacts DEF Rollback
<1>3. RequestOK(r)'
  BY <1>1, <1>2, IdleIsOK
<1> QED
  BY <1>1, <1>2, <1>3, IdleFacts, QuietStep DEF Rollback

LEMMA BeginInWorkspaceKeeps == ASSUME IInv, NEW r \in Requests, BeginInWorkspace(r) PROVE IInv'
<1>1. PICK u \in Users, target \in Users : \E first :
        /\ Begin(r, u, first)
        /\ \/ \E role \in AssignedRoles :
                first = [ Idle EXCEPT !.pc = "preferred", !.op = "role", !.target = target, !.newRole = role ]
           \/ first = [ Idle EXCEPT !.pc = "preferred", !.op = "remove", !.target = target ]
           \/ \E role \in InvitedRoles :
                first = [ Idle EXCEPT !.pc = "preferred", !.op = "invite", !.target = target, !.newRole = role ]
  BY DEF BeginInWorkspace
<1>2. PICK first :
        /\ Begin(r, u, first)
        /\ \/ \E role \in AssignedRoles :
                first = [ Idle EXCEPT !.pc = "preferred", !.op = "role", !.target = target, !.newRole = role ]
           \/ first = [ Idle EXCEPT !.pc = "preferred", !.op = "remove", !.target = target ]
           \/ \E role \in InvitedRoles :
                first = [ Idle EXCEPT !.pc = "preferred", !.op = "invite", !.target = target, !.newRole = role ]
  BY <1>1
<1>3. /\ first \in Request /\ first.pc = "preferred" /\ first.target = target
      /\ first.op \in { "role", "remove", "invite" }
      /\ first.op = "role" => first.newRole \in AssignedRoles
      /\ first.op = "invite" => first.newRole \in InvitedRoles
  <2>1. Idle \in Request /\ AssignedRoles \subseteq Roles /\ InvitedRoles \subseteq Roles
    BY IdleFacts, WorkspaceAssumption DEF Roles
  <2>2. ASSUME NEW role \in AssignedRoles,
               first = [ Idle EXCEPT !.pc = "preferred", !.op = "role", !.target = target, !.newRole = role ]
        PROVE  /\ first \in Request /\ first.pc = "preferred" /\ first.target = target
               /\ first.op = "role" /\ first.newRole = role
    BY <2>1, <2>2 DEF Request, AllOperations
  <2>3. ASSUME first = [ Idle EXCEPT !.pc = "preferred", !.op = "remove", !.target = target ]
        PROVE  /\ first \in Request /\ first.pc = "preferred" /\ first.target = target
               /\ first.op = "remove"
    BY <2>1, <2>3 DEF Request, AllOperations
  <2>4. ASSUME NEW role \in InvitedRoles,
               first = [ Idle EXCEPT !.pc = "preferred", !.op = "invite", !.target = target, !.newRole = role ]
        PROVE  /\ first \in Request /\ first.pc = "preferred" /\ first.target = target
               /\ first.op = "invite" /\ first.newRole = role
    BY <2>1, <2>4 DEF Request, AllOperations
  <2> QED
    BY <1>2, <2>2, <2>3, <2>4
<1>4. Begin(r, u, first)
  BY <1>2
<1>5. PICK q \in Request :
        /\ req' = [ req EXCEPT ![r] = q ] /\ req'[r] = q
        /\ q.pc = "preferred" /\ q.op = first.op /\ q.user = u
        /\ q.target = target /\ q.newRole = first.newRole /\ q.been = MemberOf(u)
  BY <1>4, <1>3, BeginFacts
<1>6. /\ member' = member /\ rowLock' = rowLock
      /\ \A w \in Workspaces, v \in Users : rowLock[w][v] # r
  BY <1>4, <1>3, BeginFacts DEF BeginInWorkspace
<1>7. RequestOK(r)'
  BY <1>3, <1>5, <1>6 DEF RequestOK, AskOK, OwnOK, LockedOK, ReadOK, CountOK,
     Seeking, InWorkspace, HasWorkspace, HasOwn, MemberOf
<1> QED
  BY <1>5, <1>7, LocksStill, QuietStep DEF BeginInWorkspace

LEMMA SwitchCheckKeeps == ASSUME IInv, NEW r \in Requests, SwitchCheck(r) PROVE IInv'
<1>1. PICK u \in Users, w \in Workspaces :
        /\ w \in MemberOf(u)
        /\ Begin(r, u, [ Idle EXCEPT !.pc = "switch", !.op = "switch", !.ws = w ])
  BY DEF SwitchCheck
<1> DEFINE first == [ Idle EXCEPT !.pc = "switch", !.op = "switch", !.ws = w ]
<1>2. first \in Request /\ first.pc = "switch" /\ first.ws = w
  BY DEF Idle, Request, AllOperations
<1> HIDE DEF first
<1>3. Begin(r, u, first)
  BY <1>1 DEF first
<1>4. PICK q \in Request :
        /\ req' = [ req EXCEPT ![r] = q ] /\ req'[r] = q
        /\ q.pc = "switch" /\ q.user = u /\ q.ws = w
  BY <1>2, <1>3, BeginFacts
<1>5. /\ member' = member /\ rowLock' = rowLock /\ existing' = existing
      /\ \A x \in Workspaces, v \in Users : rowLock[x][v] # r
      /\ w \in existing
  BY <1>1, <1>2, <1>3, BeginFacts DEF SwitchCheck, IInv, TablesOK, MemberOf
<1>6. RequestOK(r)'
  BY <1>1, <1>4, <1>5 DEF RequestOK, AskOK, OwnOK, LockedOK, ReadOK, CountOK,
     Seeking, InWorkspace, HasWorkspace, HasOwn, MemberOf
<1> QED
  BY <1>4, <1>6, LocksStill, QuietStep DEF SwitchCheck

LEMMA BeforeDeleteKeeps == ASSUME IInv, NEW r \in Requests, BeforeDelete(r) PROVE IInv'
<1>1. PICK u \in Users :
        /\ \A w \in Workspaces : Owners(w) # {u}
        /\ Begin(r, u, [ Idle EXCEPT !.pc = "delete", !.op = "delete" ])
  BY DEF BeforeDelete
<1> DEFINE first == [ Idle EXCEPT !.pc = "delete", !.op = "delete" ]
<1>2. first \in Request /\ first.pc = "delete"
  BY DEF Idle, Request, AllOperations
<1> HIDE DEF first
<1>3. Begin(r, u, first)
  BY <1>1 DEF first
<1>4. PICK q \in Request :
        /\ req' = [ req EXCEPT ![r] = q ] /\ req'[r] = q
        /\ q.pc = "delete" /\ q.user = u
  BY <1>2, <1>3, BeginFacts
<1>5. /\ member' = member /\ rowLock' = rowLock
      /\ \A x \in Workspaces, v \in Users : rowLock[x][v] # r
  BY <1>1, <1>2, <1>3, BeginFacts DEF BeforeDelete
<1>6. RequestOK(r)'
  BY <1>1, <1>4, <1>5 DEF RequestOK, AskOK, OwnOK, LockedOK, ReadOK, CountOK,
     Seeking, InWorkspace, HasWorkspace, HasOwn, Owners
<1> QED
  BY <1>4, <1>6, LocksStill, QuietStep DEF BeforeDelete

LEMMA BeginAcceptKeeps == ASSUME IInv, NEW r \in Requests, BeginAccept(r) PROVE IInv'
<1>1. PICK i \in Invites :
        /\ invite[i] # None
        /\ LockInvite(r, i)
        /\ invite[i].status = "open"
        /\ Begin(r, invite[i].to,
                 [ Idle EXCEPT !.pc = "join", !.op = "accept", !.invite = i, !.ws = invite[i].ws ])
  BY DEF BeginAccept
<1>2. invite[i] \in Invitation /\ invite[i].to \in Users /\ invite[i].ws \in Workspaces /\ invite[i].ws \in existing
  BY <1>1 DEF IInv, TypeOK, TablesOK, Invitation
<1> DEFINE first == [ Idle EXCEPT !.pc = "join", !.op = "accept", !.invite = i, !.ws = invite[i].ws ]
<1>3. first \in Request /\ first.pc = "join" /\ first.ws = invite[i].ws /\ first.invite = i
  BY <1>2 DEF Idle, Request, AllOperations
<1> HIDE DEF first
<1>4. Begin(r, invite[i].to, first)
  BY <1>1 DEF first
<1>5. PICK q \in Request :
        /\ req' = [ req EXCEPT ![r] = q ] /\ req'[r] = q
        /\ q.pc = "join" /\ q.user = invite[i].to /\ q.ws = invite[i].ws /\ q.invite = i
  BY <1>2, <1>3, <1>4, BeginFacts
<1>6. /\ member' = member /\ rowLock' = rowLock /\ existing' = existing /\ invite' = invite
      /\ \A x \in Workspaces, v \in Users : rowLock[x][v] # r
  BY <1>2, <1>3, <1>4, BeginFacts DEF BeginAccept
<1>7. /\ inviteLock' \in [ Invites -> Requests \cup {None} ]
      /\ inviteLock'[i] = r
      /\ LeavesLocks(r)
  BY <1>1, <1>6, WorkspaceAssumption DEF LockInvite, LeavesLocks, IInv, TypeOK
<1>8. RequestOK(r)'
  BY <1>1, <1>2, <1>5, <1>6, <1>7 DEF RequestOK, AskOK, OwnOK, LockedOK, ReadOK, CountOK,
     Seeking, InWorkspace, HasWorkspace, HasOwn
<1>9. rowLock' \in [ Workspaces -> [ Users -> Requests \cup {None} ] ]
  BY <1>6 DEF IInv, TypeOK
<1> QED
  BY <1>5, <1>7, <1>8, <1>9, QuietStep DEF BeginAccept

-----------------------------------------------------------------------------
(* Requests that go on.                                                    *)

\* A request goes on to another point and keeps the rest of its record.
LEMMA AdvanceFacts ==
  ASSUME IInv, NEW r \in Requests,
         NEW pc \in { "existing", "bootstrap", "issue", "lock", "count", "accept" },
         req' = [ req EXCEPT ![r].pc = pc ]
  PROVE  /\ req'[r] \in Request
         /\ req' = [ req EXCEPT ![r] = req'[r] ]
         /\ req'[r].pc = pc /\ req'[r].op = req[r].op /\ req'[r].user = req[r].user
         /\ req'[r].ws = req[r].ws /\ req'[r].target = req[r].target /\ req'[r].newRole = req[r].newRole
         /\ req'[r].invite = req[r].invite /\ req'[r].been = req[r].been
         /\ req'[r].overtaken = req[r].overtaken
<1> DEFINE q == [ req[r] EXCEPT !.pc = pc ]
<1>1. req[r] \in Request
  BY DEF IInv, TypeOK
<1>2. /\ q \in Request
      /\ q.pc = pc /\ q.op = req[r].op /\ q.user = req[r].user
      /\ q.ws = req[r].ws /\ q.target = req[r].target /\ q.newRole = req[r].newRole
      /\ q.invite = req[r].invite /\ q.been = req[r].been /\ q.overtaken = req[r].overtaken
  BY <1>1 DEF Request
<1>3. req'[r] = q /\ req' = [ req EXCEPT ![r] = q ]
  BY DEF IInv, TypeOK
<1> HIDE DEF q
<1> QED
  BY <1>2, <1>3

\* What Resolved makes of a request that is about to have its workspace.
LEMMA ResolvedFacts ==
  ASSUME NEW q \in Request, NEW w \in Workspaces
  PROVE  LET p == Resolved(q, w) IN
         /\ p \in Request
         /\ p.pc = "authorize" /\ p.op = q.op /\ p.user = q.user /\ p.ws = w
         /\ p.target = q.target /\ p.newRole = q.newRole
         /\ p.been = q.been \cap {w}
BY DEF Resolved, Request

LEMMA ReadPreferredKeeps == ASSUME IInv, NEW r \in Requests, ReadPreferred(r) PROVE IInv'
<1>1. /\ req[r].pc = "preferred" /\ req[r] \in Request
      /\ AskOK(r) /\ OwnOK(r) /\ LockedOK(r)
      /\ member' = member /\ rowLock' = rowLock /\ existing' = existing
  BY DEF ReadPreferred, At, IInv, TypeOK, RequestOK
<1>2. CASE \E w \in Preferred(req[r].user) : req' = [ req EXCEPT ![r] = Resolved(@, w) ]
  <2>1. PICK w \in Preferred(req[r].user) : req' = [ req EXCEPT ![r] = Resolved(req[r], w) ]
    BY <1>2
  <2>2. w \in Workspaces /\ w \in existing /\ w \in req[r].been
    <3>1. w \in MemberOf(req[r].user)
      BY <2>1 DEF Preferred
    <3>2. req[r].user \in Users
      BY <1>1 DEF AskOK
    <3> QED
      BY <1>1, <3>1, <3>2 DEF OwnOK, Seeking, MemberOf, IInv, TablesOK
  <2> DEFINE q == Resolved(req[r], w)
  <2>3. /\ q \in Request
        /\ q.pc = "authorize" /\ q.op = req[r].op /\ q.user = req[r].user /\ q.ws = w
        /\ q.target = req[r].target /\ q.newRole = req[r].newRole
        /\ w \in q.been
    BY <1>1, <2>2, ResolvedFacts
  <2> HIDE DEF q
  <2>4. req' = [ req EXCEPT ![r] = q ] /\ req'[r] = q
    BY <2>1 DEF IInv, TypeOK, q
  <2>5. RequestOK(r)'
    BY <1>1, <2>2, <2>3, <2>4 DEF RequestOK, AskOK, OwnOK, LockedOK, ReadOK, CountOK,
       Seeking, InWorkspace, HasWorkspace, HasOwn, HoldsRow
  <2> QED
    BY <2>3, <2>4, <2>5, LocksStill, QuietStep DEF ReadPreferred
<1>3. CASE Advance(r, "existing")
  <2>1. /\ req'[r] \in Request /\ req' = [ req EXCEPT ![r] = req'[r] ]
        /\ req'[r].pc = "existing" /\ req'[r].op = req[r].op /\ req'[r].user = req[r].user
        /\ req'[r].target = req[r].target /\ req'[r].newRole = req[r].newRole /\ req'[r].been = req[r].been
    BY <1>3, AdvanceFacts DEF Advance
  <2>2. RequestOK(r)'
    BY <1>1, <2>1 DEF RequestOK, AskOK, OwnOK, LockedOK, ReadOK, CountOK,
       Seeking, InWorkspace, HasWorkspace, HasOwn, HoldsRow, MemberOf
  <2> QED
    BY <2>1, <2>2, LocksStill, QuietStep DEF ReadPreferred
<1> QED
  BY <1>2, <1>3 DEF ReadPreferred

LEMMA ReadExistingKeeps == ASSUME IInv, NEW r \in Requests, ReadExisting(r) PROVE IInv'
<1>1. /\ req[r].pc = "existing" /\ req[r] \in Request /\ req[r].user \in Users
      /\ AskOK(r) /\ OwnOK(r) /\ LockedOK(r)
      /\ member' = member /\ rowLock' = rowLock /\ existing' = existing
  BY DEF ReadExisting, At, IInv, TypeOK, RequestOK, AskOK
<1>2. CASE \E w \in MemberOf(req[r].user) :
             req' = [ req EXCEPT ![r].pc = "adopt", ![r].ws = w, ![r].been = @ \cap {w} ]
  <2>1. PICK w \in MemberOf(req[r].user) :
          req' = [ req EXCEPT ![r].pc = "adopt", ![r].ws = w, ![r].been = @ \cap {w} ]
    BY <1>2
  <2>2. w \in Workspaces /\ w \in existing /\ w \in req[r].been
    BY <1>1, <2>1 DEF OwnOK, Seeking, MemberOf, IInv, TablesOK
  <2> DEFINE q == [ req[r] EXCEPT !.pc = "adopt", !.ws = w, !.been = @ \cap {w} ]
  <2>3. /\ q \in Request
        /\ q.pc = "adopt" /\ q.op = req[r].op /\ q.user = req[r].user /\ q.ws = w
        /\ q.target = req[r].target /\ q.newRole = req[r].newRole
        /\ w \in q.been
    BY <1>1, <2>2 DEF Request
  <2>4. req' = [ req EXCEPT ![r] = q ] /\ req'[r] = q
    BY <2>1 DEF IInv, TypeOK
  <2> HIDE DEF q
  <2>5. RequestOK(r)'
    BY <1>1, <2>1, <2>2, <2>3, <2>4 DEF RequestOK, AskOK, OwnOK, LockedOK, ReadOK, CountOK,
       Seeking, InWorkspace, HasWorkspace, HasOwn, HoldsRow, MemberOf
  <2> QED
    BY <2>3, <2>4, <2>5, LocksStill, QuietStep DEF ReadExisting
<1>3. CASE MemberOf(req[r].user) = {} /\ Advance(r, "bootstrap")
  <2>1. /\ req'[r] \in Request /\ req' = [ req EXCEPT ![r] = req'[r] ]
        /\ req'[r].pc = "bootstrap" /\ req'[r].op = req[r].op /\ req'[r].user = req[r].user
        /\ req'[r].target = req[r].target /\ req'[r].newRole = req[r].newRole /\ req'[r].been = req[r].been
    BY <1>3, AdvanceFacts DEF Advance
  <2>2. RequestOK(r)'
    BY <1>1, <1>3, <2>1 DEF RequestOK, AskOK, OwnOK, LockedOK, ReadOK, CountOK,
       Seeking, InWorkspace, HasWorkspace, HasOwn, HoldsRow, MemberOf
  <2> QED
    BY <2>1, <2>2, LocksStill, QuietStep DEF ReadExisting
<1> QED
  BY <1>2, <1>3 DEF ReadExisting

LEMMA AuthorizeInviteKeeps == ASSUME IInv, NEW r \in Requests, AuthorizeInvite(r) PROVE IInv'
<1>1. /\ req[r].pc = "authorize" /\ req[r].op = "invite" /\ req[r] \in Request
      /\ AskOK(r) /\ OwnOK(r) /\ LockedOK(r)
      /\ member' = member /\ rowLock' = rowLock /\ existing' = existing
  BY DEF AuthorizeInvite, At, IInv, TypeOK, RequestOK
<1>2. /\ req'[r] \in Request /\ req' = [ req EXCEPT ![r] = req'[r] ]
      /\ req'[r].pc = "issue" /\ req'[r].op = req[r].op /\ req'[r].user = req[r].user
      /\ req'[r].ws = req[r].ws /\ req'[r].target = req[r].target /\ req'[r].newRole = req[r].newRole
      /\ req'[r].been = req[r].been
  BY AdvanceFacts DEF AuthorizeInvite, Advance
<1>3. RequestOK(r)'
  BY <1>1, <1>2 DEF RequestOK, AskOK, OwnOK, LockedOK, ReadOK, CountOK,
     Seeking, InWorkspace, HasWorkspace, HasOwn, HoldsRow
<1> QED
  BY <1>2, <1>3, LocksStill, QuietStep DEF AuthorizeInvite

LEMMA AuthorizeChangeKeeps == ASSUME IInv, NEW r \in Requests, AuthorizeChange(r) PROVE IInv'
<1>1. /\ req[r].pc = "authorize" /\ req[r].op \in { "role", "remove" } /\ req[r] \in Request
      /\ AskOK(r) /\ OwnOK(r) /\ LockedOK(r)
      /\ member' = member /\ rowLock' = rowLock /\ existing' = existing
  BY DEF AuthorizeChange, At, IInv, TypeOK, RequestOK
<1>2. /\ req'[r] \in Request /\ req' = [ req EXCEPT ![r] = req'[r] ]
      /\ req'[r].pc = "lock" /\ req'[r].op = req[r].op /\ req'[r].user = req[r].user
      /\ req'[r].ws = req[r].ws /\ req'[r].target = req[r].target /\ req'[r].newRole = req[r].newRole
      /\ req'[r].been = req[r].been
  BY AdvanceFacts DEF AuthorizeChange, Advance
<1>3. RequestOK(r)'
  BY <1>1, <1>2 DEF RequestOK, AskOK, OwnOK, LockedOK, ReadOK, CountOK,
     Seeking, InWorkspace, HasWorkspace, HasOwn, HoldsRow
<1> QED
  BY <1>2, <1>3, LocksStill, QuietStep DEF AuthorizeChange

LEMMA LockTargetKeeps == ASSUME IInv, NEW r \in Requests, LockTarget(r) PROVE IInv'
<1>1. /\ req[r].pc = "lock" /\ req[r] \in Request
      /\ AskOK(r) /\ OwnOK(r) /\ LockedOK(r)
      /\ req[r].ws \in existing /\ req[r].ws \in Workspaces /\ req[r].target \in Users
  BY DEF LockTarget, At, IInv, TypeOK, RequestOK, AskOK, HasWorkspace, InWorkspace
<1>2. /\ req'[r] \in Request /\ req' = [ req EXCEPT ![r] = req'[r] ]
      /\ req'[r].pc = "count" /\ req'[r].op = req[r].op /\ req'[r].user = req[r].user
      /\ req'[r].ws = req[r].ws /\ req'[r].target = req[r].target /\ req'[r].newRole = req[r].newRole
      /\ req'[r].been = req[r].been
  BY AdvanceFacts DEF LockTarget, Advance
<1>3. /\ rowLock[req[r].ws][req[r].target] = None
      /\ rowLock' = [ rowLock EXCEPT ![req[r].ws][req[r].target] = r ]
      /\ member[req[r].ws][req[r].target] # "none"
      /\ member' = member /\ existing' = existing /\ inviteLock' = inviteLock
  BY DEF LockTarget
<1>4. /\ rowLock' \in [ Workspaces -> [ Users -> Requests \cup {None} ] ]
      /\ rowLock'[req[r].ws][req[r].target] = r
      /\ \A w \in Workspaces, u \in Users :
           w # req[r].ws \/ u # req[r].target => rowLock'[w][u] = rowLock[w][u]
  BY <1>1, <1>3 DEF IInv, TypeOK
<1>5. LeavesLocks(r)
  BY <1>3, <1>4, WorkspaceAssumption DEF LeavesLocks
<1>6. RequestOK(r)'
  BY <1>1, <1>2, <1>3, <1>4 DEF RequestOK, AskOK, OwnOK, LockedOK, ReadOK, CountOK,
     Seeking, InWorkspace, HasWorkspace, HasOwn, HoldsRow
<1>7. inviteLock' \in [ Invites -> Requests \cup {None} ]
  BY <1>3 DEF IInv, TypeOK
<1> QED
  BY <1>2, <1>4, <1>5, <1>6, <1>7, QuietStep DEF LockTarget

LEMMA CountOwnersKeeps == ASSUME IInv, NEW r \in Requests, CountOwners(r) PROVE IInv'
<1>1. /\ req[r].pc = "count" /\ req[r] \in Request
      /\ AskOK(r) /\ OwnOK(r) /\ LockedOK(r)
      /\ member' = member /\ rowLock' = rowLock /\ existing' = existing
  BY DEF CountOwners, At, IInv, TypeOK, RequestOK
<1> DEFINE n == Cardinality(Owners(req[r].ws))
           q == [ req[r] EXCEPT !.pc = "change", !.owners = n ]
<1>2. n \in Nat
  BY OwnersAreFinite
<1> HIDE DEF n
<1>3. /\ q \in Request
      /\ q.pc = "change" /\ q.op = req[r].op /\ q.user = req[r].user /\ q.ws = req[r].ws
      /\ q.target = req[r].target /\ q.newRole = req[r].newRole /\ q.been = req[r].been
      /\ q.owners = n
  BY <1>1, <1>2 DEF Request
<1>4. req' = [ req EXCEPT ![r] = q ] /\ req'[r] = q
  BY DEF CountOwners, IInv, TypeOK, n
<1> HIDE DEF q
<1>5. CountOK(r)'
  <2>1. Cardinality(Owners(req[r].ws)') = n
    BY <1>1, <1>3, <1>4 DEF Owners, n
  <2> QED
    BY <1>2, <1>3, <1>4, <2>1 DEF CountOK, Owners
<1>6. AskOK(r)' /\ OwnOK(r)' /\ LockedOK(r)' /\ ReadOK(r)'
  BY <1>1, <1>3, <1>4 DEF AskOK, OwnOK, LockedOK, ReadOK,
     Seeking, InWorkspace, HasWorkspace, HasOwn, HoldsRow
<1> QED
  BY <1>3, <1>4, <1>5, <1>6, LocksStill, QuietStep DEF CountOwners, RequestOK

LEMMA JoinKeeps == ASSUME IInv, NEW r \in Requests, Join(r) PROVE IInv'
<1> DEFINE w == req[r].ws
           u == req[r].user
<1>1. /\ req[r].pc = "join" /\ req[r] \in Request
      /\ AskOK(r) /\ OwnOK(r) /\ LockedOK(r)
      /\ w \in existing /\ w \in Workspaces /\ u \in Users
      /\ member' = member /\ existing' = existing /\ inviteLock' = inviteLock /\ invite' = invite
  BY DEF Join, At, IInv, TypeOK, RequestOK, AskOK, HasWorkspace
<1>2. /\ req'[r] \in Request /\ req' = [ req EXCEPT ![r] = req'[r] ]
      /\ req'[r].pc = "accept" /\ req'[r].op = req[r].op /\ req'[r].user = u
      /\ req'[r].ws = w /\ req'[r].invite = req[r].invite
  BY AdvanceFacts DEF Join, Advance
<1>3. \A x \in Workspaces, v \in Users : rowLock[x][v] # r
  BY <1>1, IdleHoldsNoRow DEF HoldsRow
<1>4. \/ /\ member[w][u] = "none" /\ rowLock[w][u] = None
         /\ rowLock' = [ rowLock EXCEPT ![w][u] = r ]
      \/ member[w][u] # "none" /\ rowLock' = rowLock
  BY DEF Join
<1> HIDE DEF w, u
<1>5. /\ rowLock' \in [ Workspaces -> [ Users -> Requests \cup {None} ] ]
      /\ \/ member[w][u] = "none" /\ rowLock[w][u] = None /\ rowLock'[w][u] = r
         \/ member[w][u] # "none" /\ rowLock'[w][u] # r
      /\ \A x \in Workspaces, v \in Users :
           x # w \/ v # u \/ rowLock'[x][v] # r => rowLock'[x][v] = rowLock[x][v]
  <2>1. rowLock \in [ Workspaces -> [ Users -> Requests \cup {None} ] ] /\ w \in Workspaces /\ u \in Users
    BY <1>1 DEF IInv, TypeOK
  <2>2. CASE /\ member[w][u] = "none" /\ rowLock[w][u] = None
             /\ rowLock' = [ rowLock EXCEPT ![w][u] = r ]
    BY <2>1, <2>2
  <2>3. CASE member[w][u] # "none" /\ rowLock' = rowLock
    BY <1>3, <2>1, <2>3
  <2> QED
    BY <1>4, <2>2, <2>3
<1>6. LeavesLocks(r)
  <2>1. ASSUME NEW s \in Requests, s # r, NEW x \in Workspaces, NEW v \in Users
        PROVE  (rowLock[x][v] = s) = (rowLock'[x][v] = s)
    <3>1. CASE x = w /\ v = u /\ rowLock'[x][v] = r
      BY <1>3, <1>5, <2>1, <3>1, WorkspaceAssumption
    <3>2. CASE ~ (x = w /\ v = u /\ rowLock'[x][v] = r)
      BY <1>5, <3>2
    <3> QED
      BY <3>1, <3>2
  <2> QED
    BY <1>1, <2>1 DEF LeavesLocks
<1>7. AskOK(r)' /\ OwnOK(r)' /\ CountOK(r)'
  BY <1>1, <1>2 DEF AskOK, OwnOK, CountOK, Seeking, InWorkspace, HasWorkspace, HasOwn
<1>8. LockedOK(r)'
  BY <1>1, <1>2, <1>5 DEF LockedOK, HoldsRow, w, u
<1>9. ReadOK(r)'
  BY <1>1, <1>2, <1>5 DEF ReadOK, MemberOf
<1>10. inviteLock' \in [ Invites -> Requests \cup {None} ]
  BY <1>1 DEF IInv, TypeOK
<1> QED
  BY <1>2, <1>5, <1>6, <1>7, <1>8, <1>9, <1>10, QuietStep DEF Join, RequestOK

-----------------------------------------------------------------------------
(* Preferences and invitations.                                            *)

\* A step that gives preferences and changes no other table.
LEMMA PreferStep ==
  ASSUME IInv, NEW r \in Requests, NEW q \in Request,
         req' = [ req EXCEPT ![r] = q ],
         NEW u \in Users, NEW w \in Workspaces, Prefer(u, w),
         UNCHANGED << accounts, existing, member, invite, rowLock, inviteLock >>,
         RequestOK(r)'
  PROVE  IInv'
<1>1. /\ pref' \in [ Users -> Workspaces \cup {None} ]
      /\ u \in accounts
      /\ pref'[u] = w
      /\ \A v \in Users : v # u => pref'[v] = pref[v]
  BY DEF Prefer, IInv, TypeOK
<1>2. TypeOK'
  BY <1>1 DEF IInv, TypeOK, MemberOf
<1>3. TablesOK'
  BY DEF IInv, TablesOK
<1>4. ASSUME NEW s \in Requests \ {r} PROVE Follows(s) /\ Spares(s)
  <2>1. req'[s] = req[s]
    BY DEF IInv, TypeOK
  <2>2. Follows(s)
    BY <2>1, StillFollows
  <2>3. Spares(s)
    BY <1>1, WorkspaceAssumption DEF Spares, MemberOf
  <2> QED
    BY <2>2, <2>3
<1> QED
  BY <1>2, <1>3, <1>4, StepOf

LEMMA AdoptKeeps == ASSUME IInv, NEW r \in Requests, Adopt(r) PROVE IInv'
<1>1. /\ req[r].pc = "adopt" /\ req[r] \in Request
      /\ AskOK(r) /\ OwnOK(r) /\ LockedOK(r)
      /\ req[r].user \in Users /\ req[r].ws \in existing /\ req[r].ws \in Workspaces
      /\ req[r].ws \in req[r].been
      /\ member' = member /\ rowLock' = rowLock /\ existing' = existing
      /\ Prefer(req[r].user, req[r].ws)
  BY DEF Adopt, At, IInv, TypeOK, RequestOK, AskOK, OwnOK, HasWorkspace, HasOwn
<1> DEFINE q == Resolved(req[r], req[r].ws)
<1>2. /\ q \in Request
      /\ q.pc = "authorize" /\ q.op = req[r].op /\ q.user = req[r].user /\ q.ws = req[r].ws
      /\ q.target = req[r].target /\ q.newRole = req[r].newRole
      /\ req[r].ws \in q.been
  BY <1>1, ResolvedFacts
<1>3. req' = [ req EXCEPT ![r] = q ]
  BY DEF Adopt
<1> HIDE DEF q
<1>4. req'[r] = q
  BY <1>3 DEF IInv, TypeOK
<1>5. RequestOK(r)'
  BY <1>1, <1>2, <1>4 DEF RequestOK, AskOK, OwnOK, LockedOK, ReadOK, CountOK,
     Seeking, InWorkspace, HasWorkspace, HasOwn, HoldsRow
<1> QED
  BY <1>1, <1>2, <1>3, <1>5, PreferStep DEF Adopt

LEMMA SwitchKeeps == ASSUME IInv, NEW r \in Requests, Switch(r) PROVE IInv'
<1>1. /\ req[r].pc = "switch" /\ req[r].user \in Users /\ req[r].ws \in Workspaces
      /\ rowLock' = rowLock /\ Prefer(req[r].user, req[r].ws)
  BY DEF Switch, At, IInv, TypeOK, RequestOK, AskOK, HasWorkspace
<1>2. req' = [ req EXCEPT ![r] = Idle ] /\ req'[r] = Idle
  BY DEF Switch, Finish, IInv, TypeOK
<1>3. RequestOK(r)'
  BY <1>1, <1>2, IdleIsOK, IdleHoldsNoRow DEF HoldsRow
<1> QED
  BY <1>1, <1>2, <1>3, IdleFacts, PreferStep DEF Switch

LEMMA IssueKeeps == ASSUME IInv, NEW r \in Requests, Issue(r) PROVE IInv'
<1>1. /\ req[r].pc = "issue" /\ req[r].ws \in existing /\ req[r].ws \in Workspaces
      /\ req[r].target \in Users /\ req[r].newRole \in InvitedRoles
      /\ accounts' = accounts /\ existing' = existing /\ member' = member /\ pref' = pref
      /\ rowLock' = rowLock /\ inviteLock' = inviteLock
  BY DEF Issue, At, IInv, TypeOK, RequestOK, AskOK, HasWorkspace, InWorkspace
<1> DEFINE row == [ ws |-> req[r].ws, to |-> req[r].target, role |-> req[r].newRole, status |-> "open" ]
<1>2. row \in Invitation /\ row.ws \in existing
  BY <1>1 DEF Invitation
<1>3. PICK i \in Invites : invite[i] = None /\ invite' = [ invite EXCEPT ![i] = row ]
  BY DEF Issue
<1> HIDE DEF row
<1>4. /\ invite' \in [ Invites -> Invitation \cup {None} ]
      /\ invite'[i] = row
      /\ \A j \in Invites : j # i => invite'[j] = invite[j]
  BY <1>2, <1>3 DEF IInv, TypeOK
<1>5. req' = [ req EXCEPT ![r] = Idle ] /\ req'[r] = Idle
  BY DEF Issue, Finish, IInv, TypeOK
<1>6. RequestOK(r)'
  BY <1>1, <1>5, IdleIsOK, IdleHoldsNoRow DEF HoldsRow
<1>7. TypeOK'
  BY <1>1, <1>4, <1>5, IdleFacts DEF IInv, TypeOK, MemberOf
<1>8. TablesOK'
  BY <1>1, <1>2, <1>4 DEF IInv, TablesOK
<1>9. ASSUME NEW s \in Requests \ {r} PROVE Follows(s) /\ Spares(s)
  <2>1. req'[s] = req[s]
    BY <1>5 DEF IInv, TypeOK
  <2>2. Follows(s)
    BY <1>1, <2>1, StillFollows
  <2>3. Spares(s)
    BY <1>1, <1>3, <1>4 DEF Spares, MemberOf
  <2> QED
    BY <2>2, <2>3
<1> QED
  BY <1>6, <1>7, <1>8, <1>9, StepOf

LEMMA ExpireKeeps == ASSUME IInv, NEW i \in Invites, Expire(i) PROVE IInv'
<1>1. /\ invite[i] # None /\ invite[i].status = "open"
      /\ accounts' = accounts /\ existing' = existing /\ member' = member /\ pref' = pref
      /\ rowLock' = rowLock /\ inviteLock' = inviteLock /\ req' = req
  BY DEF Expire
<1> DEFINE row == [ invite[i] EXCEPT !.status = "expired" ]
<1>2. /\ row \in Invitation
      /\ row.ws = invite[i].ws /\ row.to = invite[i].to /\ row.status = "expired"
  BY <1>1 DEF Invitation, IInv, TypeOK
<1>3. invite' = [ invite EXCEPT ![i] = row ]
  BY DEF Expire
<1> HIDE DEF row
<1>4. /\ invite' \in [ Invites -> Invitation \cup {None} ]
      /\ invite'[i] = row /\ row # None
      /\ \A j \in Invites : j # i => invite'[j] = invite[j]
  BY <1>2, <1>3, WorkspaceAssumption DEF IInv, TypeOK
<1>5. TypeOK'
  BY <1>1, <1>4 DEF IInv, TypeOK, MemberOf
<1>6. TablesOK'
  BY <1>1, <1>2, <1>4 DEF IInv, TablesOK
<1>7. ASSUME NEW s \in Requests PROVE Follows(s) /\ Spares(s)
  <2>1. Follows(s)
    BY <1>1, StillFollows
  <2>2. Spares(s)
    BY <1>1, <1>2, <1>4 DEF Spares, MemberOf
  <2> QED
    BY <2>1, <2>2
<1> QED
  BY <1>5, <1>6, <1>7, StepOfNobody

-----------------------------------------------------------------------------
(* Steps that change the membership.                                       *)

Membership == [ Workspaces -> [ Users -> Roles \cup {"none"} ] ]

LEMMA SetMemberFacts ==
  ASSUME IInv, NEW w \in Workspaces, NEW u \in Users, NEW role \in Roles \cup {"none"}
  PROVE  /\ SetMember(w, u, role) \in Membership
         /\ SetMember(w, u, role)[w][u] = role
         /\ \A x \in Workspaces, v \in Users :
              x # w \/ v # u => SetMember(w, u, role)[x][v] = member[x][v]
BY DEF SetMember, Membership, IInv, TypeOK

\* Every request other than the one that commits follows the membership.
LEMMA CommitFacts ==
  ASSUME IInv, NEW r \in Requests, NEW q \in Request, NEW members,
         q.pc # "change",
         CommitMembers(r, q, members)
  PROVE  /\ member' = members
         /\ req' \in [ Requests -> Request ]
         /\ req'[r] = Witness(q, members)
         /\ q = Idle => req'[r] = Idle
         /\ \A s \in Requests \ {r} : Follows(s)
<1>1. /\ member' = members
      /\ req' = [ s \in Requests |-> Witness(IF s = r THEN q ELSE req[s], members) ]
  BY DEF CommitMembers
<1>2. req'[r] = Witness(q, members) /\ req'[r] \in Request
  <2>1. Witness(q, members) \in Request
    BY WitnessFacts DEF IInv
  <2> QED
    BY <1>1, <2>1
<1>3. ASSUME NEW s \in Requests \ {r} PROVE Follows(s) /\ req'[s] \in Request
  <2>1. req'[s] = Witness(req[s], member')
    BY <1>1
  <2>2. Follows(s)
    BY <2>1, WitnessFollows
  <2> QED
    BY <2>2 DEF Follows
<1>4. req' \in [ Requests -> Request ]
  BY <1>1, <1>2, <1>3
<1>5. q = Idle => req'[r] = Idle
  BY <1>2 DEF Witness
<1> QED
  BY <1>1, <1>2, <1>3, <1>4, <1>5

\* A new workspace, whose founder prefers it, disturbs nobody else.
LEMMA FoundSpares ==
  ASSUME IInv, NEW s \in Requests, NEW u \in Users, NEW w \in Workspaces \ existing,
         member' = SetMember(w, u, "owner"), existing' = existing \cup {w},
         pref' = [ pref EXCEPT ![u] = w ],
         UNCHANGED << invite, rowLock, inviteLock >>
  PROVE  Spares(s)
<1>1. /\ member'[w][u] = "owner"
      /\ \A x \in Workspaces, v \in Users : x # w \/ v # u => member'[x][v] = member[x][v]
  BY SetMemberFacts DEF Roles
<1>2. /\ pref'[u] = w
      /\ \A v \in Users : v # u => pref'[v] = pref[v]
  BY DEF IInv, TypeOK
<1>3. \A v \in Users : pref'[v] = None => pref[v] = None /\ MemberOf(v)' = MemberOf(v)
  BY <1>1, <1>2, WorkspaceAssumption DEF MemberOf
<1>4. existing \subseteq Workspaces
  BY DEF IInv, TypeOK
<1> QED
  BY <1>1, <1>3, <1>4 DEF Spares

\* The tables when a user founds a workspace.
LEMMA FoundTables ==
  ASSUME IInv, NEW u \in Users, NEW w \in Workspaces \ existing,
         member' = SetMember(w, u, "owner"), existing' = existing \cup {w},
         pref' = [ pref EXCEPT ![u] = w ],
         accounts' = accounts \cup {u},
         UNCHANGED << invite, rowLock, inviteLock >>,
         req' \in [ Requests -> Request ]
  PROVE  TypeOK' /\ TablesOK'
<1>1. /\ member' \in Membership
      /\ member'[w][u] = "owner"
      /\ \A x \in Workspaces, v \in Users : x # w \/ v # u => member'[x][v] = member[x][v]
  BY SetMemberFacts DEF Roles
<1>2. /\ pref' \in [ Users -> Workspaces \cup {None} ]
      /\ \A v \in Users : v # u => pref'[v] = pref[v]
  BY DEF IInv, TypeOK
<1>3. TypeOK'
  BY <1>1, <1>2 DEF IInv, TypeOK, MemberOf, Membership
<1>4. TablesOK'
  BY <1>1 DEF IInv, TablesOK
<1> QED
  BY <1>3, <1>4

LEMMA BootstrapKeeps == ASSUME IInv, NEW r \in Requests, Bootstrap(r) PROVE IInv'
<1> DEFINE u == req[r].user
<1>1. /\ req[r].pc = "bootstrap" /\ req[r] \in Request /\ u \in Users
      /\ AskOK(r) /\ LockedOK(r)
      /\ accounts' = accounts /\ invite' = invite /\ rowLock' = rowLock /\ inviteLock' = inviteLock
  BY DEF Bootstrap, At, IInv, TypeOK, RequestOK, AskOK
<1>2. PICK w \in Workspaces \ existing :
        /\ existing' = existing \cup {w}
        /\ InsertPreference(u, w)
        /\ CommitMembers(r, [ Resolved(req[r], w) EXCEPT !.been = {w} ], SetMember(w, u, "owner"))
  BY DEF Bootstrap
<1> DEFINE q == [ Resolved(req[r], w) EXCEPT !.been = {w} ]
<1>3. /\ q \in Request
      /\ q.pc = "authorize" /\ q.op = req[r].op /\ q.user = u /\ q.ws = w
      /\ q.target = req[r].target /\ q.newRole = req[r].newRole
      /\ q.been = {w}
  <2> DEFINE p == Resolved(req[r], w)
  <2>1. /\ p \in Request
        /\ p.pc = "authorize" /\ p.op = req[r].op /\ p.user = u /\ p.ws = w
        /\ p.target = req[r].target /\ p.newRole = req[r].newRole
    BY <1>1, ResolvedFacts
  <2> HIDE DEF p
  <2>2. q = [ p EXCEPT !.been = {w} ]
    BY DEF p
  <2> QED
    BY <2>1, <2>2 DEF Request
<1> HIDE DEF q
<1>4. CommitMembers(r, q, SetMember(w, u, "owner"))
  BY <1>2 DEF q
<1>5. /\ member' = SetMember(w, u, "owner")
      /\ req' \in [ Requests -> Request ]
      /\ req'[r] = Witness(q, SetMember(w, u, "owner"))
      /\ \A s \in Requests \ {r} : Follows(s)
  BY <1>3, <1>4, CommitFacts
<1>6. /\ req'[r].pc = "authorize" /\ req'[r].op = req[r].op /\ req'[r].user = u /\ req'[r].ws = w
      /\ req'[r].target = req[r].target /\ req'[r].newRole = req[r].newRole /\ req'[r].been = {w}
  BY <1>3, <1>5, WitnessFacts DEF IInv, Seeking
<1>7. pref' = [ pref EXCEPT ![u] = w ] /\ u \in accounts
  BY <1>2 DEF InsertPreference, Prefer
<1>8. accounts' = accounts \cup {u}
  BY <1>1, <1>7
<1>9. TypeOK' /\ TablesOK'
  BY <1>1, <1>2, <1>5, <1>7, <1>8, FoundTables
<1>10. RequestOK(r)'
  BY <1>1, <1>2, <1>6 DEF RequestOK, AskOK, OwnOK, LockedOK, ReadOK, CountOK,
     Seeking, InWorkspace, HasWorkspace, HasOwn, HoldsRow
<1>11. \A s \in Requests \ {r} : Spares(s)
  BY <1>1, <1>2, <1>5, <1>7, FoundSpares
<1> QED
  BY <1>5, <1>9, <1>10, <1>11, StepOf

LEMMA CreateWorkspaceKeeps == ASSUME IInv, NEW r \in Requests, CreateWorkspace(r) PROVE IInv'
<1>1. /\ req[r] = Idle
      /\ accounts' = accounts /\ invite' = invite /\ rowLock' = rowLock /\ inviteLock' = inviteLock
  BY DEF CreateWorkspace
<1>2. PICK u \in Users, w \in Workspaces \ existing :
        /\ existing' = existing \cup {w}
        /\ Prefer(u, w)
        /\ CommitMembers(r, Idle, SetMember(w, u, "owner"))
  BY DEF CreateWorkspace
<1>3. /\ member' = SetMember(w, u, "owner")
      /\ req' \in [ Requests -> Request ]
      /\ req'[r] = Idle
      /\ \A s \in Requests \ {r} : Follows(s)
  BY <1>2, IdleFacts, CommitFacts
<1>4. pref' = [ pref EXCEPT ![u] = w ] /\ u \in accounts
  BY <1>2 DEF Prefer
<1>5. accounts' = accounts \cup {u}
  BY <1>1, <1>4
<1>6. TypeOK' /\ TablesOK'
  BY <1>1, <1>2, <1>3, <1>4, <1>5, FoundTables
<1>7. RequestOK(r)'
  BY <1>1, <1>3, IdleFacts, IdleIsOK, IdleHoldsNoRow DEF HoldsRow
<1>8. \A s \in Requests \ {r} : Spares(s)
  BY <1>1, <1>2, <1>3, <1>4, FoundSpares
<1> QED
  BY <1>3, <1>6, <1>7, <1>8, StepOf

LEMMA AcceptFacts ==
  ASSUME IInv, NEW r \in Requests, Accept(r)
  PROVE  /\ req[r].pc = "accept" /\ req[r].user \in Users
         /\ req[r].ws \in existing /\ req[r].ws \in Workspaces
         /\ req[r].invite \in Invites
         /\ inviteLock[req[r].invite] = r
         /\ invite[req[r].invite] \in Invitation
         /\ invite[req[r].invite].ws = req[r].ws /\ invite[req[r].invite].to = req[r].user
         /\ invite[req[r].invite].role \in { "admin", "member" }
         /\ invite[req[r].invite].status # "accepted"
         /\ LockedOK(r) /\ ReadOK(r)
BY WorkspaceAssumption DEF Accept, At, IInv, TypeOK, RequestOK, AskOK, LockedOK, HasWorkspace, Invitation

LEMMA AcceptKeeps == ASSUME IInv, NEW r \in Requests, Accept(r) PROVE IInv'
<1> DEFINE w == req[r].ws
           u == req[r].user
           i == req[r].invite
           members == IF rowLock[w][u] = r THEN SetMember(w, u, invite[i].role) ELSE member
           row == [ invite[i] EXCEPT !.status = "accepted" ]
<1>1. /\ w \in existing /\ w \in Workspaces /\ u \in Users /\ i \in Invites
      /\ inviteLock[i] = r
      /\ invite[i] \in Invitation /\ invite[i].role \in { "admin", "member" }
  BY AcceptFacts
<1>2. /\ Prefer(u, w)
      /\ invite' = [ invite EXCEPT ![i] = row ]
      /\ CommitMembers(r, Idle, members)
      /\ Unlock(r)
      /\ accounts' = accounts /\ existing' = existing
  BY DEF Accept
<1>3. row \in Invitation /\ row.ws = invite[i].ws /\ row.to = invite[i].to /\ row # None
  BY <1>1, WorkspaceAssumption DEF Invitation
<1> HIDE DEF w, u, i, row
<1>4. /\ members \in Membership
      /\ rowLock[w][u] = r => members[w][u] # "none"
      /\ rowLock[w][u] # r => members = member
      /\ \A x \in Workspaces, v \in Users : x # w \/ v # u => members[x][v] = member[x][v]
  <2>1. invite[i].role \in Roles \cup {"none"}
    BY <1>1 DEF Roles
  <2>2. CASE rowLock[w][u] = r
    BY <1>1, <2>1, <2>2, SetMemberFacts
  <2>3. CASE rowLock[w][u] # r
    BY <2>3 DEF IInv, TypeOK, Membership
  <2> QED
    BY <2>2, <2>3
<1> HIDE DEF members
<1>5. /\ member' = members
      /\ req' \in [ Requests -> Request ]
      /\ req'[r] = Idle
      /\ \A s \in Requests \ {r} : Follows(s)
  BY <1>2, IdleFacts, CommitFacts
<1>6. /\ pref' \in [ Users -> Workspaces \cup {None} ]
      /\ u \in accounts
      /\ pref'[u] = w
      /\ \A v \in Users : v # u => pref'[v] = pref[v]
  BY <1>1, <1>2 DEF Prefer, IInv, TypeOK
<1>7. /\ invite' \in [ Invites -> Invitation \cup {None} ]
      /\ invite'[i] = row
      /\ \A j \in Invites : j # i => invite'[j] = invite[j]
  BY <1>1, <1>2, <1>3 DEF IInv, TypeOK
<1>8. /\ rowLock' \in [ Workspaces -> [ Users -> Requests \cup {None} ] ]
      /\ inviteLock' \in [ Invites -> Requests \cup {None} ]
      /\ LeavesLocks(r)
      /\ \A x \in Workspaces, v \in Users : rowLock'[x][v] # r
  BY <1>2, UnlockFacts
<1>9. TypeOK'
  <2>1. ASSUME NEW v \in Users \ accounts' PROVE pref'[v] = None /\ MemberOf(v)' = {}
    <3>1. v # u /\ pref[v] = None /\ MemberOf(v) = {}
      BY <1>2, <1>6, <2>1 DEF IInv, TypeOK
    <3>2. \A x \in Workspaces : member'[x][v] = member[x][v]
      BY <1>4, <1>5, <3>1
    <3> QED
      BY <1>6, <3>1, <3>2 DEF MemberOf
  <2> QED
    BY <1>2, <1>4, <1>5, <1>6, <1>7, <1>8, <2>1 DEF IInv, TypeOK, Membership
<1>10. TablesOK'
  <2>1. \A j \in Invites : invite'[j] # None => invite'[j].ws \in existing
    BY <1>1, <1>3, <1>7, WorkspaceAssumption DEF IInv, TablesOK
  <2>2. \A x \in Workspaces, v \in Users : member'[x][v] # "none" => x \in existing
    BY <1>1, <1>4, <1>5 DEF IInv, TablesOK
  <2> QED
    BY <1>2, <2>1, <2>2 DEF TablesOK
<1>11. RequestOK(r)'
  BY <1>5, <1>8, IdleIsOK
<1>12. ASSUME NEW s \in Requests \ {r} PROVE Spares(s)
  <2>1. \A x \in Workspaces, v \in Users : (rowLock[x][v] = s) = (rowLock'[x][v] = s)
    BY <1>8 DEF LeavesLocks
  <2>2. \A x \in existing, v \in Users : rowLock[x][v] = s => (member[x][v] = "none") = (member'[x][v] = "none")
    BY <1>4, <1>5 DEF IInv, TypeOK
  <2>3. \A j \in Invites : inviteLock[j] = s => inviteLock'[j] = s
    BY <1>8 DEF LeavesLocks
  <2>4. \A j \in Invites : invite[j] # None =>
          /\ invite'[j] # None /\ invite'[j].ws = invite[j].ws /\ invite'[j].to = invite[j].to
          /\ inviteLock[j] = s /\ invite[j].status # "accepted" => invite'[j].status # "accepted"
    BY <1>1, <1>3, <1>7
  <2>5. \A v \in Users : pref'[v] = None => pref[v] = None /\ MemberOf(v)' = MemberOf(v)
    BY <1>1, <1>4, <1>5, <1>6, WorkspaceAssumption DEF MemberOf
  <2> QED
    BY <1>2, <2>1, <2>2, <2>3, <2>4, <2>5 DEF Spares
<1> QED
  BY <1>5, <1>9, <1>10, <1>11, <1>12, StepOf

\* What holds of a request that is about to change its target's membership.
LEMMA ChangeFacts ==
  ASSUME IInv, NEW r \in Requests, req[r].pc = "change"
  PROVE  /\ req[r].ws \in existing /\ req[r].ws \in Workspaces /\ req[r].target \in Users
         /\ rowLock[req[r].ws][req[r].target] = r
         /\ member[req[r].ws][req[r].target] # "none"
         /\ req[r].target \in accounts
         /\ req[r].op = "role" => req[r].newRole \in Roles
         /\ req[r].owners \in Nat
         /\ req[r].ownersMoved \/ Cardinality(Owners(req[r].ws)) >= req[r].owners
<1>1. AskOK(r) /\ LockedOK(r) /\ CountOK(r) /\ TypeOK /\ req[r] \in Request
  BY DEF IInv, TypeOK, RequestOK
<1>2. /\ req[r].ws \in existing /\ req[r].ws \in Workspaces /\ req[r].target \in Users
      /\ req[r].op = "role" => req[r].newRole \in Roles
  BY <1>1, WorkspaceAssumption DEF AskOK, TypeOK, HasWorkspace, InWorkspace
<1>3. /\ rowLock[req[r].ws][req[r].target] = r
      /\ member[req[r].ws][req[r].target] # "none"
      /\ req[r].ownersMoved \/ Cardinality(Owners(req[r].ws)) >= req[r].owners
  BY <1>1 DEF LockedOK, CountOK
<1>4. req[r].target \in accounts
  BY <1>1, <1>2, <1>3 DEF TypeOK, MemberOf
<1>5. req[r].owners \in Nat
  BY <1>1 DEF Request
<1> QED
  BY <1>2, <1>3, <1>4, <1>5

\* A request whose row is not the one that a commit changes is spared.
LEMMA ChangeSpares ==
  ASSUME IInv, NEW r \in Requests, NEW s \in Requests \ {r}, NEW w \in Workspaces, NEW u \in Users,
         rowLock[w][u] \in { r, None },
         \A x \in Workspaces, v \in Users : x # w \/ v # u => member'[x][v] = member[x][v],
         \A v \in Users : pref'[v] = None =>
           \/ pref[v] = None /\ MemberOf(v)' = MemberOf(v)
           \/ ~ (MemberOf(v) \subseteq MemberOf(v)'),
         LeavesLocks(r),
         UNCHANGED << existing, invite >>
  PROVE  Spares(s)
<1>1. s # r /\ s # None /\ existing \subseteq Workspaces
  BY WorkspaceAssumption DEF IInv, TypeOK
<1>2. \A x \in Workspaces, v \in Users : (rowLock[x][v] = s) = (rowLock'[x][v] = s)
  BY DEF LeavesLocks
<1>3. \A x \in existing, v \in Users : rowLock[x][v] = s => (member[x][v] = "none") = (member'[x][v] = "none")
  BY <1>1
<1>4. \A j \in Invites : inviteLock[j] = s => inviteLock'[j] = s
  BY DEF LeavesLocks
<1> QED
  BY <1>2, <1>3, <1>4 DEF Spares

LEMMA ChangeRoleKeeps == ASSUME IInv, NEW r \in Requests, ChangeRole(r) PROVE IInv'
<1> DEFINE w == req[r].ws
           u == req[r].target
           role == req[r].newRole
<1>1. /\ w \in existing /\ w \in Workspaces /\ u \in Users /\ u \in accounts
      /\ rowLock[w][u] = r /\ member[w][u] # "none" /\ role \in Roles
  BY ChangeFacts DEF ChangeRole, At
<1>2. /\ CommitMembers(r, Idle, SetMember(w, u, role))
      /\ Unlock(r)
      /\ accounts' = accounts /\ existing' = existing /\ pref' = pref /\ invite' = invite
  BY DEF ChangeRole
<1> HIDE DEF w, u, role
<1>3. /\ member' = SetMember(w, u, role)
      /\ req' \in [ Requests -> Request ]
      /\ req'[r] = Idle
      /\ \A s \in Requests \ {r} : Follows(s)
  BY <1>2, IdleFacts, CommitFacts
<1>4. /\ member' \in Membership
      /\ member'[w][u] = role /\ role # "none"
      /\ \A x \in Workspaces, v \in Users : x # w \/ v # u => member'[x][v] = member[x][v]
  BY <1>1, <1>3, SetMemberFacts DEF Roles
<1>5. /\ rowLock' \in [ Workspaces -> [ Users -> Requests \cup {None} ] ]
      /\ inviteLock' \in [ Invites -> Requests \cup {None} ]
      /\ LeavesLocks(r)
      /\ \A x \in Workspaces, v \in Users : rowLock'[x][v] # r
  BY <1>2, UnlockFacts
<1>6. \A v \in Users : MemberOf(v)' = MemberOf(v)
  BY <1>1, <1>4 DEF MemberOf
<1>7. TypeOK'
  BY <1>2, <1>3, <1>4, <1>5, <1>6 DEF IInv, TypeOK, Membership
<1>8. TablesOK'
  BY <1>1, <1>2, <1>4 DEF IInv, TablesOK
<1>9. RequestOK(r)'
  BY <1>3, <1>5, IdleIsOK
<1>10. \A s \in Requests \ {r} : Spares(s)
  BY <1>1, <1>2, <1>4, <1>5, <1>6, ChangeSpares
<1> QED
  BY <1>3, <1>7, <1>8, <1>9, <1>10, StepOf

LEMMA RemoveKeeps == ASSUME IInv, NEW r \in Requests, Remove(r) PROVE IInv'
<1>1. PICK w \in Workspaces, u \in Users :
        /\ w = req[r].ws /\ u = req[r].target
        /\ w \in existing /\ u \in accounts
        /\ rowLock[w][u] = r /\ member[w][u] # "none"
  BY ChangeFacts DEF Remove, At
<1>2. /\ CommitMembers(r, Idle, SetMember(w, u, "none"))
      /\ ForgetPreference(u, w)
      /\ Unlock(r)
      /\ accounts' = accounts /\ existing' = existing /\ invite' = invite
  BY <1>1 DEF Remove
<1>3. /\ member' = SetMember(w, u, "none")
      /\ req' \in [ Requests -> Request ]
      /\ req'[r] = Idle
      /\ \A s \in Requests \ {r} : Follows(s)
  BY <1>2, IdleFacts, CommitFacts
<1>4. /\ member' \in Membership
      /\ member'[w][u] = "none"
      /\ \A x \in Workspaces, v \in Users : x # w \/ v # u => member'[x][v] = member[x][v]
  BY <1>1, <1>3, SetMemberFacts
<1>5. /\ rowLock' \in [ Workspaces -> [ Users -> Requests \cup {None} ] ]
      /\ inviteLock' \in [ Invites -> Requests \cup {None} ]
      /\ LeavesLocks(r)
      /\ \A x \in Workspaces, v \in Users : rowLock'[x][v] # r
  BY <1>2, UnlockFacts
<1>6. /\ pref' \in [ Users -> Workspaces \cup {None} ]
      /\ \A v \in Users : v # u => pref'[v] = pref[v]
      /\ pref'[u] = IF pref[u] = w THEN None ELSE pref[u]
  BY <1>1, <1>2 DEF ForgetPreference, IInv, TypeOK
<1>7. /\ \A v \in Users : v # u => MemberOf(v)' = MemberOf(v)
      /\ w \in MemberOf(u) /\ w \notin MemberOf(u)' /\ MemberOf(u)' \subseteq MemberOf(u)
  BY <1>1, <1>4 DEF MemberOf
<1>8. TypeOK'
  BY <1>1, <1>2, <1>3, <1>4, <1>5, <1>6, <1>7 DEF IInv, TypeOK, Membership
<1>9. TablesOK'
  BY <1>1, <1>2, <1>4 DEF IInv, TablesOK
<1>10. RequestOK(r)'
  BY <1>3, <1>5, IdleIsOK
<1>11. \A v \in Users : pref'[v] = None =>
         \/ pref[v] = None /\ MemberOf(v)' = MemberOf(v)
         \/ ~ (MemberOf(v) \subseteq MemberOf(v)')
  BY <1>6, <1>7
<1>12. \A s \in Requests \ {r} : Spares(s)
  BY <1>1, <1>2, <1>4, <1>5, <1>11, ChangeSpares
<1> QED
  BY <1>3, <1>8, <1>9, <1>10, <1>12, StepOf

LEMMA DeleteAccountKeeps == ASSUME IInv, NEW r \in Requests, DeleteAccount(r) PROVE IInv'
<1>1. PICK u \in Users :
        /\ u = req[r].user /\ req[r].pc = "delete"
        /\ \A w \in Workspaces : rowLock[w][u] = None
        /\ accounts' = accounts \ {u}
        /\ pref' = [ pref EXCEPT ![u] = None ]
        /\ CommitMembers(r, Idle, [ w \in Workspaces |-> [ member[w] EXCEPT ![u] = "none" ] ])
        /\ existing' = existing /\ invite' = invite /\ rowLock' = rowLock /\ inviteLock' = inviteLock
  BY DEF DeleteAccount, At, IInv, RequestOK, AskOK
<1>2. /\ member' = [ w \in Workspaces |-> [ member[w] EXCEPT ![u] = "none" ] ]
      /\ req' \in [ Requests -> Request ]
      /\ req'[r] = Idle
      /\ \A s \in Requests \ {r} : Follows(s)
  BY <1>1, IdleFacts, CommitFacts
<1>3. /\ member' \in Membership
      /\ \A w \in Workspaces : member'[w][u] = "none"
      /\ \A w \in Workspaces, v \in Users : v # u => member'[w][v] = member[w][v]
  BY <1>2 DEF IInv, TypeOK, Membership
<1>4. /\ pref' \in [ Users -> Workspaces \cup {None} ]
      /\ pref'[u] = None
      /\ \A v \in Users : v # u => pref'[v] = pref[v]
  BY <1>1 DEF IInv, TypeOK
<1>5. MemberOf(u)' = {} /\ \A v \in Users : v # u => MemberOf(v)' = MemberOf(v)
  BY <1>3 DEF MemberOf
<1>6. TypeOK'
  BY <1>1, <1>2, <1>3, <1>4, <1>5 DEF IInv, TypeOK, Membership
<1>7. TablesOK'
  BY <1>1, <1>3 DEF IInv, TablesOK
<1>8. RequestOK(r)'
  BY <1>1, <1>2, IdleIsOK, IdleHoldsNoRow DEF HoldsRow
<1>9. ASSUME NEW s \in Requests \ {r} PROVE Spares(s)
  <2>1. s # None /\ existing \subseteq Workspaces
    BY WorkspaceAssumption DEF IInv, TypeOK
  <2>2. \A x \in existing, v \in Users : rowLock[x][v] = s => (member[x][v] = "none") = (member'[x][v] = "none")
    BY <1>1, <1>3, <2>1
  <2>3. \A v \in Users : pref'[v] = None => MemberOf(v)' = {} \/ (pref[v] = None /\ MemberOf(v)' = MemberOf(v))
    BY <1>4, <1>5
  <2> QED
    BY <1>1, <2>2, <2>3 DEF Spares
<1> QED
  BY <1>2, <1>6, <1>7, <1>8, <1>9, StepOf

LEMMA ProvisionKeeps ==
  ASSUME IInv, NEW u \in Users, NEW w \in Workspaces, Provision(u, w)
  PROVE  IInv'
<1>1. /\ u \notin accounts /\ w \in Workspaces \ existing
      /\ \A r \in Requests : req[r].user # u
      /\ accounts' = accounts \cup {u} /\ existing' = existing \cup {w}
      /\ member' = SetMember(w, u, "owner") /\ pref' = [ pref EXCEPT ![u] = w ]
      /\ invite' = invite /\ rowLock' = rowLock /\ inviteLock' = inviteLock /\ req' = req
  BY DEF Provision
<1>2. TypeOK' /\ TablesOK'
  <2>1. req' \in [ Requests -> Request ]
    BY <1>1 DEF IInv, TypeOK
  <2> QED
    BY <1>1, <2>1, FoundTables
<1>3. /\ member'[w][u] = "owner"
      /\ \A x \in Workspaces, v \in Users : x # w \/ v # u => member'[x][v] = member[x][v]
  BY <1>1, SetMemberFacts DEF Roles
<1>4. ASSUME NEW s \in Requests PROVE Follows(s) /\ Spares(s)
  <2>1. Spares(s)
    BY <1>1, FoundSpares
  <2>2. PICK q : q = req[s] /\ q = req'[s]
    BY <1>1
  <2>3. q \in Request /\ q.user # u /\ (q.pc # "idle" => q.user \in Users) /\ OwnOK(s)
    BY <1>1, <2>2 DEF IInv, TypeOK, RequestOK, AskOK
  <2>4. q.pc # "idle" => MemberOf(q.user)' = MemberOf(q.user)
    BY <1>3, <2>3 DEF MemberOf
  <2>5. \A x : Owners(x) \subseteq Owners(x)' \/ x \notin Workspaces
    BY <1>3 DEF Owners
  <2>6. q.pc = "change" => q.ws \in Workspaces
    BY <2>2 DEF IInv, TypeOK, RequestOK, AskOK, HasWorkspace
  <2>7. \A x \in Workspaces : Owners(x) # { q.user } => Owners(x)' # { q.user }
    <3>1. u \in Owners(w)'
      BY <1>3 DEF Owners
    <3>2. \A x \in Workspaces : x # w => Owners(x)' = Owners(x)
      BY <1>3 DEF Owners
    <3> QED
      BY <2>3, <3>1, <3>2
  <2>8. /\ req'[s].pc = req[s].pc /\ MemberOf(req[s].user)' = MemberOf(q.user)'
        /\ Owners(req[s].ws)' = Owners(q.ws)'
        /\ q.pc \in Seeking => MemberOf(q.user) \subseteq q.been
    BY <2>2, <2>3 DEF MemberOf, Owners, OwnOK
  <2>9. Follows(s)
    BY <2>2, <2>3, <2>4, <2>5, <2>6, <2>7, <2>8 DEF Follows, Seeking, Watched
  <2> QED
    BY <2>1, <2>9
<1> QED
  BY <1>2, <1>4, StepOfNobody

LEMMA RecoverKeeps ==
  ASSUME IInv, NEW u \in Users, NEW w \in Workspaces, Recover(w, u)
  PROVE  IInv'
<1>1. /\ w \in existing /\ rowLock[w][u] = None /\ u \in accounts
      /\ pref' = [ pref EXCEPT ![u] = w ]
      /\ member' = SetMember(w, u, "owner")
      /\ req' = [ r \in Requests |-> Witness(req[r], member') ]
      /\ accounts' = accounts /\ existing' = existing
      /\ invite' = invite /\ rowLock' = rowLock /\ inviteLock' = inviteLock
  BY DEF Recover, Prefer
<1>2. /\ member' \in Membership
      /\ member'[w][u] = "owner"
      /\ \A x \in Workspaces, v \in Users : x # w \/ v # u => member'[x][v] = member[x][v]
  BY <1>1, SetMemberFacts DEF Roles
<1>3. /\ pref' \in [ Users -> Workspaces \cup {None} ]
      /\ pref'[u] = w
      /\ \A v \in Users : v # u => pref'[v] = pref[v]
  BY <1>1 DEF IInv, TypeOK
<1>4. ASSUME NEW s \in Requests PROVE Follows(s) /\ req'[s] \in Request
  <2>1. req'[s] = Witness(req[s], member')
    BY <1>1
  <2> QED
    BY <2>1, WitnessFollows DEF Follows
<1>5. \A v \in Users : v # u => MemberOf(v)' = MemberOf(v)
  BY <1>2 DEF MemberOf
<1>6. TypeOK'
  BY <1>1, <1>2, <1>3, <1>4, <1>5 DEF IInv, TypeOK, Membership
<1>7. TablesOK'
  BY <1>1, <1>2 DEF IInv, TablesOK
<1>8. ASSUME NEW s \in Requests PROVE Spares(s)
  <2>1. s # None /\ existing \subseteq Workspaces
    BY WorkspaceAssumption DEF IInv, TypeOK
  <2>2. \A x \in existing, v \in Users : rowLock[x][v] = s => (member[x][v] = "none") = (member'[x][v] = "none")
    BY <1>1, <1>2, <2>1
  <2>3. \A v \in Users : pref'[v] = None => pref[v] = None /\ MemberOf(v)' = MemberOf(v)
    BY <1>3, <1>5, WorkspaceAssumption
  <2> QED
    BY <1>1, <2>2, <2>3 DEF Spares
<1> QED
  BY <1>4, <1>6, <1>7, <1>8, StepOfNobody

LEMMA NextKeeps == IInv /\ [Next]_vars => IInv'
<1> SUFFICES ASSUME IInv, [Next]_vars PROVE IInv'
  OBVIOUS
<1>1. ASSUME NEW r \in Requests,
             \/ BeginInWorkspace(r) \/ ReadPreferred(r) \/ ReadExisting(r) \/ Adopt(r) \/ Bootstrap(r)
             \/ CreateWorkspace(r) \/ SwitchCheck(r) \/ Switch(r)
             \/ AuthorizeInvite(r) \/ Issue(r) \/ BeginAccept(r) \/ Join(r) \/ Accept(r)
             \/ AuthorizeChange(r) \/ LockTarget(r) \/ CountOwners(r) \/ ChangeRole(r) \/ Remove(r)
             \/ BeforeDelete(r) \/ DeleteAccount(r)
             \/ Rollback(r)
      PROVE  IInv'
  BY <1>1, BeginInWorkspaceKeeps, ReadPreferredKeeps, ReadExistingKeeps, AdoptKeeps, BootstrapKeeps,
     CreateWorkspaceKeeps, SwitchCheckKeeps, SwitchKeeps, AuthorizeInviteKeeps, IssueKeeps, BeginAcceptKeeps,
     JoinKeeps, AcceptKeeps, AuthorizeChangeKeeps, LockTargetKeeps, CountOwnersKeeps, ChangeRoleKeeps,
     RemoveKeeps, BeforeDeleteKeeps, DeleteAccountKeeps, RollbackKeeps
<1>2. CASE UNCHANGED vars
  <2>1. TypeOK' /\ TablesOK'
    BY <1>2 DEF vars, IInv, TypeOK, TablesOK, MemberOf
  <2>2. ASSUME NEW s \in Requests PROVE Follows(s) /\ Spares(s)
    <3>1. Follows(s)
      BY <1>2, StillFollows DEF vars
    <3>2. Spares(s)
      BY <1>2 DEF vars, Spares, MemberOf
    <3> QED
      BY <3>1, <3>2
  <2> QED
    BY <2>1, <2>2, StepOfNobody
<1> QED
  BY <1>1, <1>2, ExpireKeeps, ProvisionKeeps, RecoverKeeps DEF Next

-----------------------------------------------------------------------------
(* The theorems.                                                           *)

\* Whatever requests and scripts run at once, and wherever they end, every
\* reachable state of the workspaces satisfies the inductive invariant.
THEOREM WorkspaceInvariant == Spec => []IInv
BY InitHolds, NextKeeps, PTL DEF Spec

\* The rows of the tables are of their kind, and only an account that exists has
\* memberships and a preference.
THEOREM TypeCorrect == Spec => []TypeOK
<1>1. IInv => TypeOK
  BY DEF IInv
<1> QED
  BY <1>1, WorkspaceInvariant, PTL

\* tenantForUser never names a workspace that the user did not belong to at some
\* instant of the request, whatever happens between its statements.
THEOREM ResolvesToOwn == Spec => []ResolvesToOwnWorkspace
<1>1. IInv => ResolvesToOwnWorkspace
  BY DEF IInv, RequestOK, OwnOK, ResolvesToOwnWorkspace, HasOwn
<1> QED
  BY <1>1, WorkspaceInvariant, PTL

-----------------------------------------------------------------------------
(* What a step may never do.                                               *)

\* How the membership may change, and how preferences with it.
Founds(u, w) ==
  /\ member' = SetMember(w, u, "owner")
  /\ pref' = [ pref EXCEPT ![u] = w ]

LEMMA MembershipSteps ==
  ASSUME IInv, [Next]_vars
  PROVE  \/ member' = member /\ pref' = pref
         \/ \E u \in Users, w \in Workspaces : Founds(u, w)
         \/ \E r \in Requests : Adopt(r) \/ Switch(r)
         \/ \E r \in Requests : Accept(r) \/ ChangeRole(r) \/ Remove(r) \/ DeleteAccount(r)
<1>1. ASSUME NEW r \in Requests, Bootstrap(r) \/ CreateWorkspace(r)
      PROVE  \E u \in Users, w \in Workspaces : Founds(u, w)
  <2>1. CASE Bootstrap(r)
    BY <2>1 DEF Bootstrap, At, InsertPreference, Prefer, CommitMembers, Founds, IInv, RequestOK, AskOK
  <2>2. CASE CreateWorkspace(r)
    BY <2>2 DEF CreateWorkspace, Prefer, CommitMembers, Founds
  <2> QED
    BY <1>1, <2>1, <2>2
<1>2. ASSUME NEW u \in Users, NEW w \in Workspaces, Provision(u, w) \/ Recover(w, u)
      PROVE  Founds(u, w)
  BY <1>2 DEF Provision, Recover, Prefer, Founds
<1>3. ASSUME NEW r \in Requests,
             \/ BeginInWorkspace(r) \/ ReadPreferred(r) \/ ReadExisting(r) \/ SwitchCheck(r)
             \/ AuthorizeInvite(r) \/ Issue(r) \/ BeginAccept(r) \/ Join(r)
             \/ AuthorizeChange(r) \/ LockTarget(r) \/ CountOwners(r) \/ BeforeDelete(r) \/ Rollback(r)
      PROVE  member' = member /\ pref' = pref
  BY <1>3 DEF BeginInWorkspace, ReadPreferred, ReadExisting, SwitchCheck, AuthorizeInvite, Issue,
     BeginAccept, Join, AuthorizeChange, LockTarget, CountOwners, BeforeDelete, Rollback
<1>4. ASSUME NEW i \in Invites, Expire(i)
      PROVE  member' = member /\ pref' = pref
  BY <1>4 DEF Expire
<1>5. CASE UNCHANGED vars
  BY <1>5 DEF vars
<1> QED
  BY <1>1, <1>2, <1>3, <1>4, <1>5 DEF Next

LEMMA FoundsFacts ==
  ASSUME IInv, NEW u \in Users, NEW w \in Workspaces, Founds(u, w)
  PROVE  /\ member'[w][u] = "owner"
         /\ \A x \in Workspaces, v \in Users : x # w \/ v # u => member'[x][v] = member[x][v]
         /\ pref'[u] = w
         /\ \A v \in Users : v # u => pref'[v] = pref[v]
BY SetMemberFacts DEF Founds, Roles, IInv, TypeOK

\* What an acceptance does to the membership and to the invitation.
LEMMA AcceptChanges ==
  ASSUME IInv, NEW r \in Requests, Accept(r)
  PROVE  \E w \in Workspaces, u \in Users, i \in Invites :
           /\ w = req[r].ws /\ u = req[r].user
           /\ invite[i] # None /\ invite[i].ws = w /\ invite[i].to = u
           /\ invite[i].role \in { "admin", "member" }
           /\ invite[i].status # "accepted" /\ invite'[i].status = "accepted"
           /\ rowLock[w][u] = r => member[w][u] = "none" /\ member'[w][u] = invite[i].role
           /\ rowLock[w][u] # r => member' = member
           /\ \A x \in Workspaces, v \in Users : x # w \/ v # u => member'[x][v] = member[x][v]
           /\ pref'[u] = w
           /\ \A v \in Users : v # u => pref'[v] = pref[v]
<1>1. PICK w \in Workspaces, u \in Users, i \in Invites :
        /\ w = req[r].ws /\ u = req[r].user /\ i = req[r].invite
        /\ req[r].pc = "accept"
        /\ invite[i] \in Invitation /\ invite[i].ws = w /\ invite[i].to = u
        /\ invite[i].role \in { "admin", "member" }
        /\ invite[i].status # "accepted"
        /\ rowLock[w][u] = r => member[w][u] = "none"
  BY AcceptFacts DEF LockedOK
<1>2. /\ Prefer(u, w)
      /\ invite' = [ invite EXCEPT ![i].status = "accepted" ]
      /\ member' = IF rowLock[w][u] = r THEN SetMember(w, u, invite[i].role) ELSE member
  BY <1>1 DEF Accept, CommitMembers
<1>3. invite[i] # None /\ invite'[i].status = "accepted"
  BY <1>1, <1>2, WorkspaceAssumption DEF Invitation, IInv, TypeOK
<1>4. pref'[u] = w /\ \A v \in Users : v # u => pref'[v] = pref[v]
  BY <1>1, <1>2 DEF Prefer, IInv, TypeOK
<1>5. /\ rowLock[w][u] = r => member'[w][u] = invite[i].role
      /\ rowLock[w][u] # r => member' = member
      /\ \A x \in Workspaces, v \in Users : x # w \/ v # u => member'[x][v] = member[x][v]
  <2>1. invite[i].role \in Roles \cup {"none"}
    BY <1>1 DEF Roles
  <2> QED
    BY <1>1, <1>2, <2>1, SetMemberFacts
<1> QED
  BY <1>1, <1>3, <1>4, <1>5

\* What a change of a role, or a removal, does.
LEMMA ChangeChanges ==
  ASSUME IInv, NEW r \in Requests, ChangeRole(r) \/ Remove(r)
  PROVE  \E w \in Workspaces, u \in Users, role \in Roles \cup {"none"} :
           /\ w = req[r].ws /\ u = req[r].target /\ req[r].pc = "change"
           /\ member[w][u] # "none"
           /\ member'[w][u] = role
           /\ \A x \in Workspaces, v \in Users : x # w \/ v # u => member'[x][v] = member[x][v]
           /\ role = "owner" \/ member[w][u] # "owner" \/ req[r].owners > 1
           /\ role # "none" => pref' = pref
           /\ role = "none" => pref' = [ pref EXCEPT ![u] = IF pref[u] = w THEN None ELSE pref[u] ]
           /\ req'[r] = Idle
<1>1. req[r].pc = "change"
  BY DEF ChangeRole, Remove, At
<1>2. PICK w \in Workspaces, u \in Users : w = req[r].ws /\ u = req[r].target /\ member[w][u] # "none"
  BY <1>1, ChangeFacts
<1>3. CASE ChangeRole(r)
  <2>1. PICK role \in Roles : role = req[r].newRole
    BY <1>1, <1>3, ChangeFacts DEF ChangeRole
  <2>2. /\ CommitMembers(r, Idle, SetMember(w, u, role)) /\ pref' = pref
        /\ role = "owner" \/ member[w][u] # "owner" \/ req[r].owners > 1
    BY <1>2, <1>3, <2>1 DEF ChangeRole, canRemoveOrDemoteOwner, TargetRole
  <2>3. member' = SetMember(w, u, role) /\ req'[r] = Idle /\ role # "none" /\ role \in Roles \cup {"none"}
    BY <2>1, <2>2, IdleFacts, CommitFacts DEF Roles
  <2> QED
    BY <1>1, <1>2, <2>2, <2>3, SetMemberFacts
<1>4. CASE Remove(r)
  <2>1. /\ CommitMembers(r, Idle, SetMember(w, u, "none"))
        /\ pref' = [ pref EXCEPT ![u] = IF pref[u] = w THEN None ELSE pref[u] ]
        /\ member[w][u] # "owner" \/ req[r].owners > 1
    BY <1>2, <1>4 DEF Remove, canRemoveOrDemoteOwner, TargetRole, ForgetPreference
  <2>2. member' = SetMember(w, u, "none") /\ req'[r] = Idle
    BY <2>1, IdleFacts, CommitFacts
  <2>3. PICK role \in Roles \cup {"none"} : role = "none"
    OBVIOUS
  <2>4. /\ member'[w][u] = role
        /\ \A x \in Workspaces, v \in Users : x # w \/ v # u => member'[x][v] = member[x][v]
    BY <2>2, <2>3, SetMemberFacts
  <2> QED
    BY <1>1, <1>2, <2>1, <2>2, <2>3, <2>4
<1> QED
  BY <1>3, <1>4

\* What the deletion of an account does.
LEMMA DeleteChanges ==
  ASSUME IInv, NEW r \in Requests, DeleteAccount(r)
  PROVE  \E u \in Users :
           /\ u = req[r].user /\ req[r].pc = "delete"
           /\ \A w \in Workspaces : member'[w][u] = "none"
           /\ \A w \in Workspaces, v \in Users : v # u => member'[w][v] = member[w][v]
           /\ pref'[u] = None
           /\ \A v \in Users : v # u => pref'[v] = pref[v]
           /\ req'[r] = Idle
<1>1. PICK u \in Users :
        /\ u = req[r].user /\ req[r].pc = "delete"
        /\ pref' = [ pref EXCEPT ![u] = None ]
        /\ CommitMembers(r, Idle, [ w \in Workspaces |-> [ member[w] EXCEPT ![u] = "none" ] ])
  BY DEF DeleteAccount, At, IInv, RequestOK, AskOK
<1>2. member' = [ w \in Workspaces |-> [ member[w] EXCEPT ![u] = "none" ] ] /\ req'[r] = Idle
  BY <1>1, IdleFacts, CommitFacts
<1> QED
  BY <1>1, <1>2 DEF IInv, TypeOK

\* Nobody who had no role becomes admin or member but by an invitation that the
\* step spends.
LEMMA JoinedByInvitation ==
  ASSUME IInv, [Next]_vars, NEW w \in Workspaces, NEW u \in Users,
         member[w][u] = "none", member'[w][u] \in { "admin", "member" }
  PROVE  \E i \in Invites :
           /\ invite[i] # None
           /\ invite[i].ws = w /\ invite[i].to = u /\ invite[i].role = member'[w][u]
           /\ invite[i].status # "accepted"
           /\ invite'[i].status = "accepted"
<1>1. member' # member
  OBVIOUS
<1>2. ~ \E v \in Users, x \in Workspaces : Founds(v, x)
  <2> SUFFICES ASSUME NEW v \in Users, NEW x \in Workspaces, Founds(v, x) PROVE FALSE
    OBVIOUS
  <2> QED
    BY FoundsFacts
<1>3. ASSUME NEW r \in Requests PROVE ~ (Adopt(r) \/ Switch(r))
  BY <1>1 DEF Adopt, Switch
<1>4. ASSUME NEW r \in Requests PROVE ~ (ChangeRole(r) \/ Remove(r))
  <2> SUFFICES ASSUME ChangeRole(r) \/ Remove(r) PROVE FALSE
    OBVIOUS
  <2>1. PICK x \in Workspaces, v \in Users :
          /\ member[x][v] # "none"
          /\ \A y \in Workspaces, t \in Users : y # x \/ t # v => member'[y][t] = member[y][t]
    BY ChangeChanges
  <2> QED
    BY <2>1
<1>5. ASSUME NEW r \in Requests PROVE ~ DeleteAccount(r)
  <2> SUFFICES ASSUME DeleteAccount(r) PROVE FALSE
    OBVIOUS
  <2>1. PICK v \in Users :
          /\ \A x \in Workspaces : member'[x][v] = "none"
          /\ \A x \in Workspaces, t \in Users : t # v => member'[x][t] = member[x][t]
    BY DeleteChanges
  <2> QED
    BY <2>1
<1>6. PICK r \in Requests : Accept(r)
  BY <1>1, <1>2, <1>3, <1>4, <1>5, MembershipSteps
<1>7. PICK x \in Workspaces, v \in Users, i \in Invites :
        /\ invite[i] # None /\ invite[i].ws = x /\ invite[i].to = v
        /\ invite[i].status # "accepted" /\ invite'[i].status = "accepted"
        /\ rowLock[x][v] = r => member[x][v] = "none" /\ member'[x][v] = invite[i].role
        /\ rowLock[x][v] # r => member' = member
        /\ \A y \in Workspaces, t \in Users : y # x \/ t # v => member'[y][t] = member[y][t]
  BY <1>6, AcceptChanges
<1>8. x = w /\ v = u /\ rowLock[x][v] = r
  BY <1>1, <1>7
<1> QED
  BY <1>7, <1>8

\* An invitation admits once and for one role, however many accept it at once and
\* whatever is revoked meanwhile.
THEOREM JoinsSpend == Spec => JoinsSpendAnInvitation
<1>1. IInv /\ [Next]_vars =>
        [ \A w \in Workspaces, u \in Users :
            member[w][u] = "none" /\ member'[w][u] \in { "admin", "member" } =>
              \E i \in Invites :
                /\ invite[i] # None
                /\ invite[i].ws = w /\ invite[i].to = u /\ invite[i].role = member'[w][u]
                /\ invite[i].status # "accepted"
                /\ invite'[i].status = "accepted" ]_vars
  BY JoinedByInvitation
<1> QED
  BY <1>1, WorkspaceInvariant, PTL DEF Spec, JoinsSpendAnInvitation

\* A preference is made stale only by a request that a removal has overtaken.
LEMMA StaleByOvertaken ==
  ASSUME IInv, [Next]_vars, NEW u \in Users,
         pref[u] \in MemberOf(u) \cup {None},
         pref'[u] \notin MemberOf(u)' \cup {None}
  PROVE  \E r \in Requests : req[r].user = u /\ req[r].overtaken
<1>1. ~ (member' = member /\ pref' = pref)
  BY DEF MemberOf
<1>2. ASSUME NEW v \in Users, NEW w \in Workspaces, Founds(v, w) PROVE FALSE
  <2>1. /\ member'[w][v] = "owner"
        /\ \A x \in Workspaces, t \in Users : x # w \/ t # v => member'[x][t] = member[x][t]
        /\ pref'[v] = w
        /\ \A t \in Users : t # v => pref'[t] = pref[t]
    BY <1>2, FoundsFacts
  <2> QED
    BY <2>1 DEF MemberOf
<1>3. ASSUME NEW r \in Requests, Adopt(r) \/ Switch(r)
      PROVE  req[r].user = u /\ req[r].overtaken
  <2>1. PICK v \in Users, w \in Workspaces :
          /\ v = req[r].user /\ w = req[r].ws
          /\ Prefer(v, w) /\ member' = member
          /\ req[r].overtaken \/ w \in MemberOf(v)
    BY <1>3 DEF Adopt, Switch, At, IInv, TypeOK, RequestOK, AskOK, ReadOK, HasWorkspace
  <2>2. pref'[v] = w /\ \A t \in Users : t # v => pref'[t] = pref[t]
    BY <2>1 DEF Prefer, IInv, TypeOK
  <2>3. \A t \in Users : MemberOf(t)' = MemberOf(t)
    BY <2>1 DEF MemberOf
  <2> QED
    BY <2>1, <2>2, <2>3
<1>4. ASSUME NEW r \in Requests, Accept(r)
      PROVE  req[r].user = u /\ req[r].overtaken
  <2>1. PICK w \in Workspaces, v \in Users, i \in Invites :
          /\ w = req[r].ws /\ v = req[r].user
          /\ invite[i].role \in { "admin", "member" }
          /\ rowLock[w][v] = r => member'[w][v] = invite[i].role
          /\ rowLock[w][v] # r => member' = member
          /\ \A x \in Workspaces, t \in Users : x # w \/ t # v => member'[x][t] = member[x][t]
          /\ pref'[v] = w
          /\ \A t \in Users : t # v => pref'[t] = pref[t]
    BY <1>4, AcceptChanges
  <2>2. v = u
    BY <2>1 DEF MemberOf
  <2>3. member'[w][v] = "none"
    BY <2>1, <2>2 DEF MemberOf
  <2>4. w \notin MemberOf(v) /\ rowLock[w][v] # r
    BY <2>1, <2>3 DEF MemberOf
  <2>5. req[r].pc = "accept" /\ ReadOK(r)
    BY <1>4, AcceptFacts
  <2>6. req[r].overtaken \/ rowLock[w][v] = r \/ w \in MemberOf(v)
    BY <2>1, <2>5 DEF ReadOK
  <2> QED
    BY <2>1, <2>2, <2>4, <2>6
<1>5. ASSUME NEW r \in Requests, ChangeRole(r) \/ Remove(r) PROVE FALSE
  <2>1. PICK w \in Workspaces, v \in Users, role \in Roles \cup {"none"} :
          /\ member[w][v] # "none"
          /\ member'[w][v] = role
          /\ \A x \in Workspaces, t \in Users : x # w \/ t # v => member'[x][t] = member[x][t]
          /\ role # "none" => pref' = pref
          /\ role = "none" => pref' = [ pref EXCEPT ![v] = IF pref[v] = w THEN None ELSE pref[v] ]
    BY <1>5, ChangeChanges
  <2>2. CASE role # "none"
    BY <2>1, <2>2 DEF MemberOf
  <2>3. CASE role = "none"
    <3>1. pref'[v] = (IF pref[v] = w THEN None ELSE pref[v]) /\ \A t \in Users : t # v => pref'[t] = pref[t]
      BY <2>1, <2>3 DEF IInv, TypeOK
    <3> QED
      BY <2>1, <2>3, <3>1 DEF MemberOf
  <2> QED
    BY <2>2, <2>3
<1>6. ASSUME NEW r \in Requests, DeleteAccount(r) PROVE FALSE
  <2>1. PICK v \in Users :
          /\ \A w \in Workspaces, t \in Users : t # v => member'[w][t] = member[w][t]
          /\ pref'[v] = None
          /\ \A t \in Users : t # v => pref'[t] = pref[t]
    BY <1>6, DeleteChanges
  <2> QED
    BY <2>1 DEF MemberOf
<1> QED
  BY <1>1, <1>2, <1>3, <1>4, <1>5, <1>6, MembershipSteps

\* Removing a member, and deleting an account, leave no preference behind; a stale
\* one is the work of a request of that user which lost a race with a removal.
THEOREM PreferenceStale == Spec => PreferenceStaleOnlyWhenOvertaken
<1>1. IInv /\ [Next]_vars =>
        [ \A u \in Users :
            pref[u] \in MemberOf(u) \cup {None} /\ pref'[u] \notin MemberOf(u)' \cup {None} =>
              \E r \in Requests : req[r].user = u /\ req[r].overtaken ]_vars
  BY StaleByOvertaken
<1> QED
  BY <1>1, WorkspaceInvariant, PTL DEF Spec, PreferenceStaleOnlyWhenOvertaken

\* A workspace's last owner goes only when a request has taken it from an owner, or
\* deleted the owner's account, since the owners were counted or looked at.
LEMMA LastOwnerByRace ==
  ASSUME IInv, [Next]_vars, NEW w \in Workspaces, Owners(w) # {}, Owners(w)' = {}
  PROVE  \E r \in Requests :
           /\ req[r].ownersMoved /\ req'[r] = Idle
           /\ \/ req[r].pc = "change" /\ req[r].ws = w
              \/ req[r].pc = "delete"
<1>1. PICK o \in Users : member[w][o] = "owner"
  BY DEF Owners
<1>2. \A u \in Users : member'[w][u] # "owner"
  BY DEF Owners
<1>3. ~ (member' = member)
  BY <1>1, <1>2
<1>4. ASSUME NEW u \in Users, NEW x \in Workspaces, Founds(u, x) PROVE FALSE
  BY <1>1, <1>2, <1>4, FoundsFacts
<1>5. ASSUME NEW r \in Requests, Adopt(r) \/ Switch(r) PROVE FALSE
  BY <1>3, <1>5 DEF Adopt, Switch
<1>6. ASSUME NEW r \in Requests, Accept(r) PROVE FALSE
  <2>1. PICK x \in Workspaces, u \in Users :
          /\ rowLock[x][u] = r => member[x][u] = "none"
          /\ rowLock[x][u] # r => member' = member
          /\ \A y \in Workspaces, v \in Users : y # x \/ v # u => member'[y][v] = member[y][v]
    BY <1>6, AcceptChanges
  <2> QED
    BY <1>1, <1>2, <1>3, <2>1
<1>7. ASSUME NEW r \in Requests, ChangeRole(r) \/ Remove(r)
      PROVE  req[r].ownersMoved /\ req'[r] = Idle /\ req[r].pc = "change" /\ req[r].ws = w
  <2>1. PICK x \in Workspaces, u \in Users, role \in Roles \cup {"none"} :
          /\ x = req[r].ws /\ u = req[r].target /\ req[r].pc = "change"
          /\ member'[x][u] = role
          /\ \A y \in Workspaces, v \in Users : y # x \/ v # u => member'[y][v] = member[y][v]
          /\ role = "owner" \/ member[x][u] # "owner" \/ req[r].owners > 1
          /\ req'[r] = Idle
    BY <1>7, ChangeChanges
  <2>2. x = w /\ u = o
    BY <1>1, <1>2, <2>1
  <2>3. Owners(w) = {o}
    <3>1. \A v \in Users : v # o => member[w][v] # "owner"
      BY <1>2, <2>1, <2>2
    <3> QED
      BY <1>1, <3>1 DEF Owners
  <2>4. Cardinality(Owners(w)) = 1
    BY <2>3, FS_Singleton
  <2>5. req[r].owners > 1
    BY <1>1, <1>2, <2>1, <2>2
  <2>6. req[r].owners \in Nat /\ (req[r].ownersMoved \/ Cardinality(Owners(w)) >= req[r].owners)
    BY <2>1, <2>2, ChangeFacts
  <2>7. req[r].ownersMoved
    BY <2>4, <2>5, <2>6
  <2> QED
    BY <2>1, <2>2, <2>7
<1>8. ASSUME NEW r \in Requests, DeleteAccount(r)
      PROVE  req[r].ownersMoved /\ req'[r] = Idle /\ req[r].pc = "delete"
  <2>1. PICK u \in Users :
          /\ u = req[r].user /\ req[r].pc = "delete"
          /\ \A x \in Workspaces, v \in Users : v # u => member'[x][v] = member[x][v]
          /\ req'[r] = Idle
    BY <1>8, DeleteChanges
  <2>2. u = o /\ \A v \in Users : v # o => member[w][v] # "owner"
    BY <1>1, <1>2, <2>1
  <2>3. Owners(w) = {u}
    BY <1>1, <2>2 DEF Owners
  <2>4. req[r].ownersMoved \/ Owners(w) # {u}
    BY <2>1 DEF IInv, RequestOK, CountOK
  <2> QED
    BY <2>1, <2>3, <2>4
<1> QED
  BY <1>3, <1>4, <1>5, <1>6, <1>7, <1>8, MembershipSteps

\* No request alone takes a workspace's last owner: neither canRemoveOrDemoteOwner
\* nor the beforeDelete hook lets it, unless what they looked at has changed since.
THEOREM LastOwnerInARace == Spec => LastOwnerLostOnlyInARace
<1>1. IInv /\ [Next]_vars =>
        [ \A w \in Workspaces :
            Owners(w) # {} /\ Owners(w)' = {} =>
              \E r \in Requests :
                /\ req[r].ownersMoved /\ req'[r] = Idle
                /\ \/ req[r].pc = "change" /\ req[r].ws = w
                   \/ req[r].pc = "delete" ]_vars
  BY LastOwnerByRace
<1> QED
  BY <1>1, WorkspaceInvariant, PTL DEF Spec, LastOwnerLostOnlyInARace

\* Only its own step takes a request from one point to another.
LEMMA OthersStay ==
  ASSUME IInv, NEW r \in Requests, NEW s \in Requests \ {r},
         \/ BeginInWorkspace(s) \/ ReadPreferred(s) \/ ReadExisting(s) \/ Adopt(s) \/ Bootstrap(s)
         \/ CreateWorkspace(s) \/ SwitchCheck(s) \/ Switch(s)
         \/ AuthorizeInvite(s) \/ Issue(s) \/ BeginAccept(s) \/ Join(s) \/ Accept(s)
         \/ AuthorizeChange(s) \/ LockTarget(s) \/ CountOwners(s) \/ ChangeRole(s) \/ Remove(s)
         \/ BeforeDelete(s) \/ DeleteAccount(s)
         \/ Rollback(s)
  PROVE  req'[r].pc = req[r].pc
<1>1. ASSUME NEW q, NEW members, CommitMembers(s, q, members)
      PROVE  req'[r].pc = req[r].pc
  <2>1. req'[r] = Witness(req[r], member')
    BY <1>1 DEF CommitMembers
  <2> QED
    BY <2>1, WitnessFollows DEF Follows
<1>2. CASE Bootstrap(s) \/ CreateWorkspace(s) \/ Accept(s) \/ ChangeRole(s) \/ Remove(s) \/ DeleteAccount(s)
  BY <1>1, <1>2 DEF Bootstrap, CreateWorkspace, Accept, ChangeRole, Remove, DeleteAccount
<1>3. CASE BeginInWorkspace(s) \/ SwitchCheck(s) \/ BeginAccept(s) \/ BeforeDelete(s)
  <2>1. PICK u, first : Begin(s, u, first)
    BY <1>3 DEF BeginInWorkspace, SwitchCheck, BeginAccept, BeforeDelete
  <2> QED
    BY <2>1 DEF Begin, IInv, TypeOK
<1>4. CASE ReadPreferred(s) \/ ReadExisting(s) \/ Adopt(s)
  BY <1>4 DEF ReadPreferred, ReadExisting, Adopt, Advance, IInv, TypeOK
<1>5. CASE Switch(s) \/ AuthorizeInvite(s) \/ Issue(s) \/ Join(s) \/ AuthorizeChange(s) \/ LockTarget(s)
  BY <1>5 DEF Switch, AuthorizeInvite, Issue, Join, AuthorizeChange, LockTarget, Advance, Finish, IInv, TypeOK
<1>6. CASE CountOwners(s) \/ Rollback(s)
  BY <1>6 DEF CountOwners, Rollback, Finish, IInv, TypeOK
<1> QED
  BY <1>2, <1>3, <1>4, <1>5, <1>6

\* A request leaves "bootstrap" for "authorize" by Bootstrap alone.
LEMMA OnlyBootstrap ==
  ASSUME IInv, [Next]_vars, NEW r \in Requests, req[r].pc = "bootstrap", req'[r].pc = "authorize"
  PROVE  Bootstrap(r)
<1>1. req'[r].pc # req[r].pc
  OBVIOUS
<1>2. CASE UNCHANGED vars
  BY <1>1, <1>2 DEF vars
<1>3. CASE \E i \in Invites : Expire(i)
  BY <1>1, <1>3 DEF Expire
<1>4. CASE \E u \in Users, w \in Workspaces : Provision(u, w) \/ Recover(w, u)
  <2>1. CASE req' = req
    BY <1>1, <2>1
  <2>2. CASE req' = [ s \in Requests |-> Witness(req[s], member') ]
    <3>1. req'[r] = Witness(req[r], member')
      BY <2>2
    <3> QED
      BY <1>1, <3>1, WitnessFollows DEF Follows
  <2> QED
    BY <1>4, <2>1, <2>2 DEF Provision, Recover
<1>5. ASSUME NEW s \in Requests,
             \/ BeginInWorkspace(s) \/ ReadPreferred(s) \/ ReadExisting(s) \/ Adopt(s) \/ Bootstrap(s)
             \/ CreateWorkspace(s) \/ SwitchCheck(s) \/ Switch(s)
             \/ AuthorizeInvite(s) \/ Issue(s) \/ BeginAccept(s) \/ Join(s) \/ Accept(s)
             \/ AuthorizeChange(s) \/ LockTarget(s) \/ CountOwners(s) \/ ChangeRole(s) \/ Remove(s)
             \/ BeforeDelete(s) \/ DeleteAccount(s)
             \/ Rollback(s)
      PROVE  Bootstrap(r)
  <2>1. s = r
    BY <1>1, <1>5, OthersStay
  <2>2. req[r] # Idle
    BY IdleFacts
  <2>3. ~ Rollback(r)
    BY IdleFacts DEF Rollback, Finish, IInv, TypeOK
  <2>4. ~ (BeginInWorkspace(r) \/ SwitchCheck(r) \/ BeginAccept(r) \/ BeforeDelete(r) \/ CreateWorkspace(r))
    BY <2>2 DEF BeginInWorkspace, SwitchCheck, BeginAccept, BeforeDelete, CreateWorkspace, Begin
  <2> QED
    BY <1>5, <2>1, <2>3, <2>4 DEF ReadPreferred, ReadExisting, Adopt, Switch, AuthorizeInvite, Issue, Join,
       Accept, AuthorizeChange, LockTarget, CountOwners, ChangeRole, Remove, DeleteAccount, At
<1> QED
  BY <1>2, <1>3, <1>4, <1>5 DEF Next

LEMMA BootstrapsAlone ==
  ASSUME IInv, [Next]_vars, NEW r \in Requests, At(r, "bootstrap"), req'[r].pc = "authorize"
  PROVE  MemberOf(req[r].user) = {} \/ req[r].overtaken
<1>1. Bootstrap(r)
  BY OnlyBootstrap DEF At
<1>2. pref[req[r].user] = None
  BY <1>1 DEF Bootstrap, InsertPreference
<1> QED
  BY <1>2 DEF At, IInv, RequestOK, ReadOK

\* Of the first requests of a new user one founds a workspace, and a user who belongs
\* to one founds another only if a removal came between.
THEOREM BootstrapAlone == Spec => BootstrapIsAlone
<1>1. IInv /\ [Next]_vars =>
        [ \A r \in Requests :
            At(r, "bootstrap") /\ req'[r].pc = "authorize" =>
              MemberOf(req[r].user) = {} \/ req[r].overtaken ]_vars
  BY BootstrapsAlone
<1> QED
  BY <1>1, WorkspaceInvariant, PTL DEF Spec, BootstrapIsAlone

-----------------------------------------------------------------------------
(* Requests, locks and transactions implement Membership.                  *)

MandateHeld == { "lock", "count", "change", "issue" }

\* A mandate is a matter of where a request is and what it asks.
LEMMA SameMandate ==
  ASSUME NEW p, NEW q,
         p.pc = q.pc, p.op = q.op, p.ws = q.ws, p.target = q.target, p.newRole = q.newRole
  PROVE  MandateOf(p) = MandateOf(q)
BY DEF MandateOf

LEMMA NoMandateOf ==
  ASSUME NEW q, q.pc \notin MandateHeld
  PROVE  MandateOf(q) = NoMandate
BY DEF MandateOf, MandateHeld

LEMMA PendingStill ==
  ASSUME \A s \in Requests : MandateOf(req'[s]) = MandateOf(req[s])
  PROVE  Pending' = Pending
BY DEF Pending

LEMMA PendingOnly ==
  ASSUME NEW r \in Requests,
         \A s \in Requests \ {r} : MandateOf(req'[s]) = MandateOf(req[s])
  PROVE  /\ Pending[r] = MandateOf(req[r])
         /\ Pending'[r] = MandateOf(req'[r])
         /\ Pending' = [ Pending EXCEPT ![r] = MandateOf(req'[r]) ]
<1> DEFINE Now(s) == MandateOf(req[s])
           Then(s) == MandateOf(req'[s])
<1>1. Pending = [ s \in Requests |-> Now(s) ] /\ Pending' = [ s \in Requests |-> Then(s) ]
  BY DEF Pending
<1>2. \A s \in Requests \ {r} : Then(s) = Now(s)
  OBVIOUS
<1> HIDE DEF Now, Then
<1>3. /\ Pending[r] = Now(r) /\ Pending'[r] = Then(r)
      /\ Pending' = [ Pending EXCEPT ![r] = Then(r) ]
  BY <1>1, <1>2
<1> QED
  BY <1>3 DEF Now, Then

\* A request that does not move keeps its mandate, and one that an action leaves
\* as it was.
LEMMA FollowerKeepsMandate ==
  ASSUME NEW r \in Requests, Follows(r)
  PROVE  MandateOf(req'[r]) = MandateOf(req[r])
BY SameMandate DEF Follows

LEMMA OthersKeepMandates ==
  ASSUME IInv, NEW r \in Requests, NEW q, req' = [ req EXCEPT ![r] = q ]
  PROVE  /\ req'[r] = q
         /\ \A s \in Requests \ {r} : MandateOf(req'[s]) = MandateOf(req[s])
BY DEF IInv, TypeOK

LEMMA IdleHasNoMandate == MandateOf(Idle) = NoMandate
BY IdleFacts, NoMandateOf DEF MandateHeld

LEMMA PromiseInit == Init => Promise!MInit
<1> SUFFICES ASSUME Init PROVE Promise!MInit
  OBVIOUS
<1>1. accounts \subseteq Users /\ member \in [ Workspaces -> [ Users -> Promise!Roles \cup {"none"} ] ]
  BY WorkspaceAssumption DEF Init, Roles, Promise!Roles
<1>2. existing = { w \in Workspaces : \E u \in accounts : member[w][u] # "none" }
  <2>1. \A w \in Workspaces : (\E u \in Users : member[w][u] # "none") <=> \E u \in accounts : member[w][u] # "none"
    BY WorkspaceAssumption DEF Init
  <2> QED
    BY <2>1 DEF Init
<1>3. Offered = [ i \in Invites |-> NoOffer ]
  BY DEF Init, Offered, OfferOf
<1>4. Pending = [ r \in Requests |-> NoMandate ]
  <2>1. \A r \in Requests : MandateOf(req[r]) = NoMandate
    BY IdleHasNoMandate DEF Init
  <2> QED
    BY <2>1 DEF Pending
<1> QED
  BY <1>1, <1>2, <1>3, <1>4 DEF Promise!MInit, Promise!NoOffer, Promise!NoMandate, NoOffer, NoMandate

\* The steps by which nobody notices that a request has come further.
LEMMA QuietKeeps ==
  ASSUME IInv, NEW r \in Requests, NEW q, req' = [ req EXCEPT ![r] = q ],
         MandateOf(q) = MandateOf(req[r]),
         UNCHANGED << accounts, existing, member, invite >>
  PROVE  UNCHANGED Promise!mvars
<1>1. \A s \in Requests : MandateOf(req'[s]) = MandateOf(req[s])
  BY OthersKeepMandates
<1>2. Offered' = Offered
  BY DEF Offered
<1> QED
  BY <1>1, <1>2, PendingStill DEF Promise!mvars

LEMMA BeginIsQuiet ==
  ASSUME IInv, NEW r \in Requests,
         BeginInWorkspace(r) \/ SwitchCheck(r) \/ BeginAccept(r) \/ BeforeDelete(r)
  PROVE  UNCHANGED Promise!mvars
<1> DEFINE Starts(first) == first.pc \in { "preferred", "switch", "join", "delete" }
<1>1. PICK u, first : Begin(r, u, first) /\ Starts(first)
  <2>1. \A target, role :
          /\ Starts([ Idle EXCEPT !.pc = "preferred", !.op = "role", !.target = target, !.newRole = role ])
          /\ Starts([ Idle EXCEPT !.pc = "preferred", !.op = "remove", !.target = target ])
          /\ Starts([ Idle EXCEPT !.pc = "preferred", !.op = "invite", !.target = target, !.newRole = role ])
    BY DEF Idle
  <2>2. \A i, w :
          /\ Starts([ Idle EXCEPT !.pc = "switch", !.op = "switch", !.ws = w ])
          /\ Starts([ Idle EXCEPT !.pc = "join", !.op = "accept", !.invite = i, !.ws = w ])
          /\ Starts([ Idle EXCEPT !.pc = "delete", !.op = "delete" ])
    BY DEF Idle
  <2> HIDE DEF Starts
  <2>3. CASE BeginInWorkspace(r)
    BY <2>1, <2>3 DEF BeginInWorkspace
  <2>4. CASE SwitchCheck(r)
    BY <2>2, <2>4 DEF SwitchCheck
  <2>5. CASE BeginAccept(r)
    BY <2>2, <2>5 DEF BeginAccept
  <2>6. CASE BeforeDelete(r)
    BY <2>2, <2>6 DEF BeforeDelete
  <2> QED
    BY <2>3, <2>4, <2>5, <2>6
<1> DEFINE q == [ first EXCEPT !.user = u, !.been = IF first.pc = "preferred" THEN MemberOf(u) ELSE {} ]
<1>2. req[r] = Idle /\ req' = [ req EXCEPT ![r] = q ]
  BY <1>1 DEF Begin
<1>3. UNCHANGED << accounts, existing, member, invite >>
  BY DEF BeginInWorkspace, SwitchCheck, BeginAccept, BeforeDelete
<1>4. q.pc = first.pc
  OBVIOUS
<1> HIDE DEF q
<1>5. MandateOf(q) = NoMandate
  BY <1>1, <1>4, NoMandateOf DEF MandateHeld
<1> QED
  BY <1>2, <1>3, <1>5, IdleHasNoMandate, QuietKeeps

LEMMA WayIsQuiet ==
  ASSUME IInv, NEW r \in Requests,
         \/ ReadPreferred(r) \/ ReadExisting(r) \/ Adopt(r) \/ Switch(r) \/ Join(r)
         \/ LockTarget(r) \/ CountOwners(r)
  PROVE  UNCHANGED Promise!mvars
<1>1. UNCHANGED << accounts, existing, member, invite >>
  BY DEF ReadPreferred, ReadExisting, Adopt, Switch, Join, LockTarget, CountOwners, Prefer
<1>2. req[r] \in Request
  BY DEF IInv, TypeOK
<1>3. ASSUME NEW q, req' = [ req EXCEPT ![r] = q ],
             \/ q.pc \notin MandateHeld /\ req[r].pc \notin MandateHeld
             \/ /\ q.pc \in { "lock", "count", "change" } /\ req[r].pc \in { "lock", "count", "change" }
                /\ q.op = req[r].op /\ q.ws = req[r].ws /\ q.target = req[r].target
                /\ q.newRole = req[r].newRole
      PROVE  UNCHANGED Promise!mvars
  <2>1. MandateOf(q) = MandateOf(req[r])
    BY <1>3, NoMandateOf DEF MandateOf
  <2> QED
    BY <1>1, <1>3, <2>1, QuietKeeps
<1>4. ASSUME NEW pc \in { "existing", "bootstrap", "accept" }, Advance(r, pc), req[r].pc \notin MandateHeld
      PROVE  UNCHANGED Promise!mvars
  <2>1. req' = [ req EXCEPT ![r] = req'[r] ] /\ req'[r].pc = pc
    BY <1>4, AdvanceFacts DEF Advance
  <2> QED
    BY <1>3, <1>4, <2>1 DEF MandateHeld
<1>5. ASSUME NEW w \in Workspaces, req' = [ req EXCEPT ![r] = Resolved(req[r], w) ],
             req[r].pc \notin MandateHeld
      PROVE  UNCHANGED Promise!mvars
  <2>1. Resolved(req[r], w).pc = "authorize"
    BY <1>2, ResolvedFacts
  <2> QED
    BY <1>3, <1>5, <2>1 DEF MandateHeld
<1>6. CASE ReadPreferred(r)
  BY <1>4, <1>5, <1>6 DEF ReadPreferred, At, Preferred, MemberOf, MandateHeld
<1>7. CASE ReadExisting(r)
  <2>1. ASSUME NEW w \in MemberOf(req[r].user),
               req' = [ req EXCEPT ![r].pc = "adopt", ![r].ws = w, ![r].been = @ \cap {w} ]
        PROVE  UNCHANGED Promise!mvars
    <3> DEFINE q == [ req[r] EXCEPT !.pc = "adopt", !.ws = w, !.been = @ \cap {w} ]
    <3>1. req' = [ req EXCEPT ![r] = q ]
      BY <1>2, <2>1 DEF IInv, TypeOK
    <3>2. q.pc = "adopt"
      BY <1>2 DEF Request
    <3> HIDE DEF q
    <3> QED
      BY <1>3, <1>7, <3>1, <3>2 DEF ReadExisting, At, MandateHeld
  <2> QED
    BY <1>4, <1>7, <2>1 DEF ReadExisting, At, MandateHeld
<1>8. CASE Adopt(r)
  <2>1. req[r].ws \in Workspaces /\ req[r].pc = "adopt"
    BY <1>8 DEF Adopt, At, IInv, TypeOK, RequestOK, AskOK, HasWorkspace
  <2> QED
    BY <1>5, <1>8, <2>1 DEF Adopt, MandateHeld
<1>9. CASE Switch(r)
  BY <1>3, <1>9, IdleFacts DEF Switch, Finish, At, MandateHeld
<1>10. CASE Join(r)
  BY <1>4, <1>10 DEF Join, At, MandateHeld
<1>11. CASE LockTarget(r)
  <2> DEFINE q == [ req[r] EXCEPT !.pc = "count" ]
  <2>1. req' = [ req EXCEPT ![r] = q ]
    BY <1>2, <1>11 DEF LockTarget, Advance
  <2>2. /\ q.pc = "count" /\ q.op = req[r].op /\ q.ws = req[r].ws /\ q.target = req[r].target
        /\ q.newRole = req[r].newRole
    BY <1>2 DEF Request
  <2> HIDE DEF q
  <2> QED
    BY <1>3, <1>11, <2>1, <2>2 DEF LockTarget, At
<1>12. CASE CountOwners(r)
  <2> DEFINE q == [ req[r] EXCEPT !.pc = "change", !.owners = Cardinality(Owners(req[r].ws)) ]
  <2>1. req' = [ req EXCEPT ![r] = q ]
    BY <1>2, <1>12 DEF CountOwners, IInv, TypeOK
  <2>2. /\ q.pc = "change" /\ q.op = req[r].op /\ q.ws = req[r].ws /\ q.target = req[r].target
        /\ q.newRole = req[r].newRole
    BY <1>2 DEF Request
  <2> HIDE DEF q
  <2> QED
    BY <1>3, <1>12, <2>1, <2>2 DEF CountOwners, At
<1> QED
  BY <1>6, <1>7, <1>8, <1>9, <1>10, <1>11, <1>12

LEMMA ExpireIsQuiet ==
  ASSUME IInv, NEW i \in Invites, Expire(i)
  PROVE  UNCHANGED Promise!mvars
<1>1. UNCHANGED << accounts, existing, member, Pending >>
  BY DEF Expire, Pending
<1>2. ASSUME NEW j \in Invites PROVE OfferOf(invite'[j]) = OfferOf(invite[j])
  <2>1. CASE j # i
    BY <2>1 DEF Expire, IInv, TypeOK
  <2>2. CASE j = i
    <3>1. invite[i] \in Invitation
      BY DEF Expire, IInv, TypeOK
    <3>2. invite'[i] = [ invite[i] EXCEPT !.status = "expired" ]
      BY DEF Expire, IInv, TypeOK
    <3>3. /\ invite'[i] \in Invitation /\ invite'[i].status = "expired"
          /\ invite'[i].ws = invite[i].ws /\ invite'[i].to = invite[i].to /\ invite'[i].role = invite[i].role
      BY <3>1, <3>2 DEF Invitation
    <3>4. invite[i] # None /\ invite'[i] # None /\ invite[i].status = "open"
      BY <3>1, <3>3, WorkspaceAssumption DEF Expire
    <3> QED
      BY <2>2, <3>3, <3>4 DEF OfferOf
  <2> QED
    BY <2>1, <2>2
<1>3. Offered' = Offered
  BY <1>2 DEF Offered
<1> QED
  BY <1>1, <1>3 DEF Promise!mvars

\* A request is authorized: it holds a mandate from here on.
LEMMA AuthorizeGives ==
  ASSUME IInv, NEW r \in Requests, AuthorizeInvite(r) \/ AuthorizeChange(r)
  PROVE  Promise!Mandate(r)
<1> DEFINE q == req[r]
           m == MandateOf(req'[r])
<1>1. /\ q.pc = "authorize" /\ q.user \in Users /\ q.target \in Users
      /\ q.op = "role" => q.newRole \in Roles
      /\ q.op = "invite" => q.newRole \in { "admin", "member" }
  BY WorkspaceAssumption DEF AuthorizeInvite, AuthorizeChange, At, IInv, RequestOK, AskOK, InWorkspace
<1>2. /\ UNCHANGED << accounts, existing, member, invite >>
      /\ \/ q.op = "invite" /\ MayInvite(member[q.ws][q.user]) /\ Advance(r, "issue")
         \/ q.op \in { "role", "remove" } /\ member[q.ws][q.user] = "owner" /\ Advance(r, "lock")
  BY DEF AuthorizeInvite, AuthorizeChange
<1>3. /\ req' = [ req EXCEPT ![r] = req'[r] ]
      /\ req'[r].pc \in { "issue", "lock" }
      /\ req'[r].pc = "issue" =>
           q.op = "invite" /\ MayInvite(member[q.ws][q.user])
      /\ req'[r].pc = "lock" =>
           q.op \in { "role", "remove" } /\ member[q.ws][q.user] = "owner"
      /\ req'[r].op = q.op /\ req'[r].ws = q.ws /\ req'[r].target = q.target /\ req'[r].newRole = q.newRole
  BY <1>2, AdvanceFacts DEF Advance
<1>4. MandateOf(q) = NoMandate
  BY <1>1, NoMandateOf DEF MandateHeld
<1>5. /\ Pending[r] = NoMandate /\ Pending'[r] = m
      /\ Pending' = [ Pending EXCEPT ![r] = m ]
  BY <1>3, <1>4, PendingOnly, OthersKeepMandates
<1>6. Promise!Entitled(m)
  <2>1. CASE req'[r].pc = "issue"
    <3>1. m = [ may |-> "offer", ws |-> q.ws, user |-> q.target, role |-> q.newRole ]
      BY <1>3, <2>1 DEF MandateOf
    <3> QED
      BY <1>1, <1>3, <2>1, <3>1 DEF Promise!Entitled, MayInvite
  <2>2. CASE req'[r].pc = "lock"
    <3>1. m = [ may |-> "change", ws |-> q.ws, user |-> q.target,
                role |-> IF q.op = "remove" THEN "none" ELSE q.newRole ]
      BY <1>3, <2>2 DEF MandateOf
    <3> QED
      BY <1>1, <1>3, <2>2, <3>1 DEF Promise!Entitled, Promise!Roles, Roles
  <2> QED
    BY <1>3, <2>1, <2>2
<1>7. Offered' = Offered
  BY <1>2 DEF Offered
<1> HIDE DEF m
<1> QED
  BY <1>2, <1>5, <1>6, <1>7 DEF Promise!Mandate, Promise!NoMandate, NoMandate

\* A request that ends gives its mandate back.
LEMMA RollbackLapses ==
  ASSUME IInv, NEW r \in Requests, Rollback(r)
  PROVE  Promise!Lapse(r) \/ UNCHANGED Promise!mvars
<1>1. /\ req' = [ req EXCEPT ![r] = Idle ]
      /\ UNCHANGED << accounts, existing, member, invite >>
  BY DEF Rollback, Finish
<1>2. Pending[r] = MandateOf(req[r]) /\ Pending' = [ Pending EXCEPT ![r] = NoMandate ]
  BY <1>1, OthersKeepMandates, PendingOnly, IdleHasNoMandate
<1>3. Offered' = Offered
  BY <1>1 DEF Offered
<1>4. CASE Pending[r] = NoMandate
  BY <1>1, <1>2, <1>4, IdleHasNoMandate, QuietKeeps
<1>5. CASE Pending[r] # NoMandate
  BY <1>1, <1>2, <1>3, <1>5 DEF Promise!Lapse, Promise!Spend, Promise!NoMandate, NoMandate
<1> QED
  BY <1>4, <1>5

\* An invitation is issued on the mandate of an owner or an admin.
LEMMA IssueOffers ==
  ASSUME IInv, NEW r \in Requests, Issue(r)
  PROVE  \E i \in Invites : Promise!Offer(r, i)
<1> DEFINE q == req[r]
<1>1. PICK i \in Invites :
        /\ invite[i] = None
        /\ invite' = [ invite EXCEPT ![i] =
             [ ws |-> q.ws, to |-> q.target, role |-> q.newRole, status |-> "open" ] ]
  BY DEF Issue
<1>2. /\ req' = [ req EXCEPT ![r] = Idle ] /\ q.pc = "issue"
      /\ UNCHANGED << accounts, existing, member >>
  BY DEF Issue, Finish, At
<1>3. /\ q.ws \in Workspaces /\ q.target \in Users /\ q.newRole \in InvitedRoles
  BY <1>2 DEF IInv, TypeOK, RequestOK, AskOK, HasWorkspace, InWorkspace
<1>4. Pending[r] = [ may |-> "offer", ws |-> q.ws, user |-> q.target, role |-> q.newRole ]
  BY <1>2 DEF Pending, MandateOf
<1>5. Pending' = [ Pending EXCEPT ![r] = NoMandate ]
  BY <1>2, OthersKeepMandates, PendingOnly, IdleHasNoMandate
<1> DEFINE v == [ ws |-> q.ws, to |-> q.target, role |-> q.newRole, status |-> "open" ]
           o == [ state |-> "open", ws |-> q.ws, to |-> q.target, role |-> q.newRole ]
<1>6. OfferOf(v) = o
  <2>1. v # None
    BY <1>3, WorkspaceAssumption DEF Invitation
  <2> QED
    BY <2>1 DEF OfferOf
<1>7. Offered[i] = NoOffer
  BY <1>1 DEF Offered, OfferOf
<1>8. Offered' = [ Offered EXCEPT ![i] = o ]
  <2> HIDE DEF o, v
  <2>1. invite' = [ invite EXCEPT ![i] = v ]
    BY <1>1 DEF v
  <2>2. /\ OfferOf(invite'[i]) = o
        /\ \A j \in Invites : j # i => OfferOf(invite'[j]) = OfferOf(invite[j])
    BY <1>6, <2>1 DEF IInv, TypeOK
  <2> QED
    BY <2>2 DEF Offered
<1>9. Promise!Offer(r, i)
  BY <1>2, <1>4, <1>5, <1>7, <1>8
     DEF Promise!Offer, Promise!Spend, Promise!NoOffer, Promise!NoMandate, NoOffer, NoMandate
<1> QED
  BY <1>9

\* A role is changed, or a member removed, on the mandate of an owner.
LEMMA ChangeIsMandated ==
  ASSUME IInv, NEW r \in Requests, ChangeRole(r) \/ Remove(r)
  PROVE  Promise!Change(r)
<1> DEFINE q == req[r]
           role == IF q.op = "remove" THEN "none" ELSE q.newRole
<1>1. /\ q.pc = "change" /\ member[q.ws][q.target] # "none"
      /\ CommitMembers(r, Idle, SetMember(q.ws, q.target, role))
      /\ UNCHANGED << accounts, existing, invite >>
  BY ChangeFacts DEF ChangeRole, Remove, At
<1>2. /\ member' = SetMember(q.ws, q.target, role)
      /\ req'[r] = Idle
      /\ \A s \in Requests \ {r} : Follows(s)
  BY <1>1, IdleFacts, CommitFacts
<1>3. Pending[r] = [ may |-> "change", ws |-> q.ws, user |-> q.target, role |-> role ]
  BY <1>1 DEF Pending, MandateOf
<1>4. Pending' = [ Pending EXCEPT ![r] = NoMandate ]
  BY <1>2, FollowerKeepsMandate, PendingOnly, IdleHasNoMandate
<1>5. Offered' = Offered
  BY <1>1 DEF Offered
<1> HIDE DEF role
<1> QED
  BY <1>1, <1>2, <1>3, <1>4, <1>5
     DEF Promise!Change, Promise!Give, Promise!Spend, Promise!NoMandate, NoMandate, SetMember

\* Whoever joins spends the invitation that names them, and keeps a role they have.
LEMMA AcceptAdmits ==
  ASSUME IInv, NEW r \in Requests, Accept(r)
  PROVE  \E i \in Invites : Promise!Admit(i)
<1> DEFINE w == req[r].ws
           u == req[r].user
           i == req[r].invite
           members == IF rowLock[w][u] = r THEN SetMember(w, u, invite[i].role) ELSE member
<1>1. /\ i \in Invites /\ w \in Workspaces /\ u \in Users
      /\ invite[i] \in Invitation /\ invite[i].ws = w /\ invite[i].to = u
      /\ invite[i].status # "accepted"
      /\ req[r].pc = "accept"
      /\ rowLock[w][u] = r => member[w][u] = "none"
  BY AcceptFacts DEF LockedOK
<1>2. /\ u \in accounts
      /\ invite' = [ invite EXCEPT ![i].status = "accepted" ]
      /\ CommitMembers(r, Idle, members)
      /\ UNCHANGED << accounts, existing >>
  BY DEF Accept, Prefer
<1>3. /\ member' = members
      /\ req'[r] = Idle
      /\ \A s \in Requests \ {r} : Follows(s)
  BY <1>2, IdleFacts, CommitFacts
<1>4. Pending' = Pending
  <2>1. MandateOf(req'[r]) = MandateOf(req[r])
    BY <1>1, <1>3, IdleHasNoMandate, NoMandateOf DEF MandateHeld
  <2> QED
    BY <1>3, <2>1, FollowerKeepsMandate, PendingStill
<1> DEFINE role == invite[i].role
<1>5. Offered[i] = [ state |-> "open", ws |-> w, to |-> u, role |-> role ]
  <2>1. invite[i] # None
    BY <1>1, WorkspaceAssumption
  <2> QED
    BY <1>1, <2>1 DEF Offered, OfferOf
<1>6. Offered' = [ Offered EXCEPT ![i].state = "spent" ]
  <2>1. /\ invite'[i] \in Invitation /\ invite'[i].status = "accepted"
        /\ invite'[i].ws = w /\ invite'[i].to = u /\ invite'[i].role = role
    <3>1. invite'[i] = [ invite[i] EXCEPT !.status = "accepted" ]
      BY <1>1, <1>2 DEF IInv, TypeOK
    <3> QED
      BY <1>1, <3>1 DEF Invitation
  <2>2. OfferOf(invite'[i]) = [ state |-> "spent", ws |-> w, to |-> u, role |-> role ]
    BY <2>1, WorkspaceAssumption DEF OfferOf
  <2>3. OfferOf(invite'[i]) = [ Offered[i] EXCEPT !.state = "spent" ]
    BY <1>5, <2>2
  <2>4. \A j \in Invites : j # i => OfferOf(invite'[j]) = OfferOf(invite[j])
    BY <1>1, <1>2 DEF IInv, TypeOK
  <2> HIDE DEF i
  <2> QED
    BY <1>1, <2>3, <2>4 DEF Offered
<1>7. \/ member[w][u] = "none" /\ member' = [ member EXCEPT ![w][u] = role ]
      \/ member' = member
  BY <1>1, <1>3 DEF SetMember
<1> HIDE DEF w, u, role, members
<1>8. Promise!Admit(i)
  BY <1>1, <1>2, <1>4, <1>5, <1>6, <1>7 DEF Promise!Admit, Promise!Give
<1> QED
  BY <1>1, <1>8

\* Whoever deletes their account leaves every workspace; an account that has been
\* deleted meanwhile is not there to be deleted again.
LEMMA DeleteLeaves ==
  ASSUME IInv, NEW r \in Requests, DeleteAccount(r)
  PROVE  (\E u \in Users : Promise!Leave(u)) \/ UNCHANGED Promise!mvars
<1> DEFINE u == req[r].user
           members == [ w \in Workspaces |-> [ member[w] EXCEPT ![u] = "none" ] ]
<1>1. /\ req[r].pc = "delete" /\ u \in Users
      /\ accounts' = accounts \ {u}
      /\ CommitMembers(r, Idle, members)
      /\ UNCHANGED << existing, invite >>
  BY DEF DeleteAccount, At, IInv, RequestOK, AskOK
<1>2. /\ member' = members
      /\ req'[r] = Idle
      /\ \A s \in Requests \ {r} : Follows(s)
  BY <1>1, IdleFacts, CommitFacts
<1>3. Pending' = Pending
  <2>1. MandateOf(req'[r]) = MandateOf(req[r])
    BY <1>1, <1>2, IdleHasNoMandate, NoMandateOf DEF MandateHeld
  <2> QED
    BY <1>2, <2>1, FollowerKeepsMandate, PendingStill
<1>4. Offered' = Offered
  BY <1>1 DEF Offered
<1>5. CASE u \in accounts
  <2>1. Promise!Leave(u)
    BY <1>1, <1>2, <1>3, <1>4, <1>5 DEF Promise!Leave
  <2> QED
    BY <1>1, <2>1
<1>6. CASE u \notin accounts
  <2>1. \A w \in Workspaces : member[w][u] = "none"
    BY <1>1, <1>6 DEF IInv, TypeOK, MemberOf
  <2>2. \A w \in Workspaces : members[w] = member[w]
    BY <1>1, <2>1 DEF IInv, TypeOK
  <2>3. member' = member
    BY <1>2, <2>2 DEF IInv, TypeOK
  <2> QED
    BY <1>1, <1>3, <1>4, <1>6, <2>3 DEF Promise!mvars
<1> QED
  BY <1>5, <1>6

\* The workspaces that requests found.
LEMMA BootstrapFounds ==
  ASSUME IInv, NEW r \in Requests, Bootstrap(r)
  PROVE  \E w \in Workspaces \ existing, u \in Users : Promise!Found(u, w)
<1> DEFINE u == req[r].user
<1>1. /\ req[r].pc = "bootstrap" /\ req[r] \in Request /\ u \in Users
      /\ UNCHANGED << accounts, invite >>
  BY DEF Bootstrap, At, IInv, TypeOK, RequestOK, AskOK
<1>2. PICK w \in Workspaces \ existing :
        /\ existing' = existing \cup {w}
        /\ InsertPreference(u, w)
        /\ CommitMembers(r, [ Resolved(req[r], w) EXCEPT !.been = {w} ], SetMember(w, u, "owner"))
  BY DEF Bootstrap
<1> DEFINE p == Resolved(req[r], w)
           q == [ p EXCEPT !.been = {w} ]
           members == SetMember(w, u, "owner")
<1>3. q \in Request /\ q.pc = "authorize"
  <2>1. p \in Request /\ p.pc = "authorize"
    BY <1>1, ResolvedFacts
  <2> HIDE DEF p
  <2> QED
    BY <2>1 DEF Request
<1>4. CommitMembers(r, q, members)
  BY <1>2
<1> HIDE DEF q, members
<1>5. /\ member' = members
      /\ req'[r] = Witness(q, members)
      /\ \A s \in Requests \ {r} : Follows(s)
  BY <1>3, <1>4, CommitFacts
<1>6. req'[r].pc = "authorize"
  BY <1>3, <1>5, WitnessFacts DEF IInv
<1>7. Pending' = Pending
  <2>1. MandateOf(req'[r]) = MandateOf(req[r])
    BY <1>1, <1>6, NoMandateOf DEF MandateHeld
  <2> QED
    BY <1>5, <2>1, FollowerKeepsMandate, PendingStill
<1>8. Offered' = Offered
  BY <1>1 DEF Offered
<1>9. u \in accounts
  BY <1>2 DEF InsertPreference, Prefer
<1>10. Promise!Found(u, w)
  BY <1>1, <1>2, <1>5, <1>7, <1>8, <1>9 DEF Promise!Found, Promise!Give, SetMember, members
<1> QED
  BY <1>1, <1>10

LEMMA CreateFounds ==
  ASSUME IInv, NEW r \in Requests, CreateWorkspace(r)
  PROVE  \E w \in Workspaces \ existing, u \in Users : Promise!Found(u, w)
<1>1. PICK u \in Users, w \in Workspaces \ existing :
        /\ existing' = existing \cup {w}
        /\ Prefer(u, w)
        /\ CommitMembers(r, Idle, SetMember(w, u, "owner"))
  BY DEF CreateWorkspace
<1>2. req[r] = Idle /\ UNCHANGED << accounts, invite >>
  BY DEF CreateWorkspace
<1>3. /\ member' = SetMember(w, u, "owner")
      /\ req'[r] = Idle
      /\ \A s \in Requests \ {r} : Follows(s)
  BY <1>1, IdleFacts, CommitFacts
<1>4. Pending' = Pending
  BY <1>2, <1>3, FollowerKeepsMandate, PendingStill
<1>5. Offered' = Offered
  BY <1>2 DEF Offered
<1>6. Promise!Found(u, w)
  BY <1>1, <1>2, <1>3, <1>4, <1>5 DEF Promise!Found, Promise!Give, SetMember, Prefer
<1> QED
  BY <1>6

\* The operator's scripts.
LEMMA ProvisionArrives ==
  ASSUME NEW u \in Users, NEW w \in Workspaces, Provision(u, w)
  PROVE  w \notin existing /\ Promise!Arrive(u, w)
<1>1. Pending' = Pending /\ Offered' = Offered
  BY DEF Provision, Pending, Offered
<1> QED
  BY <1>1 DEF Provision, Promise!Arrive, Promise!Give, SetMember

LEMMA RecoverAppoints ==
  ASSUME IInv, NEW u \in Users, NEW w \in Workspaces, Recover(w, u)
  PROVE  w \in existing /\ Promise!Appoint(u, w)
<1>1. \A r \in Requests : Follows(r)
  BY WitnessFollows DEF Recover
<1>2. Pending' = Pending /\ Offered' = Offered
  BY <1>1, FollowerKeepsMandate, PendingStill DEF Recover, Offered
<1> QED
  BY <1>2 DEF Recover, Prefer, Promise!Appoint, Promise!Give, SetMember

LEMMA PromiseStep == IInv /\ [Next]_vars => [Promise!MNext]_(Promise!mvars)
<1> SUFFICES ASSUME IInv, [Next]_vars PROVE [Promise!MNext]_(Promise!mvars)
  OBVIOUS
<1>1. CASE UNCHANGED vars
  BY <1>1 DEF vars, Promise!mvars, Pending, Offered
<1>2. ASSUME NEW r \in Requests,
             \/ BeginInWorkspace(r) \/ ReadPreferred(r) \/ ReadExisting(r) \/ Adopt(r)
             \/ SwitchCheck(r) \/ Switch(r) \/ BeginAccept(r) \/ Join(r)
             \/ LockTarget(r) \/ CountOwners(r) \/ BeforeDelete(r)
      PROVE  UNCHANGED Promise!mvars
  BY <1>2, BeginIsQuiet, WayIsQuiet
<1>3. ASSUME NEW r \in Requests,
             AuthorizeInvite(r) \/ AuthorizeChange(r) \/ Issue(r) \/ ChangeRole(r) \/ Remove(r) \/ Rollback(r)
      PROVE  Promise!MNext \/ UNCHANGED Promise!mvars
  BY <1>3, AuthorizeGives, IssueOffers, ChangeIsMandated, RollbackLapses DEF Promise!MNext
<1>4. ASSUME NEW r \in Requests, Accept(r) \/ DeleteAccount(r)
      PROVE  Promise!MNext \/ UNCHANGED Promise!mvars
  BY <1>4, AcceptAdmits, DeleteLeaves DEF Promise!MNext
<1>5. ASSUME NEW r \in Requests, Bootstrap(r) \/ CreateWorkspace(r)
      PROVE  Promise!MNext
  BY <1>5, BootstrapFounds, CreateFounds DEF Promise!MNext
<1>6. ASSUME NEW i \in Invites, Expire(i)
      PROVE  UNCHANGED Promise!mvars
  BY <1>6, ExpireIsQuiet
<1>7. ASSUME NEW u \in Users, NEW w \in Workspaces, Provision(u, w) \/ Recover(w, u)
      PROVE  Promise!MNext
  <2>1. existing \subseteq Workspaces
    BY DEF IInv, TypeOK
  <2> QED
    BY <1>7, <2>1, ProvisionArrives, RecoverAppoints DEF Promise!MNext
<1> QED
  BY <1>1, <1>2, <1>3, <1>4, <1>5, <1>6, <1>7 DEF Next

\* Whatever requests and scripts interleave, however many: every change of the
\* membership is one that Membership allows, made on a mandate given for it, by an
\* invitation that is spent with it, or by founding, by leaving, or by an operator's appointing an owner.
THEOREM WorkspaceImplementsMembership == Spec => ImplementsMembership
<1> QED
  BY PromiseInit, PromiseStep, WorkspaceInvariant, PTL DEF Spec, ImplementsMembership, Promise!MSpec

-----------------------------------------------------------------------------
(* What requests that do not overlap would keep.                           *)

\* A request that counted owners counts right, and one that is about to delete an
\* account is not deleting the only owner of anything.
Unmoved(r) ==
  /\ req[r].pc # "delete" => ~ req[r].ownersMoved
  /\ req[r].pc = "delete" => \A w \in Workspaces : Owners(w) # { req[r].user }

OwnersStand == WorkspaceKeepsAnOwner /\ \A r \in Requests : Unmoved(r)

\* A request does not move the owners under its own feet.
LEMMA OwnStepMovesNothing ==
  ASSUME IInv, NEW r \in Requests, req[r].pc # "delete" => ~ req[r].ownersMoved,
         \/ BeginInWorkspace(r) \/ ReadPreferred(r) \/ ReadExisting(r) \/ Adopt(r) \/ Bootstrap(r)
         \/ CreateWorkspace(r) \/ SwitchCheck(r) \/ Switch(r)
         \/ AuthorizeInvite(r) \/ Issue(r) \/ BeginAccept(r) \/ Join(r) \/ Accept(r)
         \/ AuthorizeChange(r) \/ LockTarget(r) \/ CountOwners(r) \/ ChangeRole(r) \/ Remove(r)
         \/ BeforeDelete(r) \/ DeleteAccount(r)
         \/ Rollback(r)
  PROVE  ~ req'[r].ownersMoved
<1>1. /\ req \in [ Requests -> Request ] /\ req[r] \in Request
      /\ ~ Idle.ownersMoved
  BY DEF IInv, TypeOK, Idle
<1>2. CASE BeginInWorkspace(r) \/ SwitchCheck(r) \/ BeginAccept(r) \/ BeforeDelete(r)
  <2> DEFINE Starts(first) == \A u, been : ~ [ first EXCEPT !.user = u, !.been = been ].ownersMoved
  <2>1. \A target, role, i, w :
          /\ Starts([ Idle EXCEPT !.pc = "preferred", !.op = "role", !.target = target, !.newRole = role ])
          /\ Starts([ Idle EXCEPT !.pc = "preferred", !.op = "remove", !.target = target ])
          /\ Starts([ Idle EXCEPT !.pc = "preferred", !.op = "invite", !.target = target, !.newRole = role ])
          /\ Starts([ Idle EXCEPT !.pc = "switch", !.op = "switch", !.ws = w ])
          /\ Starts([ Idle EXCEPT !.pc = "join", !.op = "accept", !.invite = i, !.ws = w ])
          /\ Starts([ Idle EXCEPT !.pc = "delete", !.op = "delete" ])
    BY DEF Idle
  <2> HIDE DEF Starts
  <2>2. ASSUME NEW u, NEW first, Begin(r, u, first), Starts(first)
        PROVE  ~ req'[r].ownersMoved
    BY <1>1, <2>2 DEF Begin, Starts
  <2>3. CASE BeginInWorkspace(r)
    BY <2>1, <2>2, <2>3 DEF BeginInWorkspace
  <2>4. CASE SwitchCheck(r)
    BY <2>1, <2>2, <2>4 DEF SwitchCheck
  <2>5. CASE BeginAccept(r)
    BY <2>1, <2>2, <2>5 DEF BeginAccept
  <2>6. CASE BeforeDelete(r)
    BY <2>1, <2>2, <2>6 DEF BeforeDelete
  <2> QED
    BY <1>2, <2>3, <2>4, <2>5, <2>6
<1>3. CASE CreateWorkspace(r) \/ Accept(r) \/ ChangeRole(r) \/ Remove(r) \/ DeleteAccount(r)
  <2>1. ASSUME NEW members, CommitMembers(r, Idle, members)
        PROVE  req'[r] = Idle
    BY <2>1, IdleFacts, CommitFacts
  <2>2. req'[r] = Idle
    BY <1>3, <2>1 DEF CreateWorkspace, Accept, ChangeRole, Remove, DeleteAccount
  <2> QED
    BY <1>1, <2>2
<1>4. CASE Bootstrap(r)
  <2> ~ req[r].ownersMoved
    BY <1>4 DEF Bootstrap, At
  <2>1. PICK w \in Workspaces :
          CommitMembers(r, [ Resolved(req[r], w) EXCEPT !.been = {w} ], SetMember(w, req[r].user, "owner"))
    BY <1>4 DEF Bootstrap
  <2> DEFINE q == [ Resolved(req[r], w) EXCEPT !.been = {w} ]
             members == SetMember(w, req[r].user, "owner")
  <2>2. q \in Request /\ q.pc = "authorize" /\ ~ q.ownersMoved
    BY <1>1 DEF Resolved, Request
  <2> HIDE DEF q, members
  <2>3. req'[r] = Witness(q, members)
    BY <2>1 DEF CommitMembers, q, members
  <2>4. ~ Witness(q, members).ownersMoved
    BY <1>1, <2>2 DEF Witness, Request
  <2> QED
    BY <2>3, <2>4
<1>5. CASE ReadPreferred(r) \/ Adopt(r)
  <2> ~ req[r].ownersMoved
    BY <1>5 DEF ReadPreferred, Adopt, At
  <2>1. ASSUME NEW w, req' = [ req EXCEPT ![r] = Resolved(req[r], w) ]
        PROVE  ~ req'[r].ownersMoved
    <3>1. ~ Resolved(req[r], w).ownersMoved
      BY <1>1 DEF Resolved, Request
    <3> QED
      BY <1>1, <2>1, <3>1
  <2>2. ASSUME Advance(r, "existing") PROVE ~ req'[r].ownersMoved
    BY <1>1, <2>2 DEF Advance, Request
  <2> QED
    BY <1>5, <2>1, <2>2 DEF ReadPreferred, Adopt
<1>6. CASE ReadExisting(r) \/ CountOwners(r)
  <2> ~ req[r].ownersMoved
    BY <1>6 DEF ReadExisting, CountOwners, At
  <2>1. ASSUME NEW w, req' = [ req EXCEPT ![r].pc = "adopt", ![r].ws = w, ![r].been = @ \cap {w} ]
        PROVE  ~ req'[r].ownersMoved
    BY <1>1, <2>1 DEF Request
  <2>2. ASSUME Advance(r, "bootstrap") PROVE ~ req'[r].ownersMoved
    BY <1>1, <2>2 DEF Advance, Request
  <2>3. ASSUME NEW n, req' = [ req EXCEPT ![r].pc = "change", ![r].owners = n ]
        PROVE  ~ req'[r].ownersMoved
    BY <1>1, <2>3 DEF Request
  <2> QED
    BY <1>6, <2>1, <2>2, <2>3 DEF ReadExisting, CountOwners
<1>7. CASE AuthorizeInvite(r) \/ Join(r) \/ AuthorizeChange(r) \/ LockTarget(r)
  BY <1>1, <1>7 DEF AuthorizeInvite, Join, AuthorizeChange, LockTarget, At, Advance, Request
<1>8. CASE Switch(r) \/ Issue(r) \/ Rollback(r)
  BY <1>1, <1>8 DEF Switch, Issue, Rollback, Finish
<1> QED
  BY <1>2, <1>3, <1>4, <1>5, <1>6, <1>7, <1>8

\* A workspace that comes to exist has an owner.
LEMMA FoundedWithOwner ==
  ASSUME IInv, [Next]_vars, NEW w \in existing' \ existing
  PROVE  \E u \in Users : member'[w][u] = "owner"
<1>1. ASSUME NEW x, existing' = existing \cup {x} PROVE x = w
  BY <1>1
<1>2. ASSUME NEW u \in Users, Founds(u, w) PROVE member'[w][u] = "owner"
  <2>1. w \in Workspaces
    BY NextKeeps DEF IInv, TypeOK
  <2> QED
    BY <1>2, <2>1, FoundsFacts
<1>3. ASSUME NEW r \in Requests, Bootstrap(r) \/ CreateWorkspace(r)
      PROVE  \E u \in Users : Founds(u, w)
  <2>1. CASE Bootstrap(r)
    BY <1>1, <2>1 DEF Bootstrap, At, InsertPreference, Prefer, CommitMembers, Founds, IInv, RequestOK, AskOK
  <2>2. CASE CreateWorkspace(r)
    BY <1>1, <2>2 DEF CreateWorkspace, Prefer, CommitMembers, Founds
  <2> QED
    BY <1>3, <2>1, <2>2
<1>4. ASSUME NEW u \in Users, NEW x \in Workspaces, Provision(u, x) \/ Recover(x, u)
      PROVE  Founds(u, w)
  BY <1>1, <1>4 DEF Provision, Recover, Founds
<1>5. ASSUME NEW r \in Requests,
             \/ BeginInWorkspace(r) \/ ReadPreferred(r) \/ ReadExisting(r) \/ Adopt(r)
             \/ SwitchCheck(r) \/ Switch(r)
             \/ AuthorizeInvite(r) \/ Issue(r) \/ BeginAccept(r) \/ Join(r) \/ Accept(r)
             \/ AuthorizeChange(r) \/ LockTarget(r) \/ CountOwners(r) \/ ChangeRole(r) \/ Remove(r)
             \/ BeforeDelete(r) \/ DeleteAccount(r)
             \/ Rollback(r)
      PROVE  existing' = existing
  BY <1>5 DEF BeginInWorkspace, ReadPreferred, ReadExisting, Adopt, SwitchCheck, Switch, AuthorizeInvite,
     Issue, BeginAccept, Join, Accept, AuthorizeChange, LockTarget, CountOwners, ChangeRole, Remove,
     BeforeDelete, DeleteAccount, Rollback
<1>6. ASSUME NEW i \in Invites, Expire(i) PROVE existing' = existing
  BY <1>6 DEF Expire
<1>7. CASE UNCHANGED vars
  BY <1>7 DEF vars
<1> QED
  BY <1>2, <1>3, <1>4, <1>5, <1>6, <1>7 DEF Next

\* A request comes to be deleting an account by BeforeDelete alone, and goes no further.
LEMMA OnlyBeforeDelete ==
  ASSUME IInv, NEW r \in Requests, req'[r].pc = "delete",
         \/ BeginInWorkspace(r) \/ ReadPreferred(r) \/ ReadExisting(r) \/ Adopt(r) \/ Bootstrap(r)
         \/ CreateWorkspace(r) \/ SwitchCheck(r) \/ Switch(r)
         \/ AuthorizeInvite(r) \/ Issue(r) \/ BeginAccept(r) \/ Join(r) \/ Accept(r)
         \/ AuthorizeChange(r) \/ LockTarget(r) \/ CountOwners(r) \/ ChangeRole(r) \/ Remove(r)
         \/ BeforeDelete(r) \/ DeleteAccount(r)
         \/ Rollback(r)
  PROVE  /\ member' = member
         /\ \A w \in Workspaces : Owners(w) # { req'[r].user }
<1>1. /\ req \in [ Requests -> Request ] /\ req[r] \in Request
      /\ Idle.pc = "idle" /\ Idle \in Request
  BY IdleFacts DEF IInv, TypeOK, Idle
<1>2. CASE BeforeDelete(r)
  <2>1. PICK u \in Users :
          /\ \A w \in Workspaces : Owners(w) # {u}
          /\ Begin(r, u, [ Idle EXCEPT !.pc = "delete", !.op = "delete" ])
    BY <1>2 DEF BeforeDelete
  <2>2. req'[r].user = u
    BY <1>1, <2>1 DEF Begin, Idle
  <2> QED
    BY <1>2, <2>1, <2>2 DEF BeforeDelete
<1>3. CASE BeginInWorkspace(r) \/ SwitchCheck(r) \/ BeginAccept(r)
  <2> DEFINE Starts(first) == \A u, been : [ first EXCEPT !.user = u, !.been = been ].pc # "delete"
  <2>1. \A target, role, i, w :
          /\ Starts([ Idle EXCEPT !.pc = "preferred", !.op = "role", !.target = target, !.newRole = role ])
          /\ Starts([ Idle EXCEPT !.pc = "preferred", !.op = "remove", !.target = target ])
          /\ Starts([ Idle EXCEPT !.pc = "preferred", !.op = "invite", !.target = target, !.newRole = role ])
          /\ Starts([ Idle EXCEPT !.pc = "switch", !.op = "switch", !.ws = w ])
          /\ Starts([ Idle EXCEPT !.pc = "join", !.op = "accept", !.invite = i, !.ws = w ])
    BY DEF Idle
  <2> HIDE DEF Starts
  <2>2. ASSUME NEW u, NEW first, Begin(r, u, first), Starts(first)
        PROVE  FALSE
    BY <1>1, <2>2 DEF Begin, Starts
  <2>3. CASE BeginInWorkspace(r)
    BY <2>1, <2>2, <2>3 DEF BeginInWorkspace
  <2>4. CASE SwitchCheck(r)
    BY <2>1, <2>2, <2>4 DEF SwitchCheck
  <2>5. CASE BeginAccept(r)
    BY <2>1, <2>2, <2>5 DEF BeginAccept
  <2> QED
    BY <1>3, <2>3, <2>4, <2>5
<1>4. CASE CreateWorkspace(r) \/ Accept(r) \/ ChangeRole(r) \/ Remove(r) \/ DeleteAccount(r)
  <2>1. ASSUME NEW members, CommitMembers(r, Idle, members)
        PROVE  req'[r] = Idle
    BY <2>1, IdleFacts, CommitFacts
  <2>2. req'[r] = Idle
    BY <1>4, <2>1 DEF CreateWorkspace, Accept, ChangeRole, Remove, DeleteAccount
  <2> QED
    BY <1>1, <2>2
<1>5. CASE Bootstrap(r)
  <2>1. PICK w \in Workspaces :
          CommitMembers(r, [ Resolved(req[r], w) EXCEPT !.been = {w} ], SetMember(w, req[r].user, "owner"))
    BY <1>5 DEF Bootstrap
  <2> DEFINE q == [ Resolved(req[r], w) EXCEPT !.been = {w} ]
             members == SetMember(w, req[r].user, "owner")
  <2>2. q \in Request /\ q.pc = "authorize"
    BY <1>1 DEF Resolved, Request
  <2> HIDE DEF q, members
  <2>3. req'[r] = Witness(q, members)
    BY <2>1 DEF CommitMembers, q, members
  <2>4. Witness(q, members).pc # "delete"
    BY <1>1, <2>2 DEF Witness, Request
  <2> QED
    BY <2>3, <2>4
<1>6. CASE ReadPreferred(r) \/ Adopt(r)
  <2>1. ASSUME NEW w, req' = [ req EXCEPT ![r] = Resolved(req[r], w) ]
        PROVE  FALSE
    BY <1>1, <2>1 DEF Resolved, Request
  <2>2. ASSUME Advance(r, "existing") PROVE FALSE
    BY <1>1, <2>2 DEF Advance, Request
  <2> QED
    BY <1>6, <2>1, <2>2 DEF ReadPreferred, Adopt
<1>7. CASE ReadExisting(r) \/ CountOwners(r)
  <2>1. ASSUME NEW w, req' = [ req EXCEPT ![r].pc = "adopt", ![r].ws = w, ![r].been = @ \cap {w} ]
        PROVE  FALSE
    BY <1>1, <2>1 DEF Request
  <2>2. ASSUME Advance(r, "bootstrap") PROVE FALSE
    BY <1>1, <2>2 DEF Advance, Request
  <2>3. ASSUME NEW n, req' = [ req EXCEPT ![r].pc = "change", ![r].owners = n ]
        PROVE  FALSE
    BY <1>1, <2>3 DEF Request
  <2> QED
    BY <1>7, <2>1, <2>2, <2>3 DEF ReadExisting, CountOwners
<1>8. CASE AuthorizeInvite(r) \/ Join(r) \/ AuthorizeChange(r) \/ LockTarget(r)
  BY <1>1, <1>8 DEF AuthorizeInvite, Join, AuthorizeChange, LockTarget, Advance, Request
<1>9. CASE Switch(r) \/ Issue(r) \/ Rollback(r)
  BY <1>1, <1>9 DEF Switch, Issue, Rollback, Finish
<1> QED
  BY <1>2, <1>3, <1>4, <1>5, <1>6, <1>7, <1>8, <1>9

\* The deletion of an account leaves everybody else's memberships alone.
LEMMA DeletionSparesOthers ==
  ASSUME IInv, NEW r \in Requests, DeleteAccount(r),
         NEW w \in Workspaces, NEW u \in Users, u # req[r].user
  PROVE  member'[w][u] = member[w][u]
<1>1. member' = [ x \in Workspaces |-> [ member[x] EXCEPT ![req[r].user] = "none" ] ]
  BY DEF DeleteAccount, CommitMembers
<1> QED
  BY <1>1 DEF IInv, TypeOK

\* An operator's making an owner takes nobody's ownership away.
LEMMA RecoverSparesOwners ==
  ASSUME IInv, NEW x \in Workspaces, NEW v \in Users, Recover(x, v),
         NEW w \in Workspaces
  PROVE  /\ Owners(w) \subseteq Owners(w)'
         /\ w # x => Owners(w)' = Owners(w)
<1>1. /\ member'[x][v] = "owner"
      /\ \A y \in Workspaces, u \in Users : y # x \/ u # v => member'[y][u] = member[y][u]
  BY SetMemberFacts DEF Recover, Roles
<1> QED
  BY <1>1 DEF Owners

\* Next to a request that is deleting an account, and is the only one, no owner goes.
LEMMA LoneDeletion ==
  ASSUME IInv, [Next]_vars, \A r, s \in Requests : r = s,
         NEW r \in Requests, req[r].pc = "delete", ~ DeleteAccount(r),
         NEW w \in Workspaces, NEW o \in Users, member[w][o] = "owner"
  PROVE  member'[w][o] = "owner"
<1>1. CASE member' = member
  BY <1>1
<1>2. ASSUME NEW u \in Users, NEW x \in Workspaces, Founds(u, x)
      PROVE  member'[w][o] = "owner"
  BY <1>2, FoundsFacts
<1>3. ASSUME NEW s \in Requests, Adopt(s) \/ Switch(s)
      PROVE  member' = member
  BY <1>3 DEF Adopt, Switch
<1>4. ASSUME NEW s \in Requests, Accept(s) \/ ChangeRole(s) \/ Remove(s) \/ DeleteAccount(s)
      PROVE  FALSE
  <2>1. s = r
    OBVIOUS
  <2> QED
    BY <1>4, <2>1 DEF Accept, ChangeRole, Remove, At
<1> QED
  BY <1>1, <1>2, <1>3, <1>4, MembershipSteps

\* What the only request has counted or looked at stays so.
LEMMA LoneUnmoved ==
  ASSUME IInv, OwnersStand, [Next]_vars, \A r, s \in Requests : r = s, NEW r \in Requests
  PROVE  Unmoved(r)'
<1>1. /\ Unmoved(r)
      /\ \A w \in existing : w \in Workspaces /\ Owners(w) # {}
      /\ req[r] \in Request
  BY DEF OwnersStand, WorkspaceKeepsAnOwner, IInv, TypeOK
<1>2. ASSUME req' = req, member' = member PROVE Unmoved(r)'
  BY <1>1, <1>2 DEF Unmoved, Owners
<1>3. CASE UNCHANGED vars \/ \E i \in Invites : Expire(i)
  BY <1>2, <1>3 DEF vars, Expire
<1>4. ASSUME NEW u \in Users, NEW x \in Workspaces, Provision(u, x) PROVE Unmoved(r)'
  <2>1. req' = req /\ u # req[r].user /\ member' = SetMember(x, u, "owner")
    BY <1>4 DEF Provision
  <2>2. /\ member'[x][u] = "owner"
        /\ \A w \in Workspaces, v \in Users : w # x \/ v # u => member'[w][v] = member[w][v]
    BY <2>1, SetMemberFacts DEF Roles
  <2>3. ASSUME NEW w \in Workspaces, Owners(w) # { req[r].user } PROVE Owners(w)' # { req[r].user }
    <3>1. CASE w = x
      BY <2>1, <2>2, <3>1 DEF Owners
    <3>2. CASE w # x
      BY <2>2, <2>3, <3>2 DEF Owners
    <3> QED
      BY <3>1, <3>2
  <2> QED
    BY <1>1, <2>1, <2>3 DEF Unmoved
<1>5. ASSUME NEW x \in Workspaces, NEW u \in Users, Recover(x, u) PROVE Unmoved(r)'
  <2>1. x \in existing /\ req'[r] = Witness(req[r], member')
    BY <1>5 DEF Recover
  <2>2. req'[r].pc = req[r].pc /\ req'[r].user = req[r].user
    BY <2>1, WitnessFollows DEF Follows
  <2>3. \A w \in Workspaces : Owners(w) \subseteq Owners(w)' /\ (w # x => Owners(w)' = Owners(w))
    BY <1>5, RecoverSparesOwners
  <2>4. req[r].pc # "delete" => ~ req'[r].ownersMoved
    <3>1. req[r].pc = "change" => \A u2 \in Owners(req[r].ws) : member'[req[r].ws][u2] = "owner"
      <4>1. req[r].pc = "change" => req[r].ws \in Workspaces
        BY DEF IInv, TypeOK, RequestOK, AskOK, HasWorkspace
      <4> QED
        BY <2>3, <4>1 DEF Owners
    <3>2. ASSUME req[r].pc # "delete" PROVE ~ Witness(req[r], member').ownersMoved
      BY <1>1, <3>1, <3>2 DEF Witness, Request, Unmoved
    <3> QED
      BY <2>1, <3>2
  <2>5. req[r].pc = "delete" => \A w \in Workspaces : Owners(w)' # { req[r].user }
    BY <1>1, <2>1, <2>3 DEF Unmoved
  <2> QED
    BY <2>2, <2>4, <2>5 DEF Unmoved
<1>6. ASSUME NEW s \in Requests,
             \/ BeginInWorkspace(s) \/ ReadPreferred(s) \/ ReadExisting(s) \/ Adopt(s) \/ Bootstrap(s)
             \/ CreateWorkspace(s) \/ SwitchCheck(s) \/ Switch(s)
             \/ AuthorizeInvite(s) \/ Issue(s) \/ BeginAccept(s) \/ Join(s) \/ Accept(s)
             \/ AuthorizeChange(s) \/ LockTarget(s) \/ CountOwners(s) \/ ChangeRole(s) \/ Remove(s)
             \/ BeforeDelete(s) \/ DeleteAccount(s)
             \/ Rollback(s)
      PROVE  Unmoved(r)'
  <2>1. s = r
    OBVIOUS
  <2>2. ~ req'[r].ownersMoved
    BY <1>1, <1>6, <2>1, OwnStepMovesNothing DEF Unmoved
  <2>3. ASSUME req'[r].pc = "delete" PROVE \A w \in Workspaces : Owners(w)' # { req'[r].user }
    BY <1>6, <2>1, <2>3, OnlyBeforeDelete DEF Owners
  <2> QED
    BY <2>2, <2>3 DEF Unmoved
<1> QED
  BY <1>3, <1>4, <1>5, <1>6 DEF Next

\* With one request at a time, and whatever an operator's scripts do beside it, the
\* last owner is neither removed nor demoted and does not delete their account: the
\* checks are right, and what the finding WorkspaceKeepsAnOwner shows is a race.
THEOREM WithoutOverlapOwnersStay ==
  ASSUME \A r, s \in Requests : r = s,
         \A w \in Workspaces, u \in Users :
           InitialMembers[w][u] # "none" => \E o \in Users : InitialMembers[w][o] = "owner"
  PROVE  Spec => []WorkspaceKeepsAnOwner
<1>1. Init => OwnersStand
  <2> SUFFICES ASSUME Init PROVE OwnersStand
    OBVIOUS
  <2>1. \A r \in Requests : Unmoved(r)
    BY DEF Init, Idle, Unmoved
  <2>2. \A w \in existing : Owners(w) # {}
    BY DEF Init, Owners
  <2> QED
    BY <2>1, <2>2 DEF OwnersStand, WorkspaceKeepsAnOwner
<1>2. IInv /\ OwnersStand /\ [Next]_vars => OwnersStand'
  <2> SUFFICES ASSUME IInv, OwnersStand, [Next]_vars PROVE OwnersStand'
    OBVIOUS
  <2>1. \A w \in existing : w \in Workspaces /\ Owners(w) # {}
    BY DEF OwnersStand, WorkspaceKeepsAnOwner, IInv, TypeOK
  <2>2. ASSUME NEW w \in existing' PROVE Owners(w)' # {}
    <3>1. CASE w \in existing
      <4>1. SUFFICES ASSUME Owners(w)' = {} PROVE FALSE
        OBVIOUS
      <4>2. PICK r \in Requests :
              /\ req[r].ownersMoved /\ req'[r] = Idle
              /\ req[r].pc = "change" \/ req[r].pc = "delete"
        BY <2>1, <3>1, <4>1, LastOwnerByRace
      <4>3. req[r].pc = "delete" /\ Owners(w) # { req[r].user }
        BY <2>1, <3>1, <4>2 DEF OwnersStand, Unmoved
      <4>4. PICK o \in Users : member[w][o] = "owner" /\ o # req[r].user
        BY <2>1, <3>1, <4>3 DEF Owners
      <4>5. member'[w][o] = "owner"
        <5>1. CASE DeleteAccount(r)
          BY <2>1, <3>1, <4>4, <5>1, DeletionSparesOthers
        <5>2. CASE ~ DeleteAccount(r)
          BY <2>1, <3>1, <4>3, <4>4, <5>2, LoneDeletion
        <5> QED
          BY <5>1, <5>2
      <4> QED
        BY <4>1, <4>5 DEF Owners
    <3>2. CASE w \notin existing
      BY <2>2, <3>2, FoundedWithOwner DEF Owners
    <3> QED
      BY <3>1, <3>2
  <2>3. ASSUME NEW r \in Requests PROVE Unmoved(r)'
    BY LoneUnmoved
  <2> QED
    BY <2>2, <2>3 DEF OwnersStand, WorkspaceKeepsAnOwner
<1>3. OwnersStand => WorkspaceKeepsAnOwner
  BY DEF OwnersStand
<1> QED
  BY <1>1, <1>2, <1>3, WorkspaceInvariant, PTL DEF Spec
=============================================================================
