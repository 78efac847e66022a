----------------------------- MODULE Membership -----------------------------
(***************************************************************************)
(* What workspaces promise their members, without requests, locks or       *)
(* statements: a role is only changed, and a person only invited, on a     *)
(* mandate that somebody entitled to it has given, which is good for one   *)
(* change of one member or one invitation of one person and may lapse      *)
(* unused; an invitation admits one person once, with the role it offers   *)
(* and never as an owner, and leaves the role of whoever is a member       *)
(* already; the others who come to be an owner found a workspace or are    *)
(* made one by an operator; and whoever leaves leaves everything.          *)
(*                                                                         *)
(* That a workspace keeps an owner is not promised: a mandate outlives the *)
(* ownership of whoever gave it.  Workspace implements this with           *)
(* statements, row locks and transactions.                                 *)
(***************************************************************************)

CONSTANTS
  Users,
  Workspaces,
  Slots,       \* where a mandate may be pending
  Offers,      \* ids of invitations
  None

Roles == { "owner", "admin", "member" }

VARIABLES
  people,    \* the users who have an account
  founded,   \* the workspaces that exist
  roles,     \* workspace -> user -> role, or "none"
  offers,    \* id -> an invitation, "none", "open" or "spent"
  mandates   \* slot -> what it may do: "nothing", "change" a role or "offer" one

mvars == << people, founded, roles, offers, mandates >>

NoOffer   == [ state |-> "none", ws |-> None, to |-> None, role |-> "none" ]
NoMandate == [ may |-> "nothing", ws |-> None, user |-> None, role |-> "none" ]

MInit ==
  /\ people \subseteq Users
  /\ roles \in [ Workspaces -> [ Users -> Roles \cup {"none"} ] ]
  /\ founded = { w \in Workspaces : \E u \in people : roles[w][u] # "none" }
  /\ offers = [ i \in Offers |-> NoOffer ]
  /\ mandates = [ s \in Slots |-> NoMandate ]

Give(w, u, role) == roles' = [ roles EXCEPT ![w][u] = role ]

\* A person founds a workspace.
Found(u, w) ==
  /\ u \in people
  /\ founded' = founded \cup {w}
  /\ Give(w, u, "owner")
  /\ UNCHANGED << people, offers, mandates >>

\* A person comes with a workspace of their own.
Arrive(u, w) ==
  /\ u \notin people
  /\ people' = people \cup {u}
  /\ founded' = founded \cup {w}
  /\ Give(w, u, "owner")
  /\ UNCHANGED << offers, mandates >>

\* An owner may have one role changed, or its holder removed; an owner or an admin
\* may have one person invited.
Entitled(m) ==
  /\ m.may # "nothing"
  /\ m.user \in Users
  /\ \E by \in Users :
       \/ /\ m.may = "change"
          /\ m.role \in Roles \cup {"none"}
          /\ roles[m.ws][by] = "owner"
       \/ /\ m.may = "offer"
          /\ m.role \in { "admin", "member" }
          /\ roles[m.ws][by] \in { "owner", "admin" }

Mandate(s) ==
  /\ mandates[s] = NoMandate
  /\ Entitled(mandates'[s])
  /\ mandates' = [ mandates EXCEPT ![s] = mandates'[s] ]
  /\ UNCHANGED << people, founded, roles, offers >>

Spend(s) == mandates' = [ mandates EXCEPT ![s] = NoMandate ]

Lapse(s) ==
  /\ mandates[s] # NoMandate
  /\ Spend(s)
  /\ UNCHANGED << people, founded, roles, offers >>

Change(s) ==
  LET m == mandates[s] IN
  /\ m.may = "change"
  /\ roles[m.ws][m.user] # "none"
  /\ Give(m.ws, m.user, m.role)
  /\ Spend(s)
  /\ UNCHANGED << people, founded, offers >>

Offer(s, i) ==
  LET m == mandates[s] IN
  /\ m.may = "offer"
  /\ offers[i] = NoOffer
  /\ offers' = [ offers EXCEPT ![i] =
       [ state |-> "open", ws |-> m.ws, to |-> m.user, role |-> m.role ] ]
  /\ Spend(s)
  /\ UNCHANGED << people, founded, roles >>

Admit(i) ==
  LET o == offers[i] IN
  /\ o.state = "open"
  /\ o.to \in people
  /\ offers' = [ offers EXCEPT ![i].state = "spent" ]
  /\ \/ roles[o.ws][o.to] = "none" /\ Give(o.ws, o.to, o.role)
     \/ UNCHANGED roles
  /\ UNCHANGED << people, founded, mandates >>

Leave(u) ==
  /\ u \in people
  /\ people' = people \ {u}
  /\ roles' = [ w \in Workspaces |-> [ roles[w] EXCEPT ![u] = "none" ] ]
  /\ UNCHANGED << founded, offers, mandates >>

\* An operator makes a person an owner, whoever else owns the workspace.
Appoint(u, w) ==
  /\ u \in people
  /\ Give(w, u, "owner")
  /\ UNCHANGED << people, founded, offers, mandates >>

MNext ==
  \/ \E s \in Slots :
       \/ Mandate(s) \/ Lapse(s) \/ Change(s)
       \/ \E i \in Offers : Offer(s, i)
  \/ \E i \in Offers : Admit(i)
  \/ \E u \in Users : Leave(u)
  \/ \E w \in Workspaces \ founded, u \in Users : Found(u, w) \/ Arrive(u, w)
  \/ \E w \in founded, u \in Users : Appoint(u, w)

MSpec == MInit /\ [][MNext]_mvars
=============================================================================
