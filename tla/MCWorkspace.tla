---------------------------- MODULE MCWorkspace ----------------------------
(* Instances of Workspace for TLC: a team workspace with two owners,       *)
(* and room for one more workspace.                                        *)
EXTENDS Workspace, TLC

CONSTANTS alice, bob, team, spare, r1, r2

TeamOf(owners) ==
  [ w \in Workspaces |-> [ u \in Users |-> IF w = team /\ u \in owners THEN "owner" ELSE "none" ] ]

TwoOwners == TeamOf({ alice, bob })

\* Removals in one slot race with what they disturb in the other, and acceptances
\* and first visits with themselves.
MembersAgainstMembers ==
  ( r1 :> { "invite", "accept", "remove" } @@ r2 :> { "accept", "switch", "create", "role", "delete" } )
OwnersAgainstOwners == [ r \in Requests |-> { "role", "remove" } ]

BothScripts == [ provision |-> {spare}, recover |-> {team} ]
NoScripts == [ provision |-> {}, recover |-> {} ]

\* The two owners are interchangeable when both are.
Symmetric == Permutations(Users)
=============================================================================
