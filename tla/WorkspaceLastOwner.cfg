\* Two owners remove and demote each other at the same time.
SPECIFICATION Spec
CONSTANTS
  alice = alice
  bob = bob
  team = team
  spare = spare
  r1 = r1
  r2 = r2
  None = None
  Users = {alice, bob}
  Workspaces = {team}
  Requests = {r1, r2}
  Invites = {}
  InvitedRoles = {}
  AssignedRoles = {"member"}
  Operations <- OwnersAgainstOwners
  Scripts <- NoScripts
  InitialAccounts = {alice, bob}
  Verified = {alice, bob}
  InitialMembers <- TwoOwners
INVARIANT
  WorkspaceKeepsAnOwner
CHECK_DEADLOCK FALSE
