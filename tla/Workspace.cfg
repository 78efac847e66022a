\* Two owners: roles change, people join, switch, are removed, come back, and
\* delete their accounts, and an operator provisions an account or makes an owner.
SPECIFICATION Spec
CONSTANTS
  alice = alice
  bob = bob
  team = team
  spare = spare
  r1 = r1
  r2 = r2
  None = None
  Users = {alice, bob}
  Workspaces = {team, spare}
  Requests = {r1, r2}
  Invites = {i1}
  InvitedRoles = {"member"}
  AssignedRoles = {"member"}
  Operations <- MembersAgainstMembers
  Scripts <- BothScripts
  InitialAccounts = {alice, bob}
  Verified = {alice, bob}
  InitialMembers <- TwoOwners
SYMMETRY Symmetric
INVARIANTS
  TypeOK
  ResolvesToOwnWorkspace
PROPERTIES
  LastOwnerLostOnlyInARace
  PreferenceStaleOnlyWhenOvertaken
  BootstrapIsAlone
  ImplementsMembership
CHECK_DEADLOCK FALSE
