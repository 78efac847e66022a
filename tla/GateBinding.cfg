\* One request at a time is enough for a requirement to be met by another's evidence.
SPECIFICATION Spec
CONSTANTS
  None = None
  alice = alice
  bob = bob
  team = team
  lab = lab
  v1 = v1
  v2 = v2
  Users <- MCUsers
  Candidates = {c1}
  Requests = {r1}
  Versions = {v1}
  Submissions <- DecisionSubmissions
  Items <- DecisionItems
  Verifiers <- MCVerifiers
  VerifierTrust <- MCTrust
  VerifierKinds <- MCKinds
  OrgPacks = {}
  ForceSeparate = FALSE
  InitialRoles <- AllOwners
  RoleChanges <- BobDemoted
  MaxEvidence = 2
SYMMETRY Symmetric
INVARIANTS
  PassIsBoundToRequirement
