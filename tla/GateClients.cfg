\* Two candidates, one load in flight at a time, one evidence row beside the server's own.
SPECIFICATION CSpec
CONSTANTS
  None = None
  alice = alice
  v1 = v1
  v2 = v2
  Users <- MCUsers
  Candidates = {c1, c2}
  Requests = {web, cli_}
  Web = web
  Cli = cli_
  Loads = {l1}
  OldKey = k1
  NewKey = k2
  Versions = {v1, v2}
  Submissions <- TwoPolicies
  Items <- MCItems
  Verifiers <- NoVerifiers
  VerifierTrust <- NoTrust
  VerifierKinds <- NoKinds
  OrgPacks = {}
  ForceSeparate = FALSE
  InitialRoles <- Owners
  RoleChanges <- Nothing
  MaxEvidence = 2
SYMMETRY Symmetric
INVARIANTS
  NewAuthorityIsListed
  PageIsConsistent
  VerifiedIsReleased
  SubmittedWithItsScan
PROPERTY
  ApprovedPolicyWasShown
