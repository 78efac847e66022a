\* Two candidates that are frozen with one policy.
SPECIFICATION CSpec
CONSTANTS
  None = None
  alice = alice
  v1 = v1
  v2 = v2
  Users <- MCUsers
  Candidates = {c1, c2}
  Requests = {web, cli_}
  Web = web
  Cli = cli_
  Loads = {l1, l2}
  OldKey = k1
  NewKey = k2
  Versions = {v1, v2}
  Submissions <- OnePolicy
  Items <- MCItems
  Verifiers <- NoVerifiers
  VerifierTrust <- NoTrust
  VerifierKinds <- NoKinds
  OrgPacks = {}
  ForceSeparate = FALSE
  InitialRoles <- Owners
  RoleChanges <- Nothing
  MaxEvidence = 2
SYMMETRY Symmetric
PROPERTY
  ApprovedSubjectWasShown
