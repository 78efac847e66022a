\* One candidate, two concurrent requests, three risks, five kinds of submission.
SPECIFICATION Spec
CONSTANTS
  None = None
  alice = alice
  bob = bob
  team = team
  lab = lab
  v1 = v1
  v2 = v2
  Users <- MCUsers
  Candidates = {c1}
  Requests = {r1, r2}
  Versions = {v1}
  Submissions <- DecisionSubmissions
  Items <- DecisionItems
  Verifiers <- MCVerifiers
  VerifierTrust <- MCTrust
  VerifierKinds <- MCKinds
  OrgPacks = {}
  ForceSeparate = FALSE
  InitialRoles <- AllOwners
  RoleChanges <- BobDemoted
  MaxEvidence = 2
SYMMETRY Symmetric
INVARIANTS
  TypeOK
  ReceiptIsComplete
  FourEyes
  BadScanBlocks
  IndependenceIsEarned
PROPERTIES
  DecidedForGood
  ApproverHadAuthority
  ImplementsAuthority
