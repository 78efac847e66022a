\* Two verifiers, two tokens, two requests at a time.
SPECIFICATION Spec
CONSTANTS
  alice = alice
  bob = bob
  None = None
  Users = {alice, bob}
  Verifiers = {v1, v2}
  Tokens = {t1, t2}
  Requests = {r1, r2}
  InitialRoles <- OwnerAndMember
  RoleChanges <- MemberComesAndGoes
SYMMETRY Symmetric
INVARIANTS
  TypeOK
  StaleCredentialsAreRefused
PROPERTY
  RevokedForCause
CHECK_DEADLOCK FALSE
