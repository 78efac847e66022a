\* A verifier is disabled while a token is being bound to it, or half way only.
SPECIFICATION Spec
CONSTANTS
  alice = alice
  bob = bob
  None = None
  Users = {alice, bob}
  Verifiers = {v1}
  Tokens = {t1}
  Requests = {r1, r2}
  InitialRoles <- OwnerAndMember
  RoleChanges <- MemberComesAndGoes
INVARIANT
  DisablingRevokesTokens
CHECK_DEADLOCK FALSE
