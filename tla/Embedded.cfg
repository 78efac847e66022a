\* Three requests of any kind on an empty database with two migration files.
SPECIFICATION FairSpec
CONSTANTS
  None = None
  Requests = {r1, r2, r3}
  MigrationCount = 2
INVARIANTS
  TypeOK
  MigratedBeforeUse
  PassesDoNotCollide
  NothingLeaks
  WaitsAreWellFounded
PROPERTY
  PrivateRequestsEnd
CHECK_DEADLOCK FALSE
