\* A decision in saas mode, and another request that waits for the session.
SPECIFICATION FairSpec
CONSTANTS
  None = None
  Requests = {r1, r2}
  MigrationCount = 1
PROPERTY
  RequestsEnd
CHECK_DEADLOCK FALSE
