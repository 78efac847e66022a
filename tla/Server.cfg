\* Two requests on a pool of two clients, one candidate; two migrators, one crash.
SPECIFICATION FairSpec
CONSTANTS
  None = None
  alice = alice
  Users <- MCUsers
  Limit = 2
  Window = 2
  MaxBuckets = 0
  Migrators <- MCMigrators
  Files <- MCFiles
  MaxCrashes = 1
  Self = "container"
  Environments <- MCEnvironments
  Requests = {r1, r2}
  Candidates = {c1}
  PoolSize = 2
INVARIANTS
  TypeOK
  DevUserIsLocal
  ServesWhenReady
  MigratedOnce
  BurstIsBounded
  NothingLeaks
  HoldersGoOn
PROPERTIES
  RequestsEnd
  DeploymentComesUp
