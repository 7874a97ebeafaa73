SPECIFICATION Spec
CONSTANTS
  Parts = {"push", "team", "api", "edge", "access", "secrets", "capacity", "pools", "start"}
  Nobody = "-"
  None = None
  Processes = {"p1", "p2"}
  Tenants = {"t1"}
  Notifications = {"n1"}
  Tokens = {"k1", "k2"}
  Home <- MCHome
  Slots = 1
  HttpConcurrency = 2
  MaxAttempts = 2
  MaxFaults = 1
  MaxGenerations <- MCGenerations
  Deployments <- MCDeployments
  Users <- MCUsers
  Owner = "ann"
  Admins = {"ann", "bob"}
  TeamScenarios <- MCTeam
  Directories <- MCDirectories
  MaxSequence = 2
  Watchers = {"w1"}
  Retries = {"q1", "q2", "q3"}
  Asked <- MCAsked
  MaxRows = 4
  Together <- MCTogether
  Functions = {"f", "g"}
  Codes = {"a", "b"}
  Networks = {"n1", "n2"}
  Network0 = "n1"
  FunctionScenarios <- MCFunctions
  MaxKills = 1
  MaxStorageErrors = 1
  Calls = {"x", "y"}
  Redeemers = {1, 2}
  Burst = 1
  Limit = 2
  MaxRevision = 2
  MaxEpoch = 2
  MaxLosses = 1
  MaxStops = 1
  Columns = {"anon"}
  Material = {"reveal"}
  SecretScenarios <- MCSecretScenarios
  RootTotals <- MCRootTotals
  FirstProfile = "medium"
  CapacityScenarios <- MCCapacityScenarios
  MaxTenants = 2
  MaxRequests = 2
  MaxPoolFaults = 1
  PoolScenarios <- MCPoolScenarios
  Catalog <- MCCatalog
  Migrators <- MCMigrators
  MaxRestarts = 1
  StartScenarios <- MCStartScenarios
INVARIANTS OwnerIsAdmin RevokedIsRefused NoLostChange ServedIsPublished CountersSurvive ForwardedOnceAsJudged SecretsReadable CapacityFits PoolsAreKept ServesWhatItWasBuiltFor
PROPERTIES ResultsStand RotationKeepsCapacity
CHECK_DEADLOCK FALSE
