\* A replacement of the data key alone.
SPECIFICATION Spec
CONSTANTS
  Parts = {"secrets"}
  Nobody = "-"
  None = None
  Processes = {"p1", "p2"}
  Tenants = {"t1"}
  Notifications = {"n1"}
  Tokens = {"k1", "k2"}
  Home <- MCHome
  Slots = 1
  HttpConcurrency = 2
  MaxAttempts = 2
  MaxFaults = 1
  MaxGenerations <- MCGenerations
  Deployments <- MCNoDeployments
  Users <- MCUsers
  Owner = "ann"
  Admins = {"ann", "bob"}
  TeamScenarios <- MCNothing
  Directories <- MCDirectories
  MaxSequence = 2
  Watchers = {"w1"}
  Retries = {"q1", "q2", "q3"}
  Asked <- MCAsked
  MaxRows = 4
  Together <- MCNothing
  Functions = {"f", "g"}
  Codes = {"a", "b"}
  Networks = {"n1", "n2"}
  Network0 = "n1"
  FunctionScenarios <- MCNothing
  MaxKills = 1
  MaxStorageErrors = 1
  Calls = {"x", "y"}
  Redeemers = {1, 2}
  Burst = 1
  Limit = 2
  MaxRevision = 2
  MaxEpoch = 2
  MaxLosses = 1
  MaxStops = 1
  Columns = {"anon"}
  Material = {"reveal"}
  SecretScenarios <- MCReplacement
  RootTotals <- MCRootTotals
  FirstProfile = "medium"
  CapacityScenarios <- MCNothing
  MaxTenants = 2
  MaxRequests = 2
  MaxPoolFaults = 1
  PoolScenarios <- MCNothing
  Catalog <- MCCatalog
  Migrators <- MCMigrators
  MaxRestarts = 1
  StartScenarios <- MCNobody
INVARIANT ReEncryptsEverything
CHECK_DEADLOCK FALSE
