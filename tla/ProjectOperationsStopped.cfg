SPECIFICATION Spec
CONSTANTS
  Jobs <- MCJobs
  Requests <- MCRequests
  MaxTroubles <- MCTroubles
  Action <- MCAction
  Target <- MCTarget
  Safety <- MCSafety
  Trigger <- MCTrigger
  NewRef <- MCNewRef
  Services <- MCServices
  Affected <- MCAffected
  Recreates <- MCRecreates
  Points = {"point1", "point2", "safety", "safety2"}
  PointLimit = 3
  Versions = {"old", "new"}
  FirstVersion = "old"
  MaxSaves <- MCSaves
  Broken = 98
  None = 99
PROPERTY StaysStopped
CHECK_DEADLOCK FALSE
