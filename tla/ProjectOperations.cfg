SPECIFICATION Spec
CONSTANTS
  Jobs <- MCJobs
  Requests <- MCRequests
  MaxTroubles <- MCTroubles
  Action <- MCAction
  Target <- MCTarget
  Safety <- MCSafety
  Trigger <- MCTrigger
  NewRef <- MCNewRef
  Services <- MCServices
  Affected <- MCAffected
  Recreates <- MCRecreates
  Points = {"point1", "point2", "safety", "safety2"}
  PointLimit = 3
  Versions = {"old", "new"}
  FirstVersion = "old"
  MaxSaves <- MCSaves
  Broken = 98
  None = 99
INVARIANTS TypeOK OneTroubleSticksNothing RestoreCanBeUndone DeletedLeavesNothing ServesTheReference RecreatedIsCurrent FailureBlocks
PROPERTIES ClaimsAreKeptInOneLife HistoryIsTrue ReferenceChangesOnce NoOldKeyAfterRotation
CHECK_DEADLOCK FALSE
