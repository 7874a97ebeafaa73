\* A duplication and a backup of its source, with a connection to spare, under
\* fair scheduling and one restart of the API.  Every job can be final.
CONSTANTS
  Jobs = {"copy", "backup"}
  Projects = {1, 2}
  Existing = {1}
  Name <- MCName
  Kind <- MCKind
  Source <- MCSource
  PoolSize = 3
  MaxRestarts = 1
  MaxFaults = 0
SPECIFICATION FairSpec
INVARIANTS SettledBeforeFinal
PROPERTIES JobEnds
CHECK_DEADLOCK FALSE
