\* A duplication of project 1, a backup and a restart of project 1, one restart
\* of the API and one failure of the database under a runner.
CONSTANTS
  Jobs = {"copy", "backup", "restart"}
  Projects = {1, 2}
  Existing = {1}
  Name <- MCName
  Kind <- MCKind
  Source <- MCSource
  PoolSize = 3
  MaxRestarts = 1
  MaxFaults = 1
SPECIFICATION Spec
INVARIANTS RunnersExclusive DoneMeansDone
\* Every job can be final.
CHECK_DEADLOCK FALSE
