\* A duplication of project 1 into 2, a command for project 1, one agent and
\* the one that replaces it.
CONSTANTS
  c1 = c1
  c2 = c2
  c3 = c3
  Commands = {c1}
  Projects = {1, 2}
  Agents = {a1, a2}
  Target <- MCTarget
  Origin <- MCOrigin
  MaxParallel = 2
  NoOne = NoOne
SPECIFICATION FairSpec
PROPERTIES WaitEnds ZombieIsTold OrphanIsReaped
\* Every intent can be final and every agent gone.
CHECK_DEADLOCK FALSE
