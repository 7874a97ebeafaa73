\* A duplication of project 1 into 2 and a command for project 1, two agents.
CONSTANTS
  c1 = c1
  c2 = c2
  c3 = c3
  Commands = {c1, c2}
  Projects = {1, 2}
  Agents = {a1, a2}
  Target <- MCTarget
  Origin <- MCOrigin
  MaxParallel = 1
  NoOne = NoOne
SPECIFICATION Spec
SYMMETRY AgentSymmetry
INVARIANTS RunningExclusive
PROPERTIES LifecycleSpec
\* Every intent can be final and every agent gone.
CHECK_DEADLOCK FALSE
