\* One duplication submitted twice, two agents.
CONSTANTS
  c1 = c1
  c2 = c2
  c3 = c3
  Commands = {c1, c3}
  Projects = {1, 2}
  Agents = {a1, a2}
  Target <- MCTarget
  Origin <- MCOrigin
  MaxParallel = 2
  NoOne = NoOne
SPECIFICATION Spec
SYMMETRY AgentSymmetry
INVARIANTS AgentSerialisesTarget NoLockCycle
\* Every intent can be final and every agent gone.
CHECK_DEADLOCK FALSE
