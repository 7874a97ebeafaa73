\* An initial slot and a later one, lives of one unit of time, and transactions
\* that may wait one unit for their locks.
CONSTANTS
  Slots = {"default", "worker"}
  Initial = {"default"}
  MaxVersions = 3
  Intervals = {1}
  Default = 1
  Window = 1
  Lead = 1
  Lag = 1
  MaxTime = 4
SPECIFICATION OneSlotSpec
INVARIANTS OneAccepted Handover
PROPERTIES NeverRevived CutoverPersists LapseReported
