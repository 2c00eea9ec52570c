CONSTANTS
  R = 3
  Timeouts = {1, 2, 4}
  Retries = {0, 1, 3}
  MaxRetries = 3
  MaxWait = 4
SPECIFICATION Spec
INVARIANTS RunsWithinBudget PositionRecorded
PROPERTY NoLateRepair
