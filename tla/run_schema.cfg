SPECIFICATION Spec
CONSTANTS
  Configs <- Full
  QueueCap = 2
  MaxWal = 2
  MaxFaults = 0
INVARIANTS
  AcceptedSnapshotIsProcessed
CHECK_DEADLOCK FALSE
