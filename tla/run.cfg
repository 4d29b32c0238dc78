SPECIFICATION Spec
CONSTANTS
  Configs <- MCConfigs
  QueueCap = 2
  MaxWal = 3
  MaxFaults = 2
INVARIANTS
  ConfirmsWhileOpen SnapshotBeforeStream AcceptedSnapshotIsProcessed
PROPERTIES
  StopsWhenAsked
CHECK_DEADLOCK FALSE
