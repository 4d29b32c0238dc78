SPECIFICATION Spec
CONSTANTS
  Txn = {1, 2}
  Span = {0, 2}
  Snapshots = {FALSE}
  OldTxns = {}
  MaxWal = 4
  MaxChanges = 1
  QueueCap = 2
  MaxBreaks = 1
  MaxRaces = 0
  MaxFaults = 1
INVARIANTS
  ConfirmedIsWritten
