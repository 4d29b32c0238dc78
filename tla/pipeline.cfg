SPECIFICATION FairSpec
CONSTANTS
  Txn = {1, 2}
  Span = {0}
  Snapshots = {TRUE, FALSE}
  OldTxns = {1}
  MaxWal = 4
  MaxChanges = 1
  QueueCap = 1
  MaxBreaks = 1
  MaxRaces = 1
  MaxFaults = 1
INVARIANTS
  ConfirmedIsWritten WrittenInCommitOrder NothingFallsBetween

  
