SPECIFICATION FairSpec
CONSTANTS
  Text <- Texts
  Cases <- AllCases
  Managed = {"m"}
  Predefined = {"public"}
  Schema = {"s1", "s2"}
  Table = {"a", "b", "c"}
  SnapshotWorkers = 2
  SchemaWorkers = 2
  TableWorker = {"w1", "w2"}
  BatchBytes = 1
  AvgPageBytes = 1
INVARIANTS
  RowsHandedOnce MissingRowsFailedUnseen
   DataBetweenSections 
PROPERTIES
  SnapshotReturns
CHECK_DEADLOCK FALSE
