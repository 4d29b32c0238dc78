SPECIFICATION FairSpec
CONSTANTS
  run = run
  snapshot = snapshot
  Proc = {run, snapshot}
  Repeatable = {snapshot}
  Supervised = {run}
  Table = {"a", "b", "c"}
  SchemaOf <- Schemas
  Excluded = {"b"}
  ConfigsOf <- Configs
  SchemaWorkers = 1
  QueryLimit = 2
  MaxRows = 3
  MaxFailures = 1
  MaxFaults = 1
  MaxCrashes = 1
INVARIANTS
  CompletedIsCopied NoRequestTwiceAtOnce
PROPERTIES
  SkipsOnlyTakenOrUnfinished EverythingCopied
CHECK_DEADLOCK FALSE
