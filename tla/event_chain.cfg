SPECIFICATION ChainSpec
CONSTANTS
  Name = {"users", "audit", "Team"}
  Quoted = {"Team"}
  Column = {"email", "plan"}
  Layouts <- MCLayouts
  Tables <- MCTables
  DDLOps = {"create", "drop", "addColumn", "dropColumn", "renameColumn", "renameTable", "addKey"}
  Rules <- MCRules
  Configs <- MCConfigs
  BatchSize = 2
  MaxDDL = 2
  MaxRows = 2
  MaxRestarts = 1
  Redelivered = 1
INVARIANTS
  InjectedIdsAreTheirs  NothingRefused TargetFollows
CHECK_DEADLOCK FALSE
