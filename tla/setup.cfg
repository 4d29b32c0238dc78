SPECIFICATION SetupSpec
CONSTANTS
  Proc = {p, q}
  Invocations <- MCCommands
  Together = {"init", "status"}
  Starts = {"nothing", "v0.9"}
  Slots = {"none", "own", "otherPlugin", "otherDatabase"}
  InitOnOld = FALSE
  MaxCommands = 3
  MaxCutOffs = 2
INVARIANTS
  DDLKeepsWorking
PROPERTIES
   CleanStatusMeansReady
CHECK_DEADLOCK FALSE
