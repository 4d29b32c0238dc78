SPECIFICATION FairSpec
CONSTANTS
  Caller = {c1, c2}
  MsgSize = {0, 2}
  Position = {"none", "lsn"}
  MaxQueueBytes = 5
  MaxBatchBytes = 5
  TunedBatchBytes = {2}
  MaxBatchSize = 2
  AutoTune = {TRUE, FALSE}
  IgnoreSendErrors = {TRUE, FALSE}
  SendMayFail = TRUE
  MaxCalls = 3
INVARIANTS
  NoGapBehindAck QueueBytesAccounted CloseWaits
PROPERTIES
  ImplementsOrderedSink 
CHECK_DEADLOCK FALSE
