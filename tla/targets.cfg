SPECIFICATION Spec
CONSTANTS
  Configured = {"kafka", "search", "webhook", "stdout"}
  Schema = {"s1", "s2"}
  Partition = {0, 1}
  PartitionOf <- MCPartitionOf
  StartOffset = "earliest"
  Changes <- MCChanges
  KLogLength = 2
  KFaults = 2
  Key = {"a", "b", "c"}
  TableOf <- MCTableOf
  Histories <- MCHistories
  Setups <- MCSetups
  MaxTries = 2
  SFaults = 2
  WEvents <- MCEvents
  Offers <- MCOffers
  MaxQueueBytes = 3
  WFaults = 2
  Lines <- MCLines
  OFaults = 3
INVARIANTS
  OrderedPerSchema IndexShowsSource ConfirmedIsAccounted

  
CHECK_DEADLOCK FALSE
