SPECIFICATION MCSpec
CONSTANTS
  Proc = {p, q}
  Nobody = Nobody
  Group = TRUE
  Step <- MCSteps
  Accepts <- MCAccepts
  Batch <- MCBatch
  Wanted <- MCWanted
  Hub <- MCHub
  OwnHub = "own"
  Partition <- MCPartition
  HubOf <- MCHubOf
  PartitionOf <- MCPartitionOf
  EventFor <- MCEventFor
  Before <- MCNothing
  MaxCalls = 3
CHECK_DEADLOCK FALSE
INVARIANT TimeoutMeansNoMatch
