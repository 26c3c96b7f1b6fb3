SPECIFICATION MCSpec
CONSTANTS
  Proc = {p, q}
  Nobody = Nobody
  Group = TRUE
  Step <- MCSteps
  Accepts <- MCAccepts
  Batch <- MCBatch
  Wanted <- MCWanted
  Hub <- MCHub
  OwnHub = "own"
  Partition <- MCPartition
  HubOf <- MCHubOf
  PartitionOf <- MCPartitionOf
  EventFor <- MCEventFor
  Before <- MCBefore
  MaxCalls = 3
CHECK_DEADLOCK FALSE
INVARIANTS ClientsAccountedFor NoneSkipped AnswerIsFirstMatch HubAnswerIsFirst
PROPERTY EveryCallReturns
