SPECIFICATION FairSpec
CONSTANTS
  Runs = {r1}
  Clients = {c1}
  Slots = 2
  MaxSteps = 3
  MaxAttempts = 3
  MaxStalls = 1
  MaxRetries = 2
  Faults = {"store", "halt", "request"}
  MaxFaults = 2
INVARIANTS TypeOK OneDriver StepsRunInOrder OutputsChain CompletedRunIsWhole FailedRunIsRetriable DriversAtFrontier
PROPERTIES CompletionIsFinal WorkerFaultsNeverStrand
CHECK_DEADLOCK FALSE
