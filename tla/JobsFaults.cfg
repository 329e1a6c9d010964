SPECIFICATION FairSpec
CONSTANTS
  Runs = {r1}
  Clients = {c1}
  Slots = 1
  MaxSteps = 3
  MaxAttempts = 2
  MaxStalls = 1
  MaxRetries = 0
  Faults = {"worker"}
  MaxFaults = 2
INVARIANTS NoStepIsSkipped
PROPERTIES WorkerFaultsNeverStrand
CHECK_DEADLOCK FALSE
