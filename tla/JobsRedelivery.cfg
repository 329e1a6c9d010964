SPECIFICATION FairSpec
CONSTANTS
  Runs = {r1}
  Clients = {c1}
  Slots = 2
  MaxSteps = 3
  MaxAttempts = 2
  MaxStalls = 1
  MaxRetries = 0
  Faults = {"worker"}
  MaxFaults = 1
INVARIANTS OutputsChain
CHECK_DEADLOCK FALSE
