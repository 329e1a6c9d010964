SPECIFICATION FairSpec
CONSTANTS
  Runs = {r1, r2}
  Clients = {c1, c2}
  Slots = 2
  MaxSteps = 2
  MaxAttempts = 2
  MaxStalls = 1
  MaxRetries = 1
  Faults = {}
  MaxFaults = 0
PROPERTIES ImplementsJobRun
CHECK_DEADLOCK FALSE
