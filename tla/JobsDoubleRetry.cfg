SPECIFICATION FairSpec
CONSTANTS
  Runs = {r1}
  Clients = {c1, c2}
  Slots = 2
  MaxSteps = 2
  MaxAttempts = 2
  MaxStalls = 1
  MaxRetries = 2
  Faults = {}
  MaxFaults = 0
INVARIANTS StepsRunInOrder
CHECK_DEADLOCK FALSE
