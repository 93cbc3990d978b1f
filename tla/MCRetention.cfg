SPECIFICATION FairSpec
CONSTANTS
  N = 2
  alice = alice
  Clients = {alice}
  Owner <- OneClient
  Max = 1
  Limits = {1, 2}
  Purger = purger
  None = none
  MaxFails = 1
CHECK_DEADLOCK FALSE
INVARIANTS TypeOK Leftovers PrunedToLimit
PROPERTIES ActiveKept OrphansRemoved
