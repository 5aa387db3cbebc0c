SPECIFICATION Spec
CONSTANTS
  Clients = {alice, bob, carol}
  Permits = 2
  MaxCalls = 3
  MaxClock = 2
  MaxRestarts = 1
  Capacity = 2
  Events <- MCEvents
  None = None
SYMMETRY Symmetry
CHECK_DEADLOCK FALSE
INVARIANTS TypeOK ContentThere  UniqueIds
