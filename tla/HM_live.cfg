SPECIFICATION FairSpec
CONSTANTS
  Sources = {a, b}
  Monitor = monitor
  Callers = {monitor}
  Clients = {}
  Permits = 1
  MaxAttempts = 2
  None = None
  Churn = FALSE
  Leave = FALSE
  MayShutDown = TRUE
PROPERTIES PoolSpec CycleEnds MonitorStops
