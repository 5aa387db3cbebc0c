SPECIFICATION Spec
CONSTANTS
  Sources = {a}
  Monitor = monitor
  Callers = {monitor, other}
  Clients = {c1}
  Permits = 1
  MaxAttempts = 2
  None = None
  Churn = TRUE
  Leave = TRUE
  MayShutDown = TRUE
INVARIANTS TypeOK OneCycle PermitsKept RecoveringIsRunning
