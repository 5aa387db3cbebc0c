SPECIFICATION Spec
CONSTANTS
  cam = cam
  a = a
  b = b
  file = file
  Sources = {cam, a, b, file}
  BuiltIn = cam
  KindsOf <- OwnKinds
  NoPath = {file}
  Clients = {c1}
  Provider = provider
  Main = main
  MaxWorkers = 6
  None = None
  Ops = {"start", "stop", "restart", "remove", "add"}
  ClientsLeave = FALSE
  MayShutDown = FALSE
  ReconnectEnabled = FALSE
  RetryForever = FALSE
CHECK_DEADLOCK FALSE
INVARIANTS SwitchPinsActive  OneActiveWorker SettledBetweenRequests
