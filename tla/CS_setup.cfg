SPECIFICATION Spec
CONSTANTS
  Clients = {alice, bob}
  Cameras = {1, 2}
  MaxSessions = 1
  MaxCalls = 3
  OnvifAnswers <- MCOnvifAnswers
  RtspAnswers <- MCRtspAnswers
  Searches <- MCSearches
  None = None
CHECK_DEADLOCK FALSE
INVARIANTS TypeOK NoLeftover SetupTruth Audited
