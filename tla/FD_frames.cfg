SPECIFICATION FairSpec
CONSTANTS
  Viewers = {viewer}
  Channel = 1
  Capacity = 2
  Count = 2
  Spacing = 1
  MaxFrames = 3
  MaxWorkers = 2
  MaxFailures = 1
  None = None
  Closed = Closed
CHECK_DEADLOCK FALSE
INVARIANTS TypeOK Ordered SelectionSound
PROPERTIES ViewerForward ViewerCatchesUp PipelineHeals
