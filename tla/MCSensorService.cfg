CONSTANTS
  CallKinds <- StageKinds
  AppEvents <- Start
  MaxCalls = 2
  MaxAppEvents = 1
  MaxDetects = 0
  QueueSize = 3
  Disciplined = TRUE
SPECIFICATION FairSpec
INVARIANT SuccessIsOwn
PROPERTIES ImplementsService WaitsEnd
