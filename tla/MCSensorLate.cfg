CONSTANTS
  CallKinds = {"Command"}
  AppEvents <- Start
  MaxCalls = 2
  MaxAppEvents = 1
  MaxDetects = 0
  QueueSize = 2
  Disciplined = FALSE
SPECIFICATION Spec
INVARIANT SuccessIsOwn
