CONSTANTS
  CallKinds = {"PsUpChar"}
  AppEvents <- Start
  MaxCalls = 1
  MaxAppEvents = 1
  MaxDetects = 0
  QueueSize = 2
  Disciplined = TRUE
SPECIFICATION Spec
INVARIANT SuccessIsOwn
