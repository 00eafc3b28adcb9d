CONSTANTS
  CallKinds = {"Command"}
  AppEvents <- Start
  MaxCalls = 2
  MaxAppEvents = 1
  MaxDetects = 1
  QueueSize = 2
  Disciplined = FALSE
SPECIFICATION Spec
INVARIANTS TypeOK SuccessIsConfirmed RefusalIsReported
