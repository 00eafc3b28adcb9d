CONSTANTS
  CallKinds = {"PsReadInfPage"}
  AppEvents = {"HandShake", "Reset"}
  MaxCalls = 1
  MaxAppEvents = 1
  MaxDetects = 0
  QueueSize = 1
  Disciplined = FALSE
SPECIFICATION FairSpec
PROPERTIES CallsReturn WaitsEnd
