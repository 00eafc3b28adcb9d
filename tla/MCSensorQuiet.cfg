CONSTANTS
  CallKinds <- AllKinds
  AppEvents <- AnyEvents
  MaxCalls = 2
  MaxAppEvents = 2
  MaxDetects = 0
  QueueSize = 3
  Disciplined = TRUE
SPECIFICATION Spec
INVARIANTS RefusalIsReported CompletionIsReported
PROPERTIES TransitionFromDecidingState NoWriteAfterReturn HalfDuplex NoCallDropped
