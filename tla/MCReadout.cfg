CONSTANTS
  Kinds <- AllKinds
  MaxCalls = 3
  MaxPackets = 3
  Capacity = 4
  PayloadSize = 4
  Fields = 2
  Word = 16
SPECIFICATION Spec
INVARIANTS TypeOK WithinBuffer CompleteIsCopied NeverForeign
CHECK_DEADLOCK FALSE
