CONSTANTS
  Packets <- Acks
  NoiseBytes <- SomeNoise
  FirstFaulty = 1
  MaxData = 256
  MaxPackets = 1
  MaxWakeUps = 0
  MaxLost = 1
  MaxCorrupted = 0
SPECIFICATION Spec
CHECK_DEADLOCK FALSE
INVARIANT NothingInvented
