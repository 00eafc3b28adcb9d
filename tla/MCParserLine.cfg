CONSTANTS
  Packets <- SomePackets
  NoiseBytes <- SomeNoise
  FirstFaulty = 10
  MaxData = 16
  MaxPackets = 2
  MaxWakeUps = 1
  MaxLost = 1
  MaxCorrupted = 1
SPECIFICATION FairSpec
CHECK_DEADLOCK FALSE
INVARIANTS TypeOK DeliveredInOrder FrameFits ChangeNoticed
PROPERTY AllDelivered
