CONSTANTS
  ClockSize = 8
  SetupWait = 2
  ReadyWait = 1
  StandbyTimeout = 3
  Messages <- SomeMessages
  MaxBuffered = 2
SPECIFICATION FairSpec
INVARIANTS TypeOK StandbyIsOff
PROPERTIES SleepsOnlyWhenQuiet ReadyOnlyAfterWait TouchWakes ReadyEnds
