SPECIFICATION Spec
CONSTANTS
  PacketLoss = 3
  ConnLoss = 12
  Tries = 3
  Splits = 5
  MaxPackets = 2
  MaxFaults = 2
  MaxRuns = 2
  Patience = 2
INVARIANTS
  TimesOutForAReason
  InputIsReadInTime
  RecvBufLasts
PROPERTIES
  OverdueOnlyWhileJammed
  EndsStopWaiting
