SPECIFICATION WaitlistSpec
CONSTANTS
  SeqMod = 8
  WindowSize = 4
  FirstSeqno = 3
  Packets = 7
INVARIANTS
  NamedAreAckedUntilTheWrap
PROPERTY
  ImplementsWaitlist
CHECK_DEADLOCK FALSE
