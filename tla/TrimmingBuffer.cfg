SPECIFICATION BufferSpec
CONSTANTS
  RingSize = 8
  Capacity = 7
  MaxBytes = 14
INVARIANTS
  SlicesKeepTheirBytes
  EveryByteIsAccountedFor
