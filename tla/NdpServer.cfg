SPECIFICATION Spec
CONSTANTS
  Sends = {t1, t2, t3, t4}
  MaxQueued = 3
  KernelRoom = 2
INVARIANTS
  QueueIsBounded
  CountsSends
  OnlyDisplacedAreStranded
  AllmultiRestored
PROPERTIES
  QuitEndsServer
  QueuedSendsEnd
