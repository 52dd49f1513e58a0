SPECIFICATION Spec
CONSTANT NumInterfaces = 2
INVARIANTS
  NoQuitMissed
  NoDepartureMissed
  NoServerPanics
PROPERTIES
  SignalStopsServers
  SignalTaskEnds
