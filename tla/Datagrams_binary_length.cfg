SPECIFICATION Spec
CONSTANTS
  Base = 2
  Configs <- MCConfigs
  Inputs <- MCInputs
  Foreign <- MCForeign
  MaxArrivals = 2
  MaxSignals = 1
INVARIANT BinaryHasLengths
