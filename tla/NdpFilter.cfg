SPECIFICATION FilterSpec
CONSTANTS
  Packets <- MCPackets
  PrefixLists <- MCPrefixLists
INVARIANTS
  AnswersOnlyAcross
  ResolutionsAreAnswered
CHECK_DEADLOCK FALSE
