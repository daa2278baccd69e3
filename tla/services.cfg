SPECIFICATION MCSpec
CONSTANTS
  Version = {1, 2}
  ServerSets <- MCServerSets
  Tag <- MCTag
  MaxRound = 4
  MaxFault = 2
INVARIANTS CompletedIsCurrent 
PROPERTIES EventuallyCurrent
CHECK_DEADLOCK FALSE
