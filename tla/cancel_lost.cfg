SPECIFICATION MCSpec
CONSTANTS
  b1 = b1
  b2 = b2
  n1 = n1
  n2 = n2
  n3 = n3
  Host = {b1}
  NoHost = NoHost
  Node = {n1, n2}
  NoGroup = NoGroup
  GroupOf <- MCGroupOf
  Labels <- MCLabels
  RebootTimes <- MCRebootTimes
  Overlap = FALSE
  Duplicates = FALSE
  MaxAdd = 2
  MaxEvent = 1
PROPERTY CancelledForGood
