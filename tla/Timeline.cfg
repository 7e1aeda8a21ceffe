SPECIFICATION FairSpec
CONSTANTS
  a = a
  b = b
  Author = a
  None = None
  Pending = Pending
  Tabs <- MCTabs
  MaxEdits = 1
  MaxFaults = 1
  MaxOpens = 2
INVARIANT TypeOK
INVARIANT ViewFollowsChannel
PROPERTY ViewCatchesUp
CHECK_DEADLOCK FALSE
