SPECIFICATION FairSpec
CONSTANTS
  t1 = t1
  t2 = t2
  None = None
  Tabs <- MCTabs
  Slots <- MCSlots
  Chosen = {"dnd"}
  Changes = {"session", "membership", "status"}
  MaxVersion = 1
INVARIANT TypeOK
INVARIANT WatchersAreUpToDate
INVARIANT StatusHasTabOrTimer
INVARIANT OwnStatusIsKept
INVARIANT FormerMemberIsOwedRemoval
PROPERTY SocketsFollowSessions
