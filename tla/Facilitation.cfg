SPECIFICATION Spec
CONSTANTS
  u1 = u1
  u2 = u2
  u3 = u3
  o1 = o1
  o2 = o2
  o3 = o3
  hearth = hearth
  porch = porch
  Users <- MCUsers
  Channels <- MCChannels
  OffshootIds <- MCOffshootIds
  None = None
  MaxStageSpeakers = 2
  MaxOffshootsPerParent = 1
  MaxOffshootMembers = 2
  Scopes <- MCScopes
SYMMETRY MCSymmetry
CHECK_DEADLOCK FALSE
INVARIANT TypeOK
INVARIANT LanternFollowsRoom
INVARIANT StageFollowsRoom
INVARIANT StageFollowsMode
INVARIANT SideFiresAgree
PROPERTY HolderStrandedByLatePass
