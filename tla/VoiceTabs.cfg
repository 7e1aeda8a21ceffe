\* One user with two tabs in two rooms of one server; two joins in flight, three
\* moderations of any kind; membership and visibility stay as they are.
CONSTANTS
    u1 = u1  u2 = u2  s1 = s1  s2 = s2  s3 = s3  c1 = c1  c2 = c2  v1 = v1
    None = None
    Users = {u1}
    Sockets = {s1, s2}
    Channels = {c1, c2}
    Servers = {v1}
    OwnerOf <- OneUserSockets
    ServerOf <- OneServer
    SelfStates = {FALSE}
    ModActs = {"mute", "deafen", "kick", "move"}
    MaxJoins = 2
    MaxMods = 3
    MaxChanges = 0
SPECIFICATION Spec
SYMMETRY TabAndRoomSymmetry
CHECK_DEADLOCK FALSE
INVARIANT TypeOK
INVARIANT SeatSocketInRoom
INVARIANT GhostOnlyFromLateJoin
INVARIANT RecordedRoomIsSeated
INVARIANT OneTabOneRoom
PROPERTY ModerationSticks
