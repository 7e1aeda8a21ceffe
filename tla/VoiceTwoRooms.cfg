\* One user with two tabs, two rooms of one server, one join in flight.
CONSTANTS
    u1 = u1  u2 = u2  s1 = s1  s2 = s2  s3 = s3  c1 = c1  c2 = c2  v1 = v1
    None = None
    Users = {u1}
    Sockets = {s1, s2}
    Channels = {c1, c2}
    Servers = {v1}
    OwnerOf <- OneUserSockets
    ServerOf <- OneServer
    SelfStates = {FALSE}
    ModActs = {"mute"}
    MaxJoins = 1
    MaxMods = 1
    MaxChanges = 0
SPECIFICATION Spec
CHECK_DEADLOCK FALSE
INVARIANT SingleVoiceRoom
