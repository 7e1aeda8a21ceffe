\* Three players, one drop or takeover, one seat change; the clock is fair.
CONSTANTS
    p1 = p1  p2 = p2  p3 = p3  p4 = p4
    None = None
    Players = {p1, p2, p3}
    SeatCount = 3
    MinPlayers = 3
    Lives = 1
    MaxDrops = 1
    MaxSeatMoves = 1
SPECIFICATION FairSpec
CHECK_DEADLOCK FALSE
PROPERTY RoundPlaysOut
PROPERTY HostComesBack
