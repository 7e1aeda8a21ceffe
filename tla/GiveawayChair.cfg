\* Three players, two drops.
CONSTANTS
    p1 = p1  p2 = p2  p3 = p3  p4 = p4
    None = None
    Players = {p1, p2, p3}
    SeatCount = 3
    MinPlayers = 3
    Lives = 1
    MaxDrops = 2
    MaxSeatMoves = 0
SPECIFICATION Spec
CHECK_DEADLOCK FALSE
PROPERTY HostKeepsChair
