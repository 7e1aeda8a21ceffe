\* Four players, one of whom may go and leave a round playable; one drop or
\* takeover, one life each.
CONSTANTS
    p1 = p1  p2 = p2  p3 = p3  p4 = p4
    None = None
    Players = {p1, p2, p3, p4}
    SeatCount = 4
    MinPlayers = 3
    Lives = 1
    MaxDrops = 1
    MaxSeatMoves = 0
SPECIFICATION Spec
SYMMETRY PlayerSymmetry
CHECK_DEADLOCK FALSE
INVARIANT TypeOK
INVARIANT HostIsSeated
INVARIANT OpenRoundIsPlayable
INVARIANT LedgersFollowTable
INVARIANT RoundTakesAnnouncedLife
