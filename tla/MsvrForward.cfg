SPECIFICATION FairSpec
CONSTANTS
    vs = vs  va = va  vb = vb  vd = vd
    Nodes = {0, 1, 2, 3}
    At <- BendAt
    Roads <- BendRoads
    Cars = {vs, va, vb, vd}
    Src = vs
    Dst = vd
    Spots <- BendSpots
    Starts <- BendStarts
    Reach = 160
    None = None
    MaxMoves = 1
INVARIANTS PathIsSound
PROPERTY PacketEnds
CHECK_DEADLOCK FALSE
