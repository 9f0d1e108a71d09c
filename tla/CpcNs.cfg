SPECIFICATION Spec
CONSTANTS
    Nodes = {0, 1, 2}
    Zero = 0
    Ids = {a, b, c}
    Src <- MCSrc
    Dst <- MCDst
    Bufs = {b1, b2, b3, b4}
    MaxPath = 3
    MaxInfos = 1
    None = None
    Back = c
SYMMETRY BufSymmetry
INVARIANTS
    QueueIsSound
    CustodyUntilDrop
    HarmOnlyWhereDropped
CHECK_DEADLOCK FALSE
