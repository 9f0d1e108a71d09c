SPECIFICATION FairSpec
CONSTANTS
  Nodes = {0, 1, 2}
  Roads <- Parallel
  Classes = {1, 2}
  Dist <- SquareDist
  IntMax = 127
PROPERTY MarksAreTemporary
