SPECIFICATION FairSpec
CONSTANTS
  Nodes = {0, 1, 2, 3}
  Roads <- Square
  Classes = {1, 12}
  Dist <- SquareDist
  IntMax = 127
INVARIANTS NoMarkSurvives CandidatesDisjoint AnswerIsSound
PROPERTY MarksAreTemporary
