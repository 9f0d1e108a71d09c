SPECIFICATION Spec
CONSTANTS
  o = o
  a = a
  b = b
  Origin = o
  NoEntry = NoEntry
  Nodes = {a, b}
  Links <- Triangle
  FirstSeq = {6}
  MaxSeq = 8
  BeaconPeriod = 2
  ExpireTime = 3
  CleanPeriod = 5
  Waits = {0, 1}
  MaxLives = 2
  MaxLost = 1
  MaxResets = 1
  MaxOutside = 1
  Horizon = 15
SYMMETRY Corners
CHECK_DEADLOCK FALSE
INVARIANTS RestartHeardInTime GoneIsForgottenInTime RelaysAreSound
