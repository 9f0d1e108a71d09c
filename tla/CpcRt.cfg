SPECIFICATION RtFairSpec
CONSTANTS
  Daddrs = {a, b, c}
  Lifetimes = {1, 2}
  LongMod = 8
  IntMod = 4
  RtMaxLen = 1
  MaxRefused = 1
  MaxDelay = 1
INVARIANTS TableIsSound TimerIsSound
PROPERTIES NoEarlyExpiry RoutesExpire
