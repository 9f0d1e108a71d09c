SPECIFICATION FairSpec
CONSTANTS
  Self = self
  Addrs = {a, b}
  Objs = {e1, e2}
  Tids = {t1, t2, t3}
  MaxSeq = 1
  MaxPackets = 4
  FreshInCb = {TRUE, FALSE}
INVARIANTS ListIsSound TimersAreSound RelaysAreEarned
PROPERTIES SeqnoNeverBack SilentNeighboursForgotten
