SPECIFICATION FairSpec
CONSTANTS
  o1 = o1  o3 = o3  f1 = f1  b1 = b1
  a = a  b = b  me = me
  LocalAddr = me
  Addrs <- MCAddrs
  Info <- MCInfo
  Pids <- MCPids
  Packets = {o1, o3, f1, b1}
  QueueMaxLen = 2
  SockBuf = 2
  BcastFilter = TRUE
  Faults = {"kmalloc", "nlskb", "sendmsg", "route", "register", "nodev", "clone"}
INVARIANTS QueueIsSound FifoPerDestination WaitingHasWaker
           LoadingIsSafe
PROPERTIES CustodySpec EveryWaiterLeaves
