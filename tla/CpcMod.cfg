SPECIFICATION FairSpec
CONSTANTS
  o1 = o1  o2 = o2  o3 = o3  a = a  b = b
  Packets = {o1, o2, o3}
  Dst <- MCDst
  Inbound = {}
  Addrs = {a, b}
  Pids = {101, 102}
  QueueMaxLen = 2
  SockBuf = 2
  Faults = {"kmalloc", "nlskb", "sendmsg", "copy", "register"}
INVARIANTS QueueIsSound WaitingIsExplained
PROPERTIES EveryWaiterLeaves CustodySpec
