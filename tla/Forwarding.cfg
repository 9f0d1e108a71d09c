SPECIFICATION ForwardSpec
CONSTANTS
  va = va
  vb = vb
  vc = vc
  vd = vd
  Nodes = {va, vb, vc, vd}
  None = None
  Fault = Fault
  Roads = {1, 5, 12, 24}
  OnRoad <- MCOnRoad
  Dist <- MCDist
  RestrictedRange = 100
  Ofrs <- MCOfrs
  Lists <- MCLists
  RouteCap = 8
  MaxChanges = 2
  MaxHops = 5
CHECK_DEADLOCK FALSE
INVARIANTS RouteStringIsSound FaultOnlyAfterCut NextHopBestSoFar
