SPECIFICATION Spec
CONSTANTS
  Node = {s, p}
  Self = s
  ConnectionId = {c1, c2}
  Publishers = {s, p}
  MaxSeqno = 0
  MaxArrived = 2
  MaxChanges = 3
  TargetPercent = 150
  DeltaPercent = 10
INVARIANT
  PeersCounted
CHECK_DEADLOCK FALSE
