SPECIFICATION FairSpec
CONSTANTS
  Node = {s, p}
  Self = s
  ConnectionId = {c1}
  Publishers = {s, p}
  MaxSeqno = 1
  MaxArrived = 1
  MaxChanges = 1
  TargetPercent = 150
  DeltaPercent = 10
PROPERTY
  AdjustsEveryInterval
CHECK_DEADLOCK FALSE
