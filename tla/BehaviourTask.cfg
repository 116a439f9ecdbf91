SPECIFICATION FairSpec
CONSTANTS
  Node = {s, p, q}
  Self = s
  ConnectionId = {c1, c2}
  Publishers = {s, p}
  MaxSeqno = 1
  MaxArrived = 2
  MaxChanges = 5
  TargetPercent = 150
  DeltaPercent = 10
INVARIANTS
  TypeOK
  ConnectionsTracked
  RoutingReported
  MetricsAgree
  SleepsOnlyOnReset
PROPERTY
  AdjustsWhenAwake
CHECK_DEADLOCK FALSE
