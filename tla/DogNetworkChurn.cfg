SPECIFICATION Spec
CONSTANTS
  a = a
  b = b
  c = c
  d = d
  Node = {a, b, c}
  InitLink <- Triangle
  Publishers = {a}
  SendHaveTx = {a, b, c}
  IgnoreHaveTx = {}
  ForwardTransactions = {a, b, c}
  QueuesFill = TRUE
  StaleDrops = TRUE
  MaxSeqno = 2
  MaxDials = 1
  MaxCloses = 1
  MaxLoss = 0
  MaxExpiries = 0
  TargetPercent = 100
  DeltaPercent = 10
INVARIANTS
  TypeOK
  NextIdFresh
  ClosedRouteHasLiveTarget
  ClosedRoutesReopenable
  SourceTree
  OncePerLink
  HaveTxHasAlternative
PROPERTY
  ImplementsBroadcast
SYMMETRY Readers
