SPECIFICATION FairSpec
CONSTANTS
  a = a
  b = b
  c = c
  d = d
  Node = {a, b, c, d}
  InitLink <- Kite
  Publishers = {a}
  SendHaveTx = {a, b, c, d}
  IgnoreHaveTx = {}
  ForwardTransactions = {a, b, c, d}
  QueuesFill = TRUE
  StaleDrops = TRUE
  MaxSeqno = 1
  MaxDials = 0
  MaxCloses = 1
  MaxLoss = 2
  MaxExpiries = 2
  TargetPercent = 50
  DeltaPercent = 10
PROPERTIES
  PublishedReachesAll
  GossipQuiesces
