SPECIFICATION Spec
CONSTANTS
  Key = {k1, k2, k3}
  Value = {p1, p2}
  NoValue = NoValue
  Ttl = 2
  MaxTime = 6
INVARIANTS
  IndexesAgree
  ListInOrder
PROPERTY ImplementsExpiringMap
