SPECIFICATION Spec
CONSTANTS
  Key = {k1, k2, k3}
  Inlined = {k1, k3}
  Signing = {k1, k2}
  MaxTransmitSize = 4
  Overhead = 2
  None = None
  Empty = Empty
  MaxData = 5
  MaxSeqno = 2
  MaxHops = 2
INVARIANT HopsPreserve
PROPERTY SignedIsAccepted
CHECK_DEADLOCK FALSE
