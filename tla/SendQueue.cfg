SPECIFICATION Spec
CONSTANTS
  Receiver = {r1, r2}
  Cap = 4
  NoRpc = NoRpc
  MaxSends = 4
INVARIANTS
  TypeOK
  CounterCoversQueue
  PublishesBounded
  ExactlyOnce
  InOrder
