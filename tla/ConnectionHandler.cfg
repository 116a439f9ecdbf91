SPECIFICATION FairSpec
CONSTANTS
  MaxSubstreamAttempts = 3
  StreamsFail = TRUE
  MaxSends = 2
  MaxInput = 1
  MaxCongestion = 1
INVARIANTS
  TypeOK
  NoSecondSubstream
  MessagesAccounted
  WireInOrder
PROPERTY
  QueueServed
CHECK_DEADLOCK FALSE
