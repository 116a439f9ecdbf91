SPECIFICATION TimedSpec
CONSTANTS
  MaxSubstreamAttempts = 5
  StreamsFail = TRUE
  MaxSends = 2
  MaxInput = 0
  MaxCongestion = 0
PROPERTY
  RecreatesSubstream
CHECK_DEADLOCK FALSE
