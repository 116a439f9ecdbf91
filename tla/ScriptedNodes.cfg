SPECIFICATION Spec
CONSTANTS
  Node = {a, b, c}
  None = None
  PeerSets = {{a, b}}
  Warmups = {1}
  Cooldowns = {1}
  Delays = {1}
  MaxPhases = 2
  MaxMessages = 2
  MaxChurn = 1
  DialTime = 1
  MaxErrors = 1
INVARIANTS ScriptsInOrder AnnouncedIsScripted PhaseHeld AnnouncedIsPublished
CHECK_DEADLOCK FALSE
