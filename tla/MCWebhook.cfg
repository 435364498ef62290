SPECIFICATION FairSpec
CONSTANTS
  Handlers = {h1, h2}
  LastEvent = 3
  Kind <- MCKind
  Payload <- MCPayload
  MaxFaults = 1
INVARIANTS
  NoEventLost
PROPERTIES
  EveryEventAcked
CHECK_DEADLOCK FALSE
