SPECIFICATION WebhookSpec
CONSTANTS
  Handlers = {h1, h2}
  LastEvent = 2
  Kind <- SnapshotsKind
  Payload <- SnapshotsPayload
  MaxFaults = 1
INVARIANT
  RecordMeansApplied
CHECK_DEADLOCK FALSE
