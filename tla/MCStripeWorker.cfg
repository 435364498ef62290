SPECIFICATION Spec
CONSTANTS
  Jobs = {j1, j2}
  Workers = {w1, w2}
  Cap = 1
  Timeout = 2
  Retries = 2
  Threshold = 2
  Cooldown = 2
  None = None
INVARIANTS
  TypeOK
PROPERTIES
  CallSpec
  EveryCallAnswered
  BreakerCloses
