SPECIFICATION FairSpec
CONSTANTS
  Instances = {i1}
  Users = {u1, u2}
  Browsers = {b1, b2}
  Nobody = Nobody
  Expiry = 0
  Cap = 1
  MaxTime = 1
  MaxSignins = 2
  MaxFaults = 1
INVARIANTS
  StaleNeverAccepted
PROPERTIES
  RevokedForGood
  Recovers
CHECK_DEADLOCK FALSE
