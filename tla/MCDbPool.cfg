SPECIFICATION FairSpec
CONSTANTS
  Threads = {t1, t2, t3}
  Conns = {c1, c2}
  None = None
INVARIANTS
  Conservation
  StrayOnlyIfStuck
  NoLostWakeup
PROPERTIES
  StoreSpec
  CloseReleases
