SPECIFICATION Spec
CONSTANTS
  Workers = {w1, w2}
  Conns = {c1, c2, c3}
  Cap = 1
  Backlog = 2
  Wake = Wake
  None = None
INVARIANTS
  TypeOK
  WorkersSurvive
  ServedBeforeClose
PROPERTIES
  ShutdownEnds
\* The process ends.
CHECK_DEADLOCK FALSE
