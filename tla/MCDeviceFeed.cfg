CONSTANTS
  Device = {d1, d2}
  MaxTime = 3
  MaxPending = 1
  MaxBreaks = 1
  SlowHandOver = FALSE
  None = None
SPECIFICATION FairSpec
INVARIANT ReplicaIsTrue
PROPERTY ChangesArriveInOrder
\* When the last change has arrived nothing is left to do.
CHECK_DEADLOCK FALSE
