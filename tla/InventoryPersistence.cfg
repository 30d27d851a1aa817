CONSTANTS
  Worker = {w1, w2}
  MaxChanges = 4
  MaxDefer = 2
  MaxResets = 1
  None = None
SPECIFICATION FairSpec
INVARIANT SaveIsAhead
PROPERTIES DiskIsRestored SavesAndEnds
\* After the last start and the last change nothing is left to do.
CHECK_DEADLOCK FALSE
