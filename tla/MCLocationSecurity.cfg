CONSTANTS
  Mode = {m1, m2}
  Armed = {away, stay}
  DISARMED = disarmed
  Slot = {r1}
  MaxVersion = 3
  MaxCommands = 2
SPECIFICATION WorldSpec
INVARIANTS RequestsAreCertain AnswersAreReal Converged MonitorIsSafe
SYMMETRY AnyMode
\* After the last command, and with every event told, nothing is left to do.
CHECK_DEADLOCK FALSE
