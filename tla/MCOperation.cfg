CONSTANTS
  Page = {p1, p2, p3}
  MaxMishaps = 1
  None = None
  \* The browser rests.
  Ctx = {}
  MaxRestarts = 0
  MaxFaults = 0
  MaxChanges = 0
  \* A run of two ticks sampled every tick, by two collectors one after the other, of
  \* which the first may be killed and resumed by the second.
  Collector = {first, second}
  Duration = 2
  Interval = 1
  Tolerance = 1
  MaxInterval = 2
  OldAge = 3
  MaxTime = 3
  MaxTroubles = 1
  \* Two runs of the tool, and three things that go wrong.
  MaxRuns = 2
  MaxDeployMishaps = 3
SPECIFICATION OtherSpec
INVARIANT NothingAstray
PROPERTIES KeeperChangesHandsRightly ToolsAreSound
SYMMETRY Interchangeable
\* When the soak or the deployment has ended nothing is left to do.
CHECK_DEADLOCK FALSE
