CONSTANTS
  Ctx = {c1, c2, c3}
  MaxRestarts = 1
  MaxFaults = 2
  MaxChanges = 1
  None = None
  \* The tabs, the soak and the deployment rest.
  Page = {}
  MaxMishaps = 0
  Collector = {}
  Duration = 0
  Interval = 0
  Tolerance = 0
  MaxInterval = 1
  OldAge = 0
  MaxTime = 0
  MaxTroubles = 0
  MaxRuns = 0
  MaxDeployMishaps = 0
SPECIFICATION BrowserSpec
INVARIANT OneChromium
PROPERTIES LoadsAreCurrent BrowserIsMadeGood
CHECK_DEADLOCK FALSE
