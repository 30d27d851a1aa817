SPECIFICATION WorldSpec
CONSTANTS
  Value = {on, off}
  Reader = {light, switch}
  LightReader = {light}
  MaxChanges = 2
  MaxSnapshots = 1
  Devices = {"lamp"}
  Content <- MCContent
  Concurrency = 1
  MaxEntries = 1
  MaxLoads = 3
  MaxSyncs = 2
  AnyNew = AnyNew
  None = None
INVARIANT StoreIsTrue
PROPERTIES ReadsAreRight CatalogIsSound ControlsAreRight
SYMMETRY AnyValue
\* After the last load and event nothing is left to do.
CHECK_DEADLOCK FALSE
