CONSTANTS
  l1 = l1
  again = again
  p1 = p1
  lamp = lamp
  lampMain = lampMain
  None = None
  Call = {l1, again, p1}
  Id = {l1, p1}
  Target = {lamp}
  Slot = {lampMain}
  DedupeLimit = 1
  IdOf <- MCIdOf
  FingerprintOf <- MCFingerprintOf
  TargetOf <- MCTargetOf
  KindOf <- MCKindOf
  SlotOf <- MCSlotOf
  DeviceOps = {"first", "second"}
  SceneOps = {"scene"}
  SecurityOps = {"arm"}
  Background = {"inspection"}
  Devices = {"device"}
  DeviceOf <- MCDeviceOf
  KeepsWarm = TRUE
  MaxCommands = 2
  MaxLost = 1
SPECIFICATION WorldSpec
INVARIANT TabsAndClicksAreKept
PROPERTIES AnswersCome CommandsHaveTheirTurn
\* When every call has its answer nothing is left to do.
CHECK_DEADLOCK FALSE
