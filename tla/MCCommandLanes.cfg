CONSTANTS
  l1 = l1
  l2 = l2
  again = again
  p1 = p1
  lamp = lamp
  lampMain = lampMain
  None = None
  Call = {l1, l2, again, p1}
  Id = {l1, l2, p1}
  Target = {lamp}
  Slot = {lampMain}
  DedupeLimit = 1
  IdOf <- MCIdOf
  FingerprintOf <- MCFingerprintOf
  TargetOf <- MCTargetOf
  KindOf <- MCKindOf
  SlotOf <- MCSlotOf
SPECIFICATION Spec
INVARIANTS TypeOK InOrder NewestIntentWins OncePerRequestId
PROPERTIES NoWorkAfterAnswer ServesSerialLanes
\* When every call has its answer nothing is left to do.
CHECK_DEADLOCK FALSE
