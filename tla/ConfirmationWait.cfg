CONSTANTS
  Kinds = {"state", "light", "location", "vector", "scene", "sceneAgain", "any", "refresh"}
  MaxTime = 4
  MaxReads = 1
  MaxEvents = 1
  NoEvidence = NoEvidence
SPECIFICATION Spec
INVARIANTS ConfirmationIsSound NoLostEvidence
PROPERTIES WaitEnds
\* A wait that has ended does nothing more.
CHECK_DEADLOCK FALSE
