CONSTANTS
  Evidence <- MCEvidence
  Legacy <- MCLegacy
  MaxChanges = 2
  None = None
SPECIFICATION Spec
PROPERTY EntitiesStay
CHECK_DEADLOCK FALSE
