CONSTANTS
  Device = {1, 2}
  l1 = l1
  l2 = l2
  r1 = r1
  Location <- MCLocation
  Room = {r1}
  RoomIn <- MCRoomIn
  PageSize = 1
  Accounts <- MCAccounts
  Saves <- MCSaves
  Live = FALSE
  MaxMoves = 1
  MaxPushes = 1
  MaxSessions = 1
  Worker = {w1}
  MaxChanges = 0
  MaxDefer = 0
  MaxResets = 0
  MaxAnswers = 1
  None = None
SPECIFICATION WorldSpec
 
PROPERTIES PresenceIsTrue RemovalsAreDue ReportsAreEarned
\* After the last change, migration or tick nothing is left to do.
CHECK_DEADLOCK FALSE
