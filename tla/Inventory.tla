------------------------------ MODULE Inventory ------------------------------
(***************************************************************************)
(* The inventory of the bridge: how it is kept on disk                     *)
(* (InventoryPersistence), where it is the number of the change that made  *)
(* it, and which devices it holds and where (DevicePresence), where a      *)
(* start finds any of the inventories in Saves.  Neither asks more of the  *)
(* other than that.                                                        *)
(***************************************************************************)
EXTENDS InventoryPersistence

CONSTANTS
  Device, Location, Room, RoomIn, PageSize, Accounts, Saves, Live, MaxPushes, MaxAnswers,
  MaxMoves,    \* bound: changes of the account
  MaxSessions  \* bound: new snapshot sessions

VARIABLES account, pushes, cards, load, store, session, absent, spent

presenceVars == <<account, pushes, cards, load, store, session, absent, spent>>

Presence == INSTANCE DevicePresence WITH MaxChanges <- MaxMoves, MaxResets <- MaxSessions

(* A start finds an account, and an inventory that was saved, with every    *)
(* device in some place.                                                    *)
ASSUME PresenceAssumption ==
  /\ Device \subseteq Nat /\ IsFiniteSet(Device) /\ Live \in BOOLEAN
  /\ RoomIn \in [Room -> Location] /\ None \notin Room \cup Location
  /\ PageSize \in Nat \ {0} /\ {MaxMoves, MaxPushes, MaxSessions, MaxAnswers} \subseteq Nat
  /\ Accounts \cup Saves \subseteq Presence!SomeFunctions(Presence!Spot)

-----------------------------------------------------------------------------
(* A device stays where the best evidence has it, or moves with newer        *)
(* evidence, and goes only when it is gone (#pruneUnrefreshedDevicesIfReady  *)
(* and #ensureDevice of DeviceStore).                                        *)
PresenceIsTrue == Presence!PresenceIsTrue
=============================================================================
