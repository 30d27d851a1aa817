--------------------------- MODULE DeviceKnowledge ---------------------------
(***************************************************************************)
(* What the bridge's DeviceStore believes of a device: its state, which    *)
(* reports and reads bring (DeviceState), and beside it the commands the   *)
(* Advanced API offers for it, which buildAdvancedCommandCatalog puts into *)
(* the same record (CommandCatalog).  The two write different fields and   *)
(* wait for nothing of each other.                                         *)
(***************************************************************************)
EXTENDS DeviceState

CONSTANTS
  Devices,      \* the devices the inventory may hold
  Content, Concurrency, MaxEntries, MaxLoads, MaxSyncs

VARIABLES inventory, aliased, catalogued, builds, newest, cache, order, loads, loaded, kept

catalogVars == <<inventory, aliased, catalogued, builds, newest, cache, order, loads, loaded,
                 kept>>

Catalog == INSTANCE CommandCatalog WITH Device <- Devices, commands <- catalogued

ASSUME CatalogAssumption ==
  /\ Content \in [Catalog!Cap -> Catalog!Contents] /\ {MaxLoads, MaxSyncs} \subseteq Nat
  /\ None \notin Catalog!Cap \cup Catalog!Contents \cup {"unavailable"} \cup Nat

-----------------------------------------------------------------------------
(* The commands a device is offered are those of the latest inventory, and  *)
(* no failure takes them away or stays (buildAdvancedCommandCatalog and     *)
(* CapabilityDefinitionCache).                                              *)
CatalogIsSound == Catalog!CatalogIsSound
=============================================================================
