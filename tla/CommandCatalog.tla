--------------------------- MODULE CommandCatalog ---------------------------
(***************************************************************************)
(* Which commands of the Advanced API the bridge knows for each device:     *)
(* every inventory that is applied starts buildAdvancedCommandCatalog of    *)
(* runtime.ts, which loads the definitions of the devices' capabilities     *)
(* through CapabilityDefinitionCache, some at a time, and puts what they    *)
(* say into DeviceStore if no later build has begun.                        *)
(*                                                                         *)
(* A capability stands for its identifier and version.  What its definition *)
(* holds is fixed: commands that may be used, only unsafe or sensitive ones, *)
(* or a schema the parser refuses.  The two caches, one over the other with *)
(* the same keys, are one.                                                  *)
(***************************************************************************)
EXTENDS Naturals, FiniteSets, Sequences

CONSTANTS
  Device,
  Content,      \* what the definition of each capability holds
  Concurrency,  \* definitions a build loads at a time
  MaxEntries,   \* entries the cache keeps
  MaxLoads,     \* bound: loads
  MaxSyncs,     \* bound: inventories applied
  None

Cap == DOMAIN Content
Contents == {"usable", "unsafe", "malformed"}
Load == 1..MaxLoads

VARIABLES
  inventory,  \* the capabilities each device of the latest inventory has
  aliased,    \* devices whose raw identifiers this session has seen
  commands,   \* device.advancedCommands: the capabilities they belong to
  builds,     \* buildAdvancedCommandCatalog under way
  newest,     \* advancedCommandCatalogGeneration
  cache,      \* #entries: the load whose promise a key has
  order,      \* the keys of #entries, oldest first
  loads,      \* the loads under way, and which capability each one is for
  loaded,     \* history: the loads that brought their definition
  kept        \* history: devices the newest build that has ended left as they were

vars == <<inventory, aliased, commands, builds, newest, cache, order, loads, loaded, kept>>

\* A build: its devices with their capabilities, those left out for want of an
\* identifier, the capabilities no worker took yet, the loads its workers wait
\* for, and what it has got.
Build == [n: 1..MaxSyncs, of: [Device -> SUBSET Cap], unresolved: SUBSET Device,
          todo: SUBSET Cap, waits: [Cap -> Load \cup {None}],
          got: [Cap -> Contents \cup {"unavailable", None}]]

TypeOK ==
  /\ inventory \in [Device -> SUBSET Cap] /\ aliased \subseteq Device
  /\ commands \in [Device -> SUBSET Cap] /\ builds \subseteq Build
  /\ newest \in 0..MaxSyncs /\ cache \in [Cap -> Load \cup {None}]
  /\ order \in Seq(Cap) /\ \A i, j \in DOMAIN order : order[i] = order[j] => i = j
  /\ {order[i] : i \in DOMAIN order} = {c \in Cap : cache[c] # None}
  /\ loads \in [Load -> Cap \cup {None}] /\ loaded \subseteq Load
  /\ kept \subseteq Device

\* After a restart the store has the commands it had; the caches are empty.
Init ==
  /\ inventory = [d \in Device |-> {}] /\ aliased = {}
  /\ commands \in [Device -> {{}, {c \in Cap : Content[c] = "usable"}}]
  /\ builds = {} /\ newest = 0
  /\ cache = [c \in Cap |-> None] /\ order = <<>>
  /\ loads = [l \in Load |-> None] /\ loaded = {} /\ kept = Device

-----------------------------------------------------------------------------
\* An inventory is applied, and a build begins.

\* advancedCommandCatalogBindings: a device with an identifier the session has
\* not seen is left out and its commands are kept; one with no capabilities has
\* no bindings.
Start(devices, known) ==
  LET missing == {d \in Device : devices[d] # {} /\ d \notin known}
      of == [d \in Device |-> IF d \in missing THEN {} ELSE devices[d]]
  IN [n |-> newest + 1, of |-> of, unresolved |-> missing,
      todo |-> UNION {of[d] : d \in Device},
      waits |-> [c \in Cap |-> None], got |-> [c \in Cap |-> None]]

Sync(devices, known) ==
  /\ newest < MaxSyncs /\ newest' = newest + 1
  /\ inventory' = devices /\ aliased' = known
  /\ builds' = builds \cup {Start(devices, known)}
  /\ UNCHANGED <<commands, cache, order, loads, loaded, kept>>

-----------------------------------------------------------------------------
\* CapabilityDefinitionCache.

Without(c) == SelectSeq(order, LAMBDA k : k # c)

\* get: whoever asks for a key that has an entry shares its promise; another
\* load begins otherwise, and the oldest entry goes when there are too many.
Get(b, c, l) ==
  IF cache[c] # None
  THEN /\ l = cache[c] /\ UNCHANGED <<cache, order, loads>>
  ELSE /\ loads[l] = None /\ l \notin loaded
       /\ \A k \in Load : k < l => loads[k] # None \/ k \in loaded
       /\ loads' = [loads EXCEPT ![l] = c]
       /\ LET longer == Append(order, c)
              over == Len(longer) > MaxEntries
          IN /\ order' = IF over THEN Tail(longer) ELSE longer
             /\ cache' = [k \in Cap |-> IF over /\ k = Head(longer) THEN None
                                        ELSE IF k = c THEN l ELSE cache[k]]

\* A worker of #loadDefinitions takes the next capability.
Take(b, c, l) ==
  /\ c \in b.todo
  /\ Cardinality({k \in Cap : b.waits[k] # None}) < Concurrency
  /\ Get(b, c, l)
  /\ builds' = (builds \ {b}) \cup
       {IF l \in loaded THEN [b EXCEPT !.todo = @ \ {c}, !.got[c] = Content[c]]
        ELSE [b EXCEPT !.todo = @ \ {c}, !.waits[c] = l]}
  /\ UNCHANGED <<inventory, aliased, commands, newest, loaded, kept>>

\* Everybody who shares the load's promise gets the result.
Tell(l, result) ==
  {[b EXCEPT !.waits = [c \in Cap |-> IF b.waits[c] = l THEN None ELSE b.waits[c]],
             !.got = [c \in Cap |-> IF b.waits[c] = l THEN result ELSE b.got[c]]] : b \in builds}

LoadEnds(l) ==
  /\ loads[l] # None
  /\ loads' = [loads EXCEPT ![l] = None]
  /\ loaded' = loaded \cup {l}
  /\ builds' = Tell(l, Content[loads[l]])
  /\ UNCHANGED <<inventory, aliased, commands, newest, cache, order, kept>>

\* A failed load that stays in the cache.
RememberFailure(l) == UNCHANGED <<cache, order>>

\* A failed load is forgotten, unless its key has another promise by now.
ForgetFailure(l) ==
  IF cache[loads[l]] = l
  THEN cache' = [cache EXCEPT ![loads[l]] = None] /\ order' = Without(loads[l])
  ELSE UNCHANGED <<cache, order>>

LoadFails(l) ==
  /\ loads[l] # None
  /\ loads' = [loads EXCEPT ![l] = None]
  /\ ForgetFailure(l)
  /\ builds' = Tell(l, "unavailable")
  /\ UNCHANGED <<inventory, aliased, commands, newest, loaded, kept>>

-----------------------------------------------------------------------------
\* The build ends.

Done(b) == b.todo = {} /\ \A c \in Cap : b.waits[c] = None

\* build: the commands of the definitions that may be used.
Usable(b, d) == {c \in b.of[d] : b.got[c] = "usable"}

\* A device none of whose commands are known now, because a definition is
\* missing or malformed, keeps the commands it had.
Preserved(b, d) ==
  \/ d \in b.unresolved
  \/ /\ Usable(b, d) = {} /\ commands[d] # {}
     /\ \E c \in b.of[d] : b.got[c] \in {"unavailable", "malformed"}

Observe(b) ==
  /\ kept' = {d \in Device : Preserved(b, d)}
  /\ commands' = [d \in Device |-> IF Preserved(b, d) THEN commands[d] ELSE Usable(b, d)]

\* Observe with whatever the definitions gave.
ObservePlainly(b) ==
  /\ kept' = {}
  /\ commands' = [d \in Device |-> Usable(b, d)]

Ends(b) ==
  /\ Done(b) /\ builds' = builds \ {b}
  /\ UNCHANGED <<inventory, aliased, newest, cache, order, loads, loaded>>

\* Finish without a look at the generation, and without one at what is missing.
FinishAnyway(b) == Ends(b) /\ Observe(b)
FinishPlainly(b) == Ends(b) /\ IF b.n = newest THEN ObservePlainly(b) ELSE UNCHANGED <<commands, kept>>

Finish(b) == Ends(b) /\ IF b.n = newest THEN Observe(b) ELSE UNCHANGED <<commands, kept>>

Next ==
  \/ \E devices \in [Device -> SUBSET Cap], known \in SUBSET Device : Sync(devices, known)
  \/ \E b \in builds : Finish(b) \/ \E c \in Cap, l \in Load : Take(b, c, l)
  \/ \E l \in Load : LoadEnds(l) \/ LoadFails(l)

Spec == Init /\ [][Next]_vars

-----------------------------------------------------------------------------
\* What the store offers belongs to the latest inventory as soon as the build it
\* started has ended, in whatever order the builds end, except for a device whose
\* definitions could not be had (runtime.test.ts: "keeps the newer Advanced
\* command catalog when an older build resolves later").
NothingStale ==
  (newest > 0 /\ \A b \in builds : b.n # newest) =>
    \A d \in Device \ kept : commands[d] \subseteq {c \in inventory[d] : Content[c] = "usable"}

\* A definition that failed to load does not stay in the cache: what the cache
\* holds is being loaded or was, so that the next inventory tries again
\* (capability-cache.test.ts: "removes a failed load").
NoFailureKept == \A c \in Cap : cache[c] # None => loads[cache[c]] = c \/ cache[c] \in loaded

\* No device loses all its commands because definitions could not be loaded
\* (runtime.test.ts: "preserves persisted Advanced catalog when a fresh catalog
\* build fails").
FailureForgetsNothing ==
  [][\A d \in Device : commands[d] # {} /\ commands'[d] = {} =>
       /\ d \in aliased \/ inventory[d] = {}
       /\ \A c \in inventory[d] : Content[c] = "unsafe"]_vars

\* The commands a device is offered are those of the latest inventory, and no
\* failure takes them away or stays.
CatalogIsSound == FailureForgetsNothing /\ [][NothingStale' /\ NoFailureKept']_vars
=============================================================================
