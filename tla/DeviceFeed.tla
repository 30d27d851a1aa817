----------------------------- MODULE DeviceFeed -----------------------------
(***************************************************************************)
(* The way of a change from the bridge's DeviceStore to the Home Assistant *)
(* integration: the sequence the store publishes under, SseEventWriter and *)
(* openEventStream of http-server.ts, and on the other side _event_loop of *)
(* __init__.py with SmartThingsWebRuntime.handle_event, _apply_inventory   *)
(* and apply_state of models.py.                                           *)
(*                                                                         *)
(* A device is the time of its latest change, 0 when it is not in the      *)
(* inventory; all devices are in the configured location.                  *)
(***************************************************************************)
EXTENDS Naturals, Sequences, FiniteSets

CONSTANTS
  Device,
  MaxTime,      \* bound: changes upstream
  MaxPending,   \* #maxPendingEvents of the writer (128 in the code)
  MaxBreaks,    \* bound: lost connections and crashes
  SlowHandOver, \* a restart may fall between the integration's inventory
                \* request and the opening of its event stream
  None

ASSUME DeviceFeedAssumption ==
  /\ {MaxTime, MaxPending} \subseteq Nat \ {0}
  /\ MaxBreaks \in Nat
  /\ SlowHandOver \in BOOLEAN

VARIABLES
  store,    \* the bridge's inventory: sequence, devices, ready
  disk,     \* the copy a restart begins from
  up,       \* the bridge runs
  now,      \* the time of the latest change upstream
  open,     \* the bridge has an event stream to the integration
  waiting,  \* #pendingInventory: a sequence, or None
  chunks,   \* #pendingChunks
  blocked,  \* #blocked: the socket's buffer is full
  wire,     \* events under way on the stream
  stage,    \* the event loop: "down", "fetched", "opening", "idle", "handling"
  answer,   \* the inventory it is about to apply, or None
  event,    \* the event handle_event is working on, or None
  catchUp,  \* the answer to an entity's own inventory request, or None
  replica,  \* the integration's inventory: sequence, devices
  complete, \* history: no inventory since the last complete one was partial
  breaks    \* history, for the bound

writerVars == <<waiting, chunks, blocked>>
loopVars == <<stage, answer, event>>
vars == <<store, disk, up, now, open, waiting, chunks, blocked, wire, stage, answer,
          event, catchUp, replica, complete, breaks>>

Times == 0..MaxTime
Inventories == [seq : Nat, at : [Device -> Times], ready : BOOLEAN]
(* change is a device_health marker; a marker is an inventory event. *)
Events == [type : {"state", "inventory"}, seq : Nat, device : Device \cup {None},
           at : Times]

ASSUME NoneAssumption == None \notin Nat \cup Inventories \cup Events

TypeOK ==
  /\ store \in Inventories /\ disk \in Inventories
  /\ up \in BOOLEAN /\ now \in Times /\ open \in BOOLEAN
  /\ waiting \in Nat \cup {None}
  /\ chunks \in Seq(Events) /\ Len(chunks) <= MaxPending
  /\ blocked \in BOOLEAN /\ wire \in Seq(Events)
  /\ stage \in {"down", "fetched", "opening", "idle", "handling"}
  /\ answer \in Inventories \cup {None} /\ event \in Events \cup {None}
  /\ catchUp \in Inventories \cup {None}
  /\ replica \in [seq : Nat, at : [Device -> Times]]
  /\ complete \in BOOLEAN /\ breaks \in 0..MaxBreaks

Init ==
  /\ \E some \in SUBSET Device :
       store = [seq |-> 1, at |-> [d \in Device |-> IF d \in some THEN 1 ELSE 0],
                ready |-> TRUE]
  /\ disk = store /\ up = TRUE /\ now = 1
  /\ open = FALSE /\ waiting = None /\ chunks = <<>> /\ blocked = FALSE /\ wire = <<>>
  /\ stage = "down" /\ answer = None /\ event = None /\ catchUp = None
  /\ replica = [seq |-> 0, at |-> [d \in Device |-> 0]]
  /\ complete = FALSE /\ breaks = 0

-----------------------------------------------------------------------------
(* SseEventWriter, as a function of what it holds: w, the pending inventory; *)
(* c, the chunks; b, blocked; and out, the bytes written to the socket.      *)

InventoryEvent(seq) == [type |-> "inventory", seq |-> seq, device |-> None, at |-> 0]

Writer == [w |-> waiting, c |-> chunks, b |-> blocked, out |-> wire]
Becomes(writer) ==
  /\ waiting' = writer.w /\ chunks' = writer.c
  /\ blocked' = writer.b /\ wire' = writer.out

(* Mutants of Enqueue: what no longer fits is dropped; one chunk too many.  *)
EnqueueDropping(writer, e, seq) ==
  IF ~writer.b THEN [writer EXCEPT !.out = Append(@, e)]
  ELSE IF Len(writer.c) < MaxPending THEN [writer EXCEPT !.c = Append(@, e)]
  ELSE writer

EnqueueOneMore(writer, e, seq) ==
  IF ~writer.b THEN [writer EXCEPT !.out = Append(@, e)]
  ELSE IF Len(writer.c) <= MaxPending THEN [writer EXCEPT !.c = Append(@, e)]
  ELSE [w |-> None, c |-> <<InventoryEvent(seq)>>, b |-> writer.b, out |-> writer.out]

(* #enqueue with #collapsePendingToInventory: when too much is pending, one *)
(* inventory event at the current sequence stands for all of it.            *)
Enqueue(writer, e, seq) ==
  IF ~writer.b THEN [writer EXCEPT !.out = Append(@, e)]
  ELSE IF Len(writer.c) < MaxPending THEN [writer EXCEPT !.c = Append(@, e)]
  ELSE [w |-> None, c |-> <<InventoryEvent(seq)>>, b |-> writer.b, out |-> writer.out]

(* Mutant of FlushPending: a full socket swallows the pending inventory. *)
FlushWhenFree(writer, seq) ==
  IF writer.w = None THEN writer
  ELSE IF writer.b THEN [writer EXCEPT !.w = None]
  ELSE Enqueue([writer EXCEPT !.w = None], InventoryEvent(writer.w), seq)

(* #flushPendingInventory. *)
FlushPending(writer, seq) ==
  IF writer.w = None THEN writer
  ELSE Enqueue([writer EXCEPT !.w = None], InventoryEvent(writer.w), seq)

(* write: an inventory event waits to be merged with the next ones, unless  *)
(* it is a health marker; anything else first sends the one that waits.     *)
Write(writer, e, immediate) ==
  IF e.type = "inventory" /\ ~immediate THEN [writer EXCEPT !.w = e.seq]
  ELSE Enqueue(FlushPending(writer, e.seq), e, e.seq)

-----------------------------------------------------------------------------
(* The bridge. *)

Publish(e, immediate) ==
  IF open THEN Becomes(Write(Writer, e, immediate)) ELSE UNCHANGED <<writerVars, wire>>

(* A state event, a health marker or an inventory change for one device; a  *)
(* device that is new or gone is an inventory change.                       *)
Change ==
  /\ up /\ now < MaxTime
  /\ now' = now + 1
  /\ \E d \in Device, kind \in {"state", "health", "inventory"}, gone \in BOOLEAN :
       /\ store.at[d] = 0 => kind = "inventory" /\ ~gone
       /\ gone => kind = "inventory"
       /\ store' = [seq |-> store.seq + 1, ready |-> store.ready,
                     at |-> [store.at EXCEPT ![d] = IF gone THEN 0 ELSE now + 1]]
       /\ Publish(IF kind = "state"
                  THEN [type |-> "state", seq |-> store.seq + 1, device |-> d, at |-> now + 1]
                  ELSE InventoryEvent(store.seq + 1),
                  kind = "health")
  /\ UNCHANGED <<disk, up, open, loopVars, catchUp, replica, complete, breaks>>

(* The health report becomes ready, or no longer is; that has no sequence. *)
ReadyChanges ==
  /\ up
  /\ store' = [store EXCEPT !.ready = ~@]
  /\ UNCHANGED <<disk, up, now, open, writerVars, wire, loopVars, catchUp, replica,
                 complete, breaks>>

Persist ==
  /\ up /\ disk' = [store EXCEPT !.ready = FALSE]
  /\ disk # disk'
  /\ UNCHANGED <<store, up, now, open, writerVars, wire, loopVars, catchUp, replica,
                 complete, breaks>>

(* The timer of the pending inventory event. *)
CoalesceElapsed ==
  /\ open /\ waiting # None
  /\ Becomes(FlushPending(Writer, store.seq))
  /\ UNCHANGED <<store, disk, up, now, open, loopVars, catchUp, replica, complete, breaks>>

(* write returned false for what was written last, and later "drain". *)
Block ==
  /\ open /\ ~blocked /\ wire # <<>>
  /\ blocked' = TRUE
  /\ UNCHANGED <<store, disk, up, now, open, waiting, chunks, wire, loopVars, catchUp,
                 replica, complete, breaks>>

Drain ==
  /\ open /\ blocked
  /\ blocked' = FALSE /\ chunks' = <<>> /\ wire' = wire \o chunks
  /\ UNCHANGED <<store, disk, up, now, open, waiting, loopVars, catchUp, replica,
                 complete, breaks>>

CloseStream ==
  /\ open' = FALSE /\ waiting' = None /\ chunks' = <<>> /\ blocked' = FALSE
  /\ wire' = <<>>
  /\ stage' = "down" /\ answer' = None /\ event' = None

Crash ==
  /\ up /\ breaks < MaxBreaks
  /\ up' = FALSE
  /\ breaks' = breaks + 1
  /\ IF stage = "opening" /\ SlowHandOver
     THEN UNCHANGED <<open, writerVars, wire, loopVars>> ELSE CloseStream
  /\ catchUp' = None
  /\ UNCHANGED <<store, disk, now, replica, complete>>

Restart ==
  /\ ~up
  /\ up' = TRUE
  /\ store' = disk
  /\ UNCHANGED <<disk, now, open, writerVars, wire, loopVars, catchUp, replica,
                 complete, breaks>>

-----------------------------------------------------------------------------
(* The integration. *)

(* _apply_inventory: reset is allow_sequence_reset.  A newer date wins; a   *)
(* complete inventory also removes what it no longer has, except that a     *)
(* location which is suddenly empty at a reconnect is kept.                 *)
Authoritative(latest, reset) == latest.ready /\ (reset \/ latest.seq > replica.seq)

Empty(at) == \A d \in Device : at[d] = 0

Kept(latest, reset) ==
  IF Authoritative(latest, reset) /\ ~(reset /\ Empty(latest.at))
  THEN {d \in Device : latest.at[d] > 0}
  ELSE Device

(* Mutant of Newer: the value that came last wins. *)
Latest(a, b) == a

Newer(a, b) == IF a > b THEN a ELSE b

(* Mutant of ApplyInventory: a complete inventory removes nothing. *)
ApplyWithoutRemovals(latest, reset) ==
  IF ~reset /\ latest.seq < replica.seq THEN UNCHANGED <<replica, complete>>
  ELSE /\ replica' = [seq |-> latest.seq,
                      at |-> [d \in Device |-> Newer(latest.at[d], replica.at[d])]]
       /\ complete' = (Authoritative(latest, reset) \/ complete)

ApplyInventory(latest, reset) ==
  IF ~reset /\ latest.seq < replica.seq THEN UNCHANGED <<replica, complete>>
  ELSE /\ replica' = [seq |-> latest.seq,
                      at |-> [d \in Device |-> IF d \in Kept(latest, reset)
                                               THEN Newer(latest.at[d], replica.at[d])
                                               ELSE 0]]
       /\ complete' = IF Authoritative(latest, reset)
                      THEN {d \in Device : latest.at[d] > 0} = Kept(latest, reset)
                      ELSE complete /\ latest.ready /\ ~reset

(* _event_loop: fetch the inventory, then open the stream. *)
Fetch ==
  /\ stage = "down" /\ up
  /\ stage' = "fetched" /\ answer' = store
  /\ UNCHANGED <<store, disk, up, now, open, writerVars, wire, event, catchUp, replica,
                 complete, breaks>>

Reconnect ==
  /\ stage = "fetched"
  /\ ApplyInventory(answer, TRUE)
  /\ stage' = "opening" /\ answer' = None
  /\ UNCHANGED <<store, disk, up, now, open, writerVars, wire, event, catchUp, breaks>>

(* openEventStream: the current sequence first, then the subscription. *)
OpenStream ==
  /\ stage = "opening" /\ up
  /\ stage' = "idle" /\ open' = TRUE
  /\ Becomes(Write([w |-> None, c |-> <<>>, b |-> FALSE, out |-> <<>>],
                   InventoryEvent(store.seq), TRUE))
  /\ UNCHANGED <<store, disk, up, now, answer, event, catchUp, replica, complete, breaks>>

(* apply_state. *)
ApplyState(e) ==
  IF e.seq > replica.seq /\ replica.at[e.device] > 0 /\ e.at > replica.at[e.device]
  THEN replica' = [seq |-> e.seq, at |-> [replica.at EXCEPT ![e.device] = e.at]]
  ELSE UNCHANGED replica

(* handle_event up to its first request or its end. *)
MustFetch(e) ==
  /\ e.seq > replica.seq
  /\ \/ e.type = "inventory"
     \/ e.seq > replica.seq + 1
     \/ replica.at[e.device] = 0

Handle ==
  /\ stage = "idle" /\ wire # <<>>
  /\ wire' = Tail(wire)
  /\ LET e == Head(wire) IN
     IF MustFetch(e)
     THEN /\ stage' = "handling" /\ event' = e
          /\ UNCHANGED replica
     ELSE /\ IF e.type = "state" THEN ApplyState(e) ELSE UNCHANGED replica
          /\ UNCHANGED <<stage, event>>
  /\ UNCHANGED <<store, disk, up, now, open, writerVars, answer, catchUp, complete, breaks>>

(* Its request is served, and applied later. *)
Serve ==
  /\ stage = "handling" /\ answer = None /\ up
  /\ answer' = store
  /\ UNCHANGED <<store, disk, up, now, open, writerVars, wire, stage, event, catchUp,
                 replica, complete, breaks>>

(* What follows the request: the event again if it is still the next one    *)
(* (and another request if its device is still unknown).                    *)
Resume ==
  /\ stage = "handling" /\ answer # None
  /\ ApplyInventory(answer, FALSE)
  /\ answer' = None
  /\ stage' = "idle" /\ event' = None
  /\ wire' = IF event.type = "state" /\ event.seq = replica'.seq + 1
             THEN <<event>> \o wire ELSE wire
  /\ UNCHANGED <<store, disk, up, now, open, writerVars, catchUp, breaks>>

(* The stream or a request fails; everything under way is lost. *)
Disconnect ==
  /\ stage # "down" /\ breaks < MaxBreaks
  /\ breaks' = breaks + 1
  /\ CloseStream
  /\ UNCHANGED <<store, disk, up, now, catchUp, replica, complete>>

(* An entity fetches the inventory after its command, beside the loop.      *)
EntityFetch ==
  /\ catchUp = None /\ up /\ stage \in {"idle", "handling"}
  /\ store.seq > replica.seq
  /\ catchUp' = store
  /\ UNCHANGED <<store, disk, up, now, open, writerVars, wire, loopVars, replica,
                 complete, breaks>>

EntityApply ==
  /\ catchUp # None
  /\ ApplyInventory(catchUp, FALSE)
  /\ catchUp' = None
  /\ UNCHANGED <<store, disk, up, now, open, writerVars, wire, loopVars, breaks>>

Next ==
  \/ Change \/ ReadyChanges \/ Persist \/ Crash \/ Restart
  \/ CoalesceElapsed \/ Block \/ Drain
  \/ Fetch \/ Reconnect \/ OpenStream \/ Handle \/ Serve \/ Resume
  \/ Disconnect \/ EntityFetch \/ EntityApply

(* Timers and sockets make progress, the supervisor restarts the bridge,    *)
(* the integration reconnects and works on its events.                      *)
Fairness ==
  /\ WF_vars(Restart) /\ WF_vars(CoalesceElapsed) /\ WF_vars(Drain)
  /\ WF_vars(Fetch) /\ WF_vars(Reconnect) /\ WF_vars(OpenStream)
  /\ WF_vars(Handle) /\ WF_vars(Serve) /\ WF_vars(Resume)

Spec == Init /\ [][Next]_vars
FairSpec == Spec /\ Fairness
-----------------------------------------------------------------------------
(* Properties. *)

Quiet ==
  /\ up /\ open /\ stage = "idle"
  /\ waiting = None /\ chunks = <<>> /\ wire = <<>>

(* When nothing is under way the integration has every change the bridge    *)
(* has, whatever was merged, collapsed, overtaken or lost with a connection *)
(* or a crash, and its sequence: the next event will not look like an old one.*)
Converged ==
  Quiet => /\ replica.seq = store.seq
           /\ \A d \in Device : replica.at[d] >= store.at[d]

(* A device the bridge no longer has is gone as well, if the integration    *)
(* has seen a complete inventory since.                                     *)
RemovalsArrive ==
  Quiet /\ complete => \A d \in Device : store.at[d] = 0 => replica.at[d] = 0

(* An older value never replaces a newer one, also not one from before a    *)
(* reconnect or one answered to a slower request.                           *)
NeverBack ==
  [][\A d \in Device : replica'.at[d] > 0 => replica'.at[d] >= replica.at[d]]_vars

(* Every change reaches the integration in the end. *)
EveryChangeArrives == <>[](\A d \in Device : replica.at[d] >= store.at[d])

(* handle_event says it applies an event "resynchronizing on reconnects and *)
(* gaps": after a reconnect the latest change, if the bridge has it, is not *)
(* taken for an old one.                                                    *)
ResynchronizesOnReconnect ==
  Quiet => \A d \in Device : store.at[d] = now => replica.at[d] = now

(* At rest the integration shows the bridge's devices: their latest values  *)
(* and none that is gone.                                                   *)
ReplicaIsTrue == TypeOK /\ Converged /\ RemovalsArrive

(* The changes of a device come in their order, and come in the end.        *)
ChangesArriveInOrder == NeverBack /\ EveryChangeArrives
=============================================================================
