--------------------------- MODULE DevicePresence ---------------------------
(* Which devices the bridge's DeviceStore holds, and where it puts them.     *)
(*                                                                           *)
(* After a start the store holds the devices the last process saved.  They   *)
(* are unconfirmed: each leaves the list of pending devices when a complete  *)
(* answer of one of two independent sources names it, and those left over    *)
(* are removed once both sources have answered for their location.  One      *)
(* source is the web application, whose device cards the bridge overhears;   *)
(* the other is the advanced API, read page by page.  Meanwhile devices are  *)
(* added, moved and removed in the account, pushed events carry the location *)
(* a device had when it reported, and a reload of the page begins a new      *)
(* snapshot session.                                                         *)
(*                                                                           *)
(* A device is known here by its place, its location and its room; states,   *)
(* health, controls and names are left out.                                  *)
EXTENDS Naturals, FiniteSets

CONSTANTS
  Device,       \* devices, numbered as the advanced API lists them
  Location,
  Room,
  RoomIn,       \* the location of a room
  PageSize,     \* devices on a page of the advanced API (200 in the code)
  Accounts,     \* the accounts, and the saved inventories,
  Saves,        \* that a start may meet
  Live,         \* TRUE if the server lists each page of the account as it is
                \* then, FALSE if as it was when the first page was asked for
  MaxChanges,   \* bound: changes of the account
  MaxPushes,    \* bound: pushed events reported
  MaxResets,    \* bound: new snapshot sessions
  MaxAnswers,   \* bound: answers of the web application in flight
  None

VARIABLES
  account,   \* where SmartThings has each device; devices not in it are gone
  pushes,    \* events on their way: what device, and its location back then
  cards,     \* answers to api/device queries on their way to the bridge
  load,      \* the pages read of the load in flight, or None
  store,     \* #devices: the devices and their places
  session,   \* the fields #session... of the store
  absent,    \* devices that were not in the account at some time since the
             \* start; no field of the code
  spent      \* how much of the bounds is used up

vars == <<account, pushes, cards, load, store, session, absent, spent>>

-----------------------------------------------------------------------------
(* Types.                                                                    *)

Spot == {p \in [location: Location, room: Room \cup {None}] :
           p.room # None => RoomIn[p.room] = p.location}
Place == [location: Location, room: Room \cup {None}, advanced: BOOLEAN]

SomeFunctions(T) == UNION {[S -> T] : S \in SUBSET Device}

(* An answer to api/device: it covers the locations in scope, is complete    *)
(* unless a card could not be read, and may leave the rooms out.             *)
Answer == [spots: SomeFunctions(Spot), complete: BOOLEAN, rooms: BOOLEAN]

Session == [pending: SUBSET Device, open: BOOLEAN, consumer: SUBSET Location,
            advanced: SUBSET Location, cardsSeen: BOOLEAN, wholeSeen: BOOLEAN]

TypeOK ==
  /\ account \in SomeFunctions(Spot)
  /\ pushes \subseteq [device: Device, location: Location]
  /\ cards \subseteq Answer
  /\ load = None \/ load \in [page: Nat, spots: SomeFunctions(Spot), listing: SomeFunctions(Spot)]
  /\ store \in SomeFunctions(Place)
  /\ session \in Session
  /\ absent \subseteq Device
  /\ spent \in [changes: 0..MaxChanges, pushes: 0..MaxPushes, resets: 0..MaxResets]

-----------------------------------------------------------------------------
(* The places the store gives to devices.                                    *)

Only(f, S) == [d \in DOMAIN f \cap S |-> f[d]]

(* Mutant of Ensured: the room stays with the device. *)
EnsuredWithRoom(st, d, location) ==
  IF d \in DOMAIN st THEN [st[d] EXCEPT !.location = location]
  ELSE [location |-> location, room |-> None, advanced |-> FALSE]

(* A location does not know the rooms of another: a move forgets the room    *)
(* and that the advanced API vouched for it.                                 *)
Ensured(st, d, location) ==
  IF d \in DOMAIN st /\ st[d].location = location THEN st[d]
  ELSE [location |-> location, room |-> None, advanced |-> FALSE]

(* Mutant of ByCard: cards outrank the advanced API. *)
ByAnyCard(st, d, spot, rooms) ==
  LET now == Ensured(st, d, spot.location) IN
  IF rooms THEN [now EXCEPT !.room = spot.room] ELSE now

(* A device card.  What the advanced API vouched for outranks it. *)
ByCard(st, d, spot, rooms) ==
  LET now == Ensured(st, d, spot.location) IN
  IF d \in DOMAIN st /\ st[d].advanced THEN st[d]
  ELSE IF rooms THEN [now EXCEPT !.room = spot.room] ELSE now

(* A row of the advanced API. *)
ByRow(st, d, spot) == [location |-> spot.location, room |-> spot.room, advanced |-> TRUE]

WithCards(st, answer) ==
  [d \in DOMAIN st \cup DOMAIN answer.spots |->
     IF d \in DOMAIN answer.spots THEN ByCard(st, d, answer.spots[d], answer.rooms) ELSE st[d]]

WithRows(st, spots) ==
  [d \in DOMAIN st \cup DOMAIN spots |->
     IF d \in DOMAIN spots THEN ByRow(st, d, spots[d]) ELSE st[d]]

Locations(spots) == {spots[d].location : d \in DOMAIN spots}

-----------------------------------------------------------------------------
(* Presence: #confirmRestoredDevice and #pruneUnrefreshedDevicesIfReady.     *)

Confirmed(s, spots, source) ==
  IF ~s.open THEN s
  ELSE [s EXCEPT !.pending = @ \ DOMAIN spots,
                 !.consumer = IF source = "consumer" THEN @ \cup Locations(spots) ELSE @,
                 !.advanced = IF source = "advanced" THEN @ \cup Locations(spots) ELSE @]

(* Both sources named a device of this location. *)
BothAnswered(s, location) == location \in s.consumer /\ location \in s.advanced

Preserved(st, s) == {d \in s.pending \cap DOMAIN st : ~BothAnswered(s, st[d].location)}

Ready(s) == s.open /\ s.cardsSeen /\ s.wholeSeen

Closed(s) == [s EXCEPT !.pending = {}, !.open = FALSE, !.consumer = {}, !.advanced = {}]

(* The store and the session after a snapshot, st and s those it led to. *)
Prune(st, s) ==
  IF ~Ready(s) THEN store' = st /\ session' = s
  ELSE /\ store' = Only(st, DOMAIN st \ (s.pending \ Preserved(st, s)))
       /\ session' = IF Preserved(st, s) = {} THEN Closed(s)
                     ELSE [s EXCEPT !.pending = Preserved(st, s)]

-----------------------------------------------------------------------------
(* A start restores what was saved, which may be out of date in every way.   *)
Init ==
  /\ account \in Accounts
  /\ \E saved \in Saves :
       /\ store = [d \in DOMAIN saved |->
                     [location |-> saved[d].location, room |-> saved[d].room, advanced |-> FALSE]]
       /\ session = [pending |-> DOMAIN saved, open |-> TRUE, consumer |-> {}, advanced |-> {},
                     cardsSeen |-> FALSE, wholeSeen |-> FALSE]
  /\ pushes = {} /\ cards = {} /\ load = None
  /\ absent = Device \ DOMAIN account
  /\ spent = [changes |-> 0, pushes |-> 0, resets |-> 0]

-----------------------------------------------------------------------------
(* The account and the devices.                                              *)

AddOrMove(d) ==
  /\ spent.changes < MaxChanges
  /\ \E spot \in Spot :
       /\ d \in DOMAIN account => account[d] # spot
       /\ account' = [x \in DOMAIN account \cup {d} |-> IF x = d THEN spot ELSE account[x]]
  /\ spent' = [spent EXCEPT !.changes = @ + 1]
  /\ UNCHANGED <<pushes, cards, load, store, session, absent>>

Remove(d) ==
  /\ spent.changes < MaxChanges
  /\ d \in DOMAIN account
  /\ account' = Only(account, Device \ {d})
  /\ absent' = absent \cup {d}
  /\ spent' = [spent EXCEPT !.changes = @ + 1]
  /\ UNCHANGED <<pushes, cards, load, store, session>>

(* A device reports a state or its health; the event names its location. *)
Report(d) ==
  /\ spent.pushes < MaxPushes
  /\ d \in DOMAIN account
  /\ pushes' = pushes \cup {[device |-> d, location |-> account[d].location]}
  /\ spent' = [spent EXCEPT !.pushes = @ + 1]
  /\ UNCHANGED <<account, cards, load, store, session, absent>>

-----------------------------------------------------------------------------
(* The bridge.                                                               *)

(* An event creates a device it does not know, and moves one that it knows   *)
(* elsewhere, before the age of what it reports is looked at.                *)
ApplyDeviceEvent(e) ==
  /\ e \in pushes
  /\ pushes' = pushes \ {e}
  /\ store' = [d \in DOMAIN store \cup {e.device} |->
                 IF d = e.device THEN Ensured(store, d, e.location) ELSE store[d]]
  /\ UNCHANGED <<account, cards, load, session, absent, spent>>

(* The application asks for the devices of some locations and the server     *)
(* answers; cards in lost cannot be read.                                    *)
AnswerCards(scope, lost) ==
  /\ Cardinality(cards) < MaxAnswers
  /\ \E rooms \in BOOLEAN :
       cards' = cards \cup
         {[spots |-> Only(account, {d \in DOMAIN account \ lost : account[d].location \in scope}),
           complete |-> lost = {}, rooms |-> rooms]}
  /\ UNCHANGED <<account, pushes, load, store, session, absent, spent>>

(* The answer is overheard.  Only a complete one speaks for presence. *)
ApplyCards(answer) ==
  /\ answer \in cards
  /\ cards' = cards \ {answer}
  /\ Prune(WithCards(store, answer),
           IF answer.complete
           THEN Confirmed([session EXCEPT !.cardsSeen = TRUE], answer.spots, "consumer")
           ELSE session)
  /\ UNCHANGED <<account, pushes, load, absent, spent>>

(* The connection breaks before the answer came. *)
LoseCards(answer) ==
  /\ answer \in cards
  /\ cards' = cards \ {answer}
  /\ UNCHANGED <<account, pushes, load, store, session, absent, spent>>

(* Page k of a listing of the account. *)
Page(listing, k) ==
  Only(listing, {d \in DOMAIN listing :
    Cardinality({x \in DOMAIN listing : x < d}) \div PageSize = k})

Listed == IF Live THEN account ELSE load.listing

LastPage == Cardinality(DOMAIN Listed) <= (load.page + 1) * PageSize

StartLoad ==
  /\ load = None
  /\ load' = [page |-> 0, spots |-> <<>>, listing |-> IF Live THEN <<>> ELSE account]
  /\ UNCHANGED <<account, pushes, cards, store, session, absent, spent>>

Merged(rows, more) ==
  [d \in DOMAIN rows \cup DOMAIN more |-> IF d \in DOMAIN more THEN more[d] ELSE rows[d]]

ReadPage ==
  /\ load # None
  /\ ~LastPage
  /\ load' = [load EXCEPT !.page = @ + 1, !.spots = Merged(@, Page(Listed, load.page))]
  /\ UNCHANGED <<account, pushes, cards, store, session, absent, spent>>

(* The last page: the merged result is applied. *)
FinishLoad ==
  /\ load # None
  /\ LastPage
  /\ load' = None
  /\ LET spots == Merged(load.spots, Page(Listed, load.page)) IN
     Prune(WithRows(store, spots),
           [Confirmed(session, spots, "advanced") EXCEPT !.wholeSeen = TRUE])
  /\ UNCHANGED <<account, pushes, cards, absent, spent>>

FailLoad ==
  /\ load # None
  /\ load' = None
  /\ UNCHANGED <<account, pushes, cards, store, session, absent, spent>>

(* Mutant of ObservePage: one page is taken for all of them. *)
ObservePageAsWhole ==
  /\ \E k \in 0..Cardinality(DOMAIN account) :
       Page(account, k) # <<>> /\
       Prune(WithRows(store, Page(account, k)),
             [Confirmed(session, Page(account, k), "advanced") EXCEPT !.wholeSeen = TRUE])
  /\ UNCHANGED <<account, pushes, cards, load, absent, spent>>

(* The advanced page's own request for a page of devices is overheard: it    *)
(* places devices but speaks for nobody's presence.                          *)
ObservePage ==
  /\ \E k \in 0..Cardinality(DOMAIN account) :
       Page(account, k) # <<>> /\ Prune(WithRows(store, Page(account, k)), session)
  /\ UNCHANGED <<account, pushes, cards, load, absent, spent>>

(* resetSnapshotSession: the page is reloaded. *)
ResetSnapshotSession ==
  /\ spent.resets < MaxResets
  /\ store' = [d \in DOMAIN store |-> [store[d] EXCEPT !.advanced = FALSE]]
  /\ session' = [session EXCEPT !.consumer = {}, !.advanced = {},
                                !.cardsSeen = FALSE, !.wholeSeen = FALSE]
  /\ spent' = [spent EXCEPT !.resets = @ + 1]
  /\ UNCHANGED <<account, pushes, cards, load, absent>>

-----------------------------------------------------------------------------
Next ==
  \/ \E d \in Device : AddOrMove(d) \/ Remove(d) \/ Report(d)
  \/ \E e \in pushes : ApplyDeviceEvent(e)
  \/ \E scope \in SUBSET Location, lost \in {{}} \cup {{d} : d \in DOMAIN account} :
       AnswerCards(scope, lost)
  \/ \E answer \in cards : ApplyCards(answer) \/ LoseCards(answer)
  \/ StartLoad \/ ReadPage \/ FinishLoad \/ FailLoad
  \/ ObservePage
  \/ ResetSnapshotSession

Spec == Init /\ [][Next]_vars

-----------------------------------------------------------------------------
(* Properties.                                                               *)

(* A device is never shown in a room of another location, whatever order     *)
(* moves, events, cards and rows come in (#ensureDevice).                    *)
RoomBelongs ==
  /\ TypeOK
  /\ \A d \in DOMAIN store : store[d].room # None => RoomIn[store[d].room] = store[d].location

(* A device that was in the account ever since the start is never removed,   *)
(* wherever it was moved and however answers overtake one another and new    *)
(* snapshot sessions (#pruneUnrefreshedDevicesIfReady).                      *)
PrunedWasAbsent ==
  [][\A d \in DOMAIN store \ DOMAIN store' : d \in absent]_vars

(* What the advanced API said of a place is not undone by a card: without    *)
(* an event or a new session a vouched place only changes by another row.    *)
VouchedPlaceStays ==
  [][\A d \in DOMAIN store \cap DOMAIN store' :
       (store[d].advanced /\ cards' # cards /\ load' = load) => store'[d] = store[d]]_vars

(* A device stays where the best evidence has it, or moves with newer        *)
(* evidence, and goes only when it is gone.                                  *)
PresenceIsTrue == PrunedWasAbsent /\ VouchedPlaceStays
=============================================================================
