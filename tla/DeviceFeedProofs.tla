-------------------------- MODULE DeviceFeedProofs --------------------------
(***************************************************************************)
(* Proofs about DeviceFeed: at rest the integration has what the bridge    *)
(* has, for any number of devices, changes, pending events, crashes and    *)
(* lost connections, as long as no restart falls between the integration's *)
(* inventory request and the opening of its event stream.                  *)
(***************************************************************************)
EXTENDS DeviceFeed, SequenceTheorems, TLAPS

-----------------------------------------------------------------------------
(* The inductive invariant. *)

Elements(s) == {s[i] : i \in DOMAIN s}

(* What a writer still has to deliver or has sent, and with it the event    *)
(* that handle_event is working on.                                         *)
Held(writer) ==
  Elements(writer.out) \cup Elements(writer.c)
    \cup {InventoryEvent(w) : w \in {writer.w} \ {None}}

Pending == Held(Writer) \cup ({event} \ {None})

(* The integration has asked for its stream, or has it. *)
Alive == stage \in {"opening", "idle", "handling"}

(* What is kept of a connection in each stage of the event loop. *)
Phases ==
  /\ ~open => wire = <<>> /\ chunks = <<>> /\ waiting = None
  /\ open <=> stage \in {"idle", "handling"}
  /\ stage # "down" => up
  /\ stage = "fetched" => answer # None
  /\ stage = "handling" <=> event # None
  /\ stage \in {"down", "opening", "idle"} => answer = None
  /\ ~up => catchUp = None

Past ==
  \A d \in Device : store.at[d] <= now /\ replica.at[d] <= now /\ disk.at[d] <= now

(* In what follows last[d] is the sequence of the latest change of d since  *)
(* the bridge started.  An inventory it answered differs from what it has   *)
(* now only in devices that changed since, and is as much older as its      *)
(* sequence is smaller.                                                     *)
Sound(x, last) ==
  /\ x.seq <= store.seq
  /\ \A d \in Device : /\ x.at[d] + store.seq <= now + x.seq
                       /\ x.at[d] # store.at[d] => last[d] > x.seq

(* The integration lacks a change, or shows a device that is gone, only     *)
(* when that change is newer than the sequence it has.                      *)
Behind(last) ==
  /\ replica.seq <= store.seq
  /\ \A d \in Device :
       /\ replica.at[d] + store.seq <= now + replica.seq
       /\ replica.at[d] < store.at[d] => last[d] > replica.seq
       /\ complete /\ replica.at[d] > 0 /\ store.at[d] = 0 => last[d] > replica.seq

(* A state event carries the change that had its sequence. *)
Genuine(e, last) ==
  /\ e.seq <= store.seq
  /\ e.type = "state" =>
       /\ e.device \in Device
       /\ e.at + store.seq = now + e.seq
       /\ last[e.device] >= e.seq
       /\ last[e.device] = e.seq => store.at[e.device] = e.at
       /\ \A d \in Device \ {e.device} : last[d] # e.seq

(* The inventory fetched for a new connection is the newest there is under  *)
(* way, and nothing the integration has is newer.                           *)
Overtaking ==
  /\ \A d \in Device : replica.at[d] + store.seq <= now + answer.seq
  /\ catchUp # None => catchUp.seq <= answer.seq

(* The latest change has arrived or an event with its sequence is pending. *)
Announced ==
  open => replica.seq = store.seq \/ \E e \in Pending : e.seq = store.seq

Known(last) ==
  /\ answer # None => Sound(answer, last)
  /\ catchUp # None => Sound(catchUp, last)
  /\ Alive => Behind(last)
  /\ \A e \in Pending : Genuine(e, last)

Served ==
  /\ stage = "fetched" => Overtaking
  /\ stage = "handling" /\ answer # None => answer.seq >= event.seq

FeedInv ==
  /\ TypeOK /\ Phases /\ Past /\ Served /\ Announced
  /\ \E last \in [Device -> 0..store.seq] : Known(last)

-----------------------------------------------------------------------------
(* Sequences by their elements. *)

LEMMA AppendElements ==
  ASSUME NEW S, NEW s \in Seq(S), NEW e \in S
  PROVE  /\ Append(s, e) \in Seq(S) /\ Len(Append(s, e)) = Len(s) + 1
         /\ Elements(Append(s, e)) = Elements(s) \cup {e}
<1>1. /\ Append(s, e) \in Seq(S) /\ Len(Append(s, e)) = Len(s) + 1
      /\ \A i \in 1..Len(s) : Append(s, e)[i] = s[i]
      /\ Append(s, e)[Len(s) + 1] = e
  BY AppendProperties
<1>2. DOMAIN Append(s, e) = DOMAIN s \cup {Len(s) + 1} /\ DOMAIN s = 1..Len(s)
  BY <1>1, LenProperties
<1> QED BY <1>1, <1>2 DEF Elements

LEMMA SmallElements ==
  ASSUME NEW S, NEW e \in S
  PROVE  /\ <<>> \in Seq(S) /\ Elements(<<>>) = {} /\ Len(<<>>) = 0
         /\ <<e>> \in Seq(S) /\ Elements(<<e>>) = {e} /\ Len(<<e>>) = 1
BY DEF Elements

LEMMA ConcatElements ==
  ASSUME NEW S, NEW s \in Seq(S), NEW t \in Seq(S)
  PROVE  s \o t \in Seq(S) /\ Elements(s \o t) = Elements(s) \cup Elements(t)
<1>1. /\ s \o t \in Seq(S) /\ Len(s \o t) = Len(s) + Len(t)
      /\ \A i \in 1..Len(s) + Len(t) :
           (s \o t)[i] = IF i <= Len(s) THEN s[i] ELSE t[i - Len(s)]
  BY ConcatProperties
<1>2. /\ DOMAIN (s \o t) = 1..Len(s) + Len(t)
      /\ DOMAIN s = 1..Len(s) /\ DOMAIN t = 1..Len(t) /\ Len(s) \in Nat /\ Len(t) \in Nat
  BY <1>1, LenProperties
<1>3. ASSUME NEW x \in Elements(s \o t) PROVE x \in Elements(s) \cup Elements(t)
  <2>1. PICK i \in 1..Len(s) + Len(t) : x = (s \o t)[i]
    BY <1>2 DEF Elements
  <2>2. CASE i <= Len(s)
    BY <2>1, <2>2, <1>1, <1>2 DEF Elements
  <2>3. CASE ~(i <= Len(s))
    <3>1. i - Len(s) \in DOMAIN t /\ x = t[i - Len(s)]
      BY <2>1, <2>3, <1>1, <1>2
    <3> QED BY <3>1 DEF Elements
  <2> QED BY <2>2, <2>3
<1>4. ASSUME NEW x \in Elements(s) PROVE x \in Elements(s \o t)
  <2>1. PICK i \in 1..Len(s) : x = s[i]
    BY <1>2 DEF Elements
  <2>2. i \in 1..Len(s) + Len(t) /\ x = (s \o t)[i]
    BY <2>1, <1>1, <1>2
  <2> QED BY <2>2, <1>2 DEF Elements
<1>5. ASSUME NEW x \in Elements(t) PROVE x \in Elements(s \o t)
  <2>1. PICK i \in 1..Len(t) : x = t[i]
    BY <1>2 DEF Elements
  <2>2. i + Len(s) \in 1..Len(s) + Len(t) /\ x = (s \o t)[i + Len(s)]
    BY <2>1, <1>1, <1>2
  <2> QED BY <2>2, <1>2 DEF Elements
<1> QED BY <1>1, <1>3, <1>4, <1>5

LEMMA HeadElements ==
  ASSUME NEW S, NEW s \in Seq(S), s # <<>>
  PROVE  /\ Head(s) \in S /\ Tail(s) \in Seq(S)
         /\ Elements(s) = {Head(s)} \cup Elements(Tail(s))
<1>1. Head(s) \in S /\ Tail(s) \in Seq(S) /\ Head(s) = s[1]
  BY HeadTailProperties, ElementOfSeq
<1>2. /\ Len(s) \in Nat \ {0} /\ DOMAIN s = 1..Len(s)
      /\ Len(Tail(s)) = Len(s) - 1 /\ DOMAIN Tail(s) = 1..(Len(s) - 1)
      /\ \A i \in 1..(Len(s) - 1) : Tail(s)[i] = s[i + 1]
  BY HeadTailProperties, LenProperties, EmptySeq, <1>1
<1>3. ASSUME NEW x \in Elements(s) PROVE x \in {Head(s)} \cup Elements(Tail(s))
  <2>1. PICK i \in 1..Len(s) : x = s[i]
    BY <1>2 DEF Elements
  <2>2. CASE i # 1
    <3>1. i - 1 \in 1..(Len(s) - 1) /\ x = Tail(s)[i - 1]
      BY <2>1, <2>2, <1>2
    <3> QED BY <3>1, <1>2 DEF Elements
  <2> QED BY <2>1, <2>2, <1>1
<1>4. ASSUME NEW x \in Elements(Tail(s)) PROVE x \in Elements(s)
  <2>1. PICK i \in 1..(Len(s) - 1) : x = Tail(s)[i]
    BY <1>2 DEF Elements
  <2>2. i + 1 \in 1..Len(s) /\ x = s[i + 1]
    BY <2>1, <1>2
  <2> QED BY <2>2, <1>2 DEF Elements
<1>5. Head(s) \in Elements(s)
  BY <1>1, <1>2 DEF Elements
<1> QED BY <1>1, <1>3, <1>4, <1>5

-----------------------------------------------------------------------------
(* The writer: what is collapsed is announced by an inventory event. *)

Writers ==
  [w : Nat \cup {None}, c : {c \in Seq(Events) : Len(c) <= MaxPending}, b : BOOLEAN,
   out : Seq(Events)]

(* next holds what writer held and more, or an inventory event at seq. *)
Delivers(writer, next, more, seq) ==
  /\ next \in Writers
  /\ Held(next) \subseteq Held(writer) \cup more \cup {InventoryEvent(seq)}
  /\ \/ Held(writer) \cup more \subseteq Held(next)
     \/ InventoryEvent(seq) \in Held(next)

LEMMA InventoryEventIsOne ==
  ASSUME NEW seq \in Nat
  PROVE  /\ InventoryEvent(seq) \in Events /\ InventoryEvent(seq).seq = seq
         /\ InventoryEvent(seq).type = "inventory"
BY DeviceFeedAssumption DEF InventoryEvent, Events, Times

LEMMA EnqueueDelivers ==
  ASSUME NEW writer \in Writers, NEW e \in Events, NEW seq \in Nat
  PROVE  Delivers(writer, Enqueue(writer, e, seq), {e}, seq)
<1> DEFINE next == Enqueue(writer, e, seq)
<1> USE InventoryEventIsOne
<1>1. /\ writer.c \in Seq(Events) /\ writer.out \in Seq(Events) /\ Len(writer.c) \in Nat
      /\ Len(writer.c) <= MaxPending /\ writer.w \in Nat \cup {None} /\ writer.b \in BOOLEAN
  BY LenProperties DEF Writers
<1>2. CASE ~writer.b
  <2>1. /\ next.out = Append(writer.out, e) /\ next.w = writer.w /\ next.c = writer.c
        /\ next \in Writers
    <3>1. Append(writer.out, e) \in Seq(Events)
      BY <1>1, AppendElements
    <3> QED BY <1>2, <3>1, <1>1 DEF Enqueue, Writers
  <2>2. Held(next) = Held(writer) \cup {e}
    BY <2>1, <1>1, AppendElements DEF Held
  <2> QED BY <2>1, <2>2 DEF Delivers
<1>3. CASE writer.b /\ Len(writer.c) < MaxPending
  <2>1. Append(writer.c, e) \in Seq(Events) /\ Len(Append(writer.c, e)) <= MaxPending
    BY <1>1, <1>3, AppendElements, DeviceFeedAssumption
  <2>2. /\ next.c = Append(writer.c, e) /\ next.w = writer.w /\ next.out = writer.out
        /\ next \in Writers
    BY <1>3, <2>1, <1>1 DEF Enqueue, Writers
  <2>3. Held(next) = Held(writer) \cup {e}
    BY <2>2, <1>1, AppendElements DEF Held
  <2> QED BY <2>2, <2>3 DEF Delivers
<1>4. CASE writer.b /\ ~(Len(writer.c) < MaxPending)
  <2>1. /\ <<InventoryEvent(seq)>> \in Seq(Events)
        /\ Elements(<<InventoryEvent(seq)>>) = {InventoryEvent(seq)}
        /\ Len(<<InventoryEvent(seq)>>) <= MaxPending
    <3> HIDE DEF next
    <3> QED BY SmallElements, DeviceFeedAssumption
  <2>2. next = [w |-> None, c |-> <<InventoryEvent(seq)>>, b |-> writer.b,
                out |-> writer.out]
    BY <1>4 DEF Enqueue
  <2>3. next \in Writers /\ Held(next) = Elements(writer.out) \cup {InventoryEvent(seq)}
    BY <2>1, <2>2, <1>1 DEF Writers, Held
  <2> QED BY <2>3 DEF Delivers, Held
<1> QED BY <1>1, <1>2, <1>3, <1>4

LEMMA FlushDelivers ==
  ASSUME NEW writer \in Writers, NEW seq \in Nat
  PROVE  Delivers(writer, FlushPending(writer, seq), {}, seq)
<1>1. CASE writer.w = None
  BY <1>1 DEF FlushPending, Delivers
<1>2. CASE writer.w # None
  <2> DEFINE empty == [writer EXCEPT !.w = None]
             next == Enqueue(empty, InventoryEvent(writer.w), seq)
  <2>1. writer.w \in Nat /\ InventoryEvent(writer.w) \in Events
    BY <1>2, InventoryEventIsOne DEF Writers
  <2>2. /\ empty \in Writers
        /\ Held(writer) = Held(empty) \cup {InventoryEvent(writer.w)}
    BY <1>2 DEF Writers, Held
  <2>3. Delivers(empty, next, {InventoryEvent(writer.w)}, seq)
    <3> HIDE DEF empty
    <3> QED BY <2>1, <2>2, EnqueueDelivers
  <2>4. FlushPending(writer, seq) = next
    BY <1>2 DEF FlushPending
  <2> HIDE DEF empty, next
  <2> QED BY <2>2, <2>3, <2>4 DEF Delivers
<1> QED BY <1>1, <1>2

LEMMA WriteDelivers ==
  ASSUME NEW writer \in Writers, NEW e \in Events, NEW immediate \in BOOLEAN
  PROVE  /\ Write(writer, e, immediate) \in Writers
         /\ Held(Write(writer, e, immediate))
              \subseteq Held(writer) \cup {e, InventoryEvent(e.seq)}
         /\ \E x \in Held(Write(writer, e, immediate)) : x.seq = e.seq
<1>1. e.seq \in Nat /\ InventoryEvent(e.seq).seq = e.seq
  BY InventoryEventIsOne DEF Events
<1>2. CASE e.type = "inventory" /\ ~immediate
  <2> DEFINE next == [writer EXCEPT !.w = e.seq]
  <2>1. Write(writer, e, immediate) = next
    BY <1>2 DEF Write
  <2>2. e.seq # None
    BY <1>1, NoneAssumption
  <2>3. /\ next \in Writers
        /\ Held(next) \subseteq Held(writer) \cup {InventoryEvent(e.seq)}
        /\ InventoryEvent(e.seq) \in Held(next)
    BY <1>1, <2>2 DEF Writers, Held
  <2> HIDE DEF next
  <2> QED BY <1>1, <2>1, <2>3
<1>3. CASE ~(e.type = "inventory" /\ ~immediate)
  <2> DEFINE flushed == FlushPending(writer, e.seq)
             next == Enqueue(flushed, e, e.seq)
  <2>1. Delivers(writer, flushed, {}, e.seq)
    BY <1>1, FlushDelivers
  <2> HIDE DEF flushed
  <2>2. Delivers(flushed, next, {e}, e.seq)
    BY <1>1, <2>1, EnqueueDelivers DEF Delivers
  <2>3. Write(writer, e, immediate) = next
    BY <1>3 DEF Write, flushed
  <2> HIDE DEF next
  <2> QED BY <1>1, <2>1, <2>2, <2>3 DEF Delivers
<1> QED BY <1>2, <1>3

LEMMA WriterIsOne ==
  ASSUME TypeOK
  PROVE  Writer \in Writers
BY DEF TypeOK, Writer, Writers

(* The writer's state and the wire after it became next. *)
LEMMA WriterAfter ==
  ASSUME NEW next \in Writers, Becomes(next)
  PROVE  /\ Held(Writer)' = Held(next)
         /\ waiting' \in Nat \cup {None} /\ chunks' \in Seq(Events)
         /\ Len(chunks') <= MaxPending /\ blocked' \in BOOLEAN /\ wire' \in Seq(Events)
BY DEF Writers, Becomes, Writer, Held

LEMMA WriterSame ==
  ASSUME UNCHANGED <<writerVars, wire>>
  PROVE  Held(Writer)' = Held(Writer)
BY DEF writerVars, Writer, Held

-----------------------------------------------------------------------------
(* _apply_inventory: an older answer changes nothing; any other one leaves  *)
(* its sequence and, of each device, the newer time or none at all.         *)
Replicas == [seq : Nat, at : [Device -> Times]]

Applies(x, reset) ==
  \/ /\ ~reset /\ x.seq < replica.seq
     /\ replica' = replica /\ complete' = complete
  \/ /\ reset \/ x.seq >= replica.seq
     /\ replica' \in Replicas /\ replica'.seq = x.seq /\ complete' \in BOOLEAN
     /\ \A d \in Device : \/ replica'.at[d] = Newer(x.at[d], replica.at[d])
                          \/ replica'.at[d] = 0 /\ x.at[d] = 0
     /\ complete' => \/ \A d \in Device : replica'.at[d] > 0 => x.at[d] > 0
                     \/ ~reset /\ complete /\ x.seq = replica.seq

LEMMA ApplyingApplies ==
  ASSUME NEW x \in Inventories, NEW reset \in BOOLEAN,
         replica \in Replicas, complete \in BOOLEAN, ApplyInventory(x, reset)
  PROVE  Applies(x, reset)
<1> DEFINE there == {d \in Device : x.at[d] > 0}
           kept == Kept(x, reset)
           at == [d \in Device |-> IF d \in kept THEN Newer(x.at[d], replica.at[d]) ELSE 0]
<1>1. CASE ~reset /\ x.seq < replica.seq
  BY <1>1 DEF ApplyInventory, Applies
<1>2. CASE ~(~reset /\ x.seq < replica.seq)
  <2>1. /\ x.seq \in Nat /\ x.at \in [Device -> Times] /\ x.ready \in BOOLEAN
        /\ replica.seq \in Nat /\ replica.at \in [Device -> Times]
    BY DEF Inventories, Replicas
  <2>2. /\ replica' = [seq |-> x.seq, at |-> at]
        /\ complete' = IF Authoritative(x, reset) THEN there = kept
                       ELSE complete /\ x.ready /\ ~reset
    BY <1>2 DEF ApplyInventory
  <2>3. \A d \in Device : x.at[d] \in Times /\ replica.at[d] \in Times /\ Times \subseteq Nat
    BY <2>1, DeviceFeedAssumption DEF Times
  <2>4. \A d \in Device : d \notin kept => x.at[d] = 0
    <3>1. kept = there \/ kept = Device
      BY DEF Kept
    <3> QED BY <2>3, <3>1
  <2>5. \A d \in Device : at[d] = IF d \in kept THEN Newer(x.at[d], replica.at[d]) ELSE 0
    OBVIOUS
  <2>6. at \in [Device -> Times]
    BY <2>3, DeviceFeedAssumption DEF Newer, Times
  <2>7. complete' \in BOOLEAN
    BY <2>2, <2>1
  <2>8. /\ reset \/ x.seq >= replica.seq
        /\ Authoritative(x, reset) = (x.ready /\ (reset \/ x.seq > replica.seq))
    BY <1>2, <2>1 DEF Authoritative
  <2> HIDE DEF at, kept
  <2>9. replica'.at = at /\ replica'.seq = x.seq /\ replica' \in Replicas
    BY <2>1, <2>2, <2>6 DEF Replicas
  <2>10. ASSUME complete'
         PROVE  \/ \A d \in Device : replica'.at[d] > 0 => x.at[d] > 0
                \/ ~reset /\ complete /\ x.seq = replica.seq
    <3>1. CASE Authoritative(x, reset)
      <4>1. there = kept
        BY <2>2, <2>10, <3>1
      <4>2. \A d \in Device : replica'.at[d] > 0 => d \in kept
        BY <2>5, <2>9
      <4> QED BY <4>1, <4>2
    <3>2. CASE ~Authoritative(x, reset)
      BY <2>1, <2>2, <2>8, <2>10, <3>2
    <3> QED BY <3>1, <3>2
  <2> QED BY <2>4, <2>5, <2>7, <2>8, <2>9, <2>10 DEF Applies
<1> QED BY <1>1, <1>2

LEMMA AppliesTyped ==
  ASSUME NEW x, NEW reset \in BOOLEAN, replica \in Replicas, complete \in BOOLEAN,
         Applies(x, reset)
  PROVE  replica' \in Replicas /\ complete' \in BOOLEAN
BY DEF Applies

-----------------------------------------------------------------------------
(* Types and phases. *)

Typed == TypeOK /\ Phases

LEMMA PendingTyped ==
  ASSUME TypeOK
  PROVE  Pending \subseteq Events
<1>1. Elements(wire) \subseteq Events /\ Elements(chunks) \subseteq Events
  BY ElementOfSeq, LenProperties DEF TypeOK, Elements
<1>2. \A w \in {waiting} \ {None} : InventoryEvent(w) \in Events
  BY InventoryEventIsOne DEF TypeOK
<1> QED BY <1>1, <1>2 DEF TypeOK, Pending, Held, Writer

LEMMA StateTyped ==
  ASSUME TypeOK
  PROVE  /\ store \in Inventories /\ disk \in Inventories /\ replica \in Replicas
         /\ store.seq \in Nat /\ store.at \in [Device -> Times] /\ store.ready \in BOOLEAN
         /\ replica.seq \in Nat /\ replica.at \in [Device -> Times]
         /\ now \in Nat /\ Times \subseteq Nat /\ 0 \in Times
BY DeviceFeedAssumption DEF TypeOK, Inventories, Replicas, Times

LEMMA NothingTyped == <<>> \in Seq(Events) /\ Len(<<>>) <= MaxPending
BY DeviceFeedAssumption

LEMMA ChangeTyped ==
  ASSUME Typed, Change
  PROVE  Typed'
<1> USE DEF Typed
<1>1. PICK d \in Device, kind \in {"state", "health", "inventory"}, gone \in BOOLEAN :
         /\ store' = [seq |-> store.seq + 1, ready |-> store.ready,
                      at |-> [store.at EXCEPT ![d] = IF gone THEN 0 ELSE now + 1]]
         /\ Publish(IF kind = "state"
                    THEN [type |-> "state", seq |-> store.seq + 1, device |-> d,
                          at |-> now + 1]
                    ELSE InventoryEvent(store.seq + 1),
                    kind = "health")
  BY DEF Change
<1> DEFINE e == IF kind = "state"
                THEN [type |-> "state", seq |-> store.seq + 1, device |-> d, at |-> now + 1]
                ELSE InventoryEvent(store.seq + 1)
<1>2. now' = now + 1 /\ now + 1 \in Times
  BY StateTyped, DeviceFeedAssumption DEF Change, Times
<1>3. e \in Events
  <2>1. store.seq + 1 \in Nat
    BY StateTyped
  <2>2. CASE kind = "state"
    BY <1>2, <2>1, <2>2 DEF Events
  <2>3. CASE kind # "state"
    BY <2>1, <2>3, InventoryEventIsOne
  <2> QED BY <2>2, <2>3
<1>4. store' \in Inventories
  BY <1>1, <1>2, StateTyped DEF Inventories
<1> HIDE DEF e
<1>5. /\ waiting' \in Nat \cup {None} /\ chunks' \in Seq(Events)
      /\ Len(chunks') <= MaxPending /\ blocked' \in BOOLEAN /\ wire' \in Seq(Events)
  <2>1. CASE open
    <3>1. Becomes(Write(Writer, e, kind = "health"))
      BY <1>1, <2>1 DEF Publish, e
    <3>2. Write(Writer, e, kind = "health") \in Writers
      BY <1>3, WriterIsOne, WriteDelivers
    <3> QED BY <3>1, <3>2, WriterAfter
  <2>2. CASE ~open
    BY <1>1, <2>2 DEF Publish, writerVars, TypeOK
  <2> QED BY <2>1, <2>2
<1>6. ~open => wire' = wire /\ chunks' = chunks /\ waiting' = waiting
  BY <1>1 DEF Publish, writerVars
<1>7. /\ up' = up /\ open' = open /\ disk' = disk /\ stage' = stage /\ answer' = answer
      /\ event' = event /\ catchUp' = catchUp /\ replica' = replica
      /\ complete' = complete /\ breaks' = breaks
  BY DEF Change, loopVars
<1>8. TypeOK'
  BY <1>2, <1>4, <1>5, <1>7 DEF TypeOK
<1>9. Phases'
  BY <1>6, <1>7 DEF Phases
<1> QED BY <1>8, <1>9

LEMMA BridgeTyped ==
  ASSUME Typed, ~SlowHandOver,
         ReadyChanges \/ Persist \/ Crash \/ Restart \/ CoalesceElapsed \/ Block \/ Drain
  PROVE  Typed'
<1> USE DEF Typed, writerVars, loopVars
<1>1. CASE ReadyChanges
  <2>1. store' \in Inventories
    BY <1>1 DEF ReadyChanges, TypeOK, Inventories
  <2> QED BY <1>1, <2>1 DEF ReadyChanges, TypeOK, Phases
<1>2. CASE Persist
  <2>1. disk' \in Inventories
    BY <1>2 DEF Persist, TypeOK, Inventories
  <2> QED BY <1>2, <2>1 DEF Persist, TypeOK, Phases
<1>3. CASE Crash
  <2>1. CloseStream
    BY <1>3 DEF Crash
  <2>2. breaks' \in 0..MaxBreaks
    BY <1>3, DeviceFeedAssumption DEF Crash, TypeOK
  <2> QED BY <1>3, <2>1, <2>2, NothingTyped DEF Crash, CloseStream, TypeOK, Phases
<1>4. CASE Restart
  BY <1>4 DEF Restart, TypeOK, Phases
<1>5. CASE CoalesceElapsed
  <2>1. FlushPending(Writer, store.seq) \in Writers
    BY WriterIsOne, StateTyped, FlushDelivers DEF Delivers
  <2>2. /\ waiting' \in Nat \cup {None} /\ chunks' \in Seq(Events)
        /\ Len(chunks') <= MaxPending /\ blocked' \in BOOLEAN /\ wire' \in Seq(Events)
    BY <1>5, <2>1, WriterAfter DEF CoalesceElapsed
  <2> QED BY <1>5, <2>2 DEF CoalesceElapsed, TypeOK, Phases
<1>6. CASE Block
  BY <1>6 DEF Block, TypeOK, Phases
<1>7. CASE Drain
  <2>1. /\ wire' \in Seq(Events) /\ chunks' \in Seq(Events) /\ Len(chunks') <= MaxPending
    BY <1>7, ConcatElements, SmallElements, DeviceFeedAssumption DEF Drain, TypeOK
  <2> QED BY <1>7, <2>1 DEF Drain, TypeOK, Phases
<1> QED BY <1>1, <1>2, <1>3, <1>4, <1>5, <1>6, <1>7

LEMMA LoopTyped ==
  ASSUME Typed,
         Fetch \/ Reconnect \/ OpenStream \/ Handle \/ Serve \/ Resume \/ Disconnect
           \/ EntityFetch \/ EntityApply
  PROVE  Typed'
<1> USE DEF Typed, writerVars, loopVars
<1>0. None \notin Inventories /\ None \notin Events
  BY NoneAssumption
<1>1. CASE Fetch
  BY <1>1, <1>0 DEF Fetch, TypeOK, Phases
<1>2. CASE Reconnect
  <2>1. replica' \in Replicas /\ complete' \in BOOLEAN
    BY <1>2, ApplyingApplies, AppliesTyped, StateTyped DEF Reconnect, TypeOK, Phases
  <2> QED BY <1>2, <2>1 DEF Reconnect, TypeOK, Phases, Replicas
<1>3. CASE OpenStream
  <2> DEFINE empty == [w |-> None, c |-> <<>>, b |-> FALSE, out |-> <<>>]
  <2>1. empty \in Writers
    BY SmallElements, DeviceFeedAssumption DEF Writers
  <2> HIDE DEF empty
  <2>2. Write(empty, InventoryEvent(store.seq), TRUE) \in Writers
    BY <2>1, StateTyped, InventoryEventIsOne, WriteDelivers
  <2>3. /\ waiting' \in Nat \cup {None} /\ chunks' \in Seq(Events)
        /\ Len(chunks') <= MaxPending /\ blocked' \in BOOLEAN /\ wire' \in Seq(Events)
    BY <1>3, <2>2, WriterAfter DEF OpenStream, empty
  <2> QED BY <1>3, <2>3 DEF OpenStream, TypeOK, Phases
<1>4. CASE Handle
  <2>1. Head(wire) \in Events /\ wire' \in Seq(Events)
    BY <1>4, HeadElements DEF Handle, TypeOK
  <2>2. CASE MustFetch(Head(wire))
    BY <1>4, <2>1, <2>2, <1>0 DEF Handle, TypeOK, Phases
  <2>3. CASE ~MustFetch(Head(wire))
    <3>1. replica' \in Replicas
      <4>1. CASE replica' = replica
        BY <4>1, StateTyped
      <4>2. CASE replica' # replica
        <5> DEFINE e == Head(wire)
        <5>1. replica' = [seq |-> e.seq, at |-> [replica.at EXCEPT ![e.device] = e.at]]
          BY <1>4, <2>3, <4>2 DEF Handle, ApplyState
        <5>2. e.seq \in Nat /\ e.at \in Times
          BY <2>1 DEF Events
        <5> HIDE DEF e
        <5> QED BY <5>1, <5>2, StateTyped DEF Replicas
      <4> QED BY <4>1, <4>2
    <3> QED BY <1>4, <2>1, <2>3, <3>1 DEF Handle, TypeOK, Phases, Replicas
  <2> QED BY <2>2, <2>3
<1>5. CASE Serve
  BY <1>5, <1>0 DEF Serve, TypeOK, Phases
<1>6. CASE Resume
  <2>1. replica' \in Replicas /\ complete' \in BOOLEAN
    BY <1>6, ApplyingApplies, AppliesTyped, StateTyped DEF Resume, TypeOK, Phases
  <2>2. event \in Events
    BY <1>6 DEF Resume, TypeOK, Phases
  <2>3. wire' \in Seq(Events)
    <3>1. <<event>> \in Seq(Events) /\ <<event>> \o wire \in Seq(Events)
      BY <2>2, SmallElements, ConcatElements DEF TypeOK
    <3> QED BY <1>6, <3>1 DEF Resume, TypeOK
  <2> QED BY <1>6, <2>1, <2>3 DEF Resume, TypeOK, Phases, Replicas
<1>7. CASE Disconnect
  <2>1. breaks' \in 0..MaxBreaks
    BY <1>7, DeviceFeedAssumption DEF Disconnect, TypeOK
  <2> QED BY <1>7, <2>1, NothingTyped DEF Disconnect, CloseStream, TypeOK, Phases
<1>8. CASE EntityFetch
  BY <1>8, <1>0 DEF EntityFetch, TypeOK, Phases
<1>9. CASE EntityApply
  <2>1. replica' \in Replicas /\ complete' \in BOOLEAN
    BY <1>9, ApplyingApplies, AppliesTyped, StateTyped DEF EntityApply, TypeOK
  <2> QED BY <1>9, <2>1 DEF EntityApply, TypeOK, Phases, Replicas
<1> QED BY <1>1, <1>2, <1>3, <1>4, <1>5, <1>6, <1>7, <1>8, <1>9

-----------------------------------------------------------------------------
(* What the integration has, while the bridge works. *)

Rest(last) == Past /\ Served /\ Announced /\ Known(last)

(* A step that only moves what the writer holds. *)
LEMMA RestKept ==
  ASSUME NEW last, Rest(last), store.seq \in Nat,
         store'.seq = store.seq, store'.at = store.at,
         \A d \in Device : disk'.at[d] <= now,
         UNCHANGED <<now, open, stage, answer, event, catchUp, replica, complete>>,
         Pending' \subseteq Pending \cup {InventoryEvent(store.seq)},
         Pending \subseteq Pending' \/ InventoryEvent(store.seq) \in Pending'
  PROVE  Rest(last)'
<1>1. Past' /\ Served'
  BY DEF Rest, Past, Served, Overtaking
<1>2. /\ InventoryEvent(store.seq).seq = store.seq
      /\ InventoryEvent(store.seq).type = "inventory"
  BY InventoryEventIsOne
<1>3. Announced'
  BY <1>2 DEF Rest, Announced
<1>4. \A e \in Pending' : Genuine(e, last)'
  BY <1>2 DEF Rest, Known, Genuine
<1>5. /\ answer' # None => Sound(answer, last)'
      /\ catchUp' # None => Sound(catchUp, last)'
  BY DEF Rest, Known, Sound
<1>6. Alive' => Behind(last)'
  BY DEF Rest, Known, Alive, Behind
<1> QED BY <1>1, <1>3, <1>4, <1>5, <1>6 DEF Rest, Known

LEMMA WritingKeepsRest ==
  ASSUME Typed, NEW last, Rest(last),
         ReadyChanges \/ Persist \/ CoalesceElapsed \/ Block \/ Drain
  PROVE  Rest(last)' /\ store'.seq = store.seq
<1> USE DEF writerVars, loopVars
<1>1. store.seq \in Nat /\ store \in Inventories /\ \A d \in Device : disk.at[d] <= now
  BY StateTyped DEF Typed, Rest, Past
<1>2. CASE ReadyChanges
  <2>1. store'.seq = store.seq /\ store'.at = store.at
    BY <1>1, <1>2 DEF ReadyChanges, Inventories
  <2>2. Pending' = Pending
    BY <1>2, WriterSame DEF ReadyChanges, Pending
  <2> QED BY <1>1, <1>2, <2>1, <2>2, RestKept DEF ReadyChanges
<1>3. CASE Persist
  <2>1. \A d \in Device : disk'.at[d] <= now
    BY <1>1, <1>3 DEF Persist, Inventories, Rest, Past
  <2>2. Pending' = Pending
    BY <1>3, WriterSame DEF Persist, Pending
  <2> QED BY <1>1, <1>3, <2>1, <2>2, RestKept DEF Persist
<1>4. CASE CoalesceElapsed
  <2> DEFINE next == FlushPending(Writer, store.seq)
  <2>1. Delivers(Writer, next, {}, store.seq)
    BY <1>1, WriterIsOne, FlushDelivers DEF Typed
  <2>2. Becomes(next)
    BY <1>4 DEF CoalesceElapsed
  <2> HIDE DEF next
  <2>3. Held(Writer)' = Held(next)
    BY <2>1, <2>2, WriterAfter DEF Delivers
  <2>4. event' = event
    BY <1>4 DEF CoalesceElapsed
  <2>5. /\ Pending' \subseteq Pending \cup {InventoryEvent(store.seq)}
        /\ Pending \subseteq Pending' \/ InventoryEvent(store.seq) \in Pending'
    BY <2>1, <2>3, <2>4 DEF Delivers, Pending
  <2> QED BY <1>1, <1>4, <2>5, RestKept DEF CoalesceElapsed
<1>5. CASE Block
  <2>1. Pending' = Pending
    BY <1>5 DEF Block, Pending, Writer, Held
  <2> QED BY <1>1, <1>5, <2>1, RestKept DEF Block
<1>6. CASE Drain
  <2>1. Elements(wire') = Elements(wire) \cup Elements(chunks) /\ Elements(chunks') = {}
    <3>1. wire' = wire \o chunks /\ chunks' = <<>>
      BY <1>6 DEF Drain
    <3>2. wire \in Seq(Events) /\ chunks \in Seq(Events)
      BY DEF Typed, TypeOK
    <3>3. Elements(<<>>) = {}
      BY DEF Elements
    <3> QED BY <3>1, <3>2, <3>3, ConcatElements
  <2>2. Pending' = Pending
    BY <1>6, <2>1 DEF Drain, Pending, Writer, Held
  <2> QED BY <1>1, <1>6, <2>2, RestKept DEF Drain
<1> QED BY <1>2, <1>3, <1>4, <1>5, <1>6

LEMMA ChangeKeepsRest ==
  ASSUME Typed, NEW last \in [Device -> 0..store.seq], Rest(last), Change
  PROVE  \E later \in [Device -> 0..store'.seq] : Rest(later)'
<1>1. PICK d \in Device, kind \in {"state", "health", "inventory"}, gone \in BOOLEAN :
         /\ gone => kind = "inventory"
         /\ store' = [seq |-> store.seq + 1, ready |-> store.ready,
                      at |-> [store.at EXCEPT ![d] = IF gone THEN 0 ELSE now + 1]]
         /\ Publish(IF kind = "state"
                    THEN [type |-> "state", seq |-> store.seq + 1, device |-> d,
                          at |-> now + 1]
                    ELSE InventoryEvent(store.seq + 1),
                    kind = "health")
  BY DEF Change
<1> DEFINE e == IF kind = "state"
                THEN [type |-> "state", seq |-> store.seq + 1, device |-> d, at |-> now + 1]
                ELSE InventoryEvent(store.seq + 1)
<1>2. /\ store.seq \in Nat /\ store.at \in [Device -> Times] /\ now \in Nat
      /\ Times \subseteq Nat /\ now + 1 \in Times /\ now' = now + 1
      /\ replica.seq \in Nat /\ replica.at \in [Device -> Times]
      /\ disk \in Inventories
  BY StateTyped, DeviceFeedAssumption DEF Typed, Change, Times
<1>3. /\ open' = open /\ disk' = disk /\ stage' = stage /\ answer' = answer
      /\ event' = event /\ catchUp' = catchUp /\ replica' = replica /\ complete' = complete
  BY DEF Change, loopVars
<1>4. /\ store'.seq = store.seq + 1
      /\ store'.at[d] = IF gone THEN 0 ELSE now + 1
      /\ \A c \in Device \ {d} : store'.at[c] = store.at[c]
  BY <1>1, <1>2
<1>0. /\ \A c \in Device : last[c] \in Nat /\ last[c] <= store.seq
      /\ [last EXCEPT ![d] = store.seq + 1] \in [Device -> 0..store'.seq]
  BY <1>2, <1>4
<1>5. PICK later \in [Device -> 0..store'.seq] :
         /\ later[d] = store.seq + 1
         /\ \A c \in Device \ {d} : later[c] = last[c]
  BY <1>0
<1>6. /\ InventoryEvent(store.seq + 1) \in Events
      /\ InventoryEvent(store.seq + 1).seq = store.seq + 1
      /\ InventoryEvent(store.seq + 1).type = "inventory"
  BY <1>2, InventoryEventIsOne
<1>7. /\ e \in Events /\ e.seq = store.seq + 1
      /\ e.type = "state" => e.device = d /\ e.at = now + 1 /\ ~gone
  <2>1. CASE kind = "state"
    BY <1>1, <1>2, <2>1 DEF Events
  <2>2. CASE kind # "state"
    BY <1>6, <2>2
  <2> QED BY <2>1, <2>2
<1> HIDE DEF e
<1>8. /\ Pending' \subseteq Pending \cup {e, InventoryEvent(store.seq + 1)}
      /\ open => \E x \in Pending' : x.seq = store.seq + 1
  <2>1. CASE open
    <3> DEFINE next == Write(Writer, e, kind = "health")
    <3>1. Becomes(next)
      BY <1>1, <2>1 DEF Publish, e
    <3>2. /\ next \in Writers
          /\ Held(next) \subseteq Held(Writer) \cup {e, InventoryEvent(e.seq)}
          /\ \E x \in Held(next) : x.seq = e.seq
      BY <1>7, WriterIsOne, WriteDelivers DEF Typed
    <3> HIDE DEF next
    <3>3. Held(Writer)' = Held(next)
      BY <3>1, <3>2, WriterAfter
    <3> QED BY <1>3, <1>7, <3>2, <3>3 DEF Pending
  <2>2. CASE ~open
    <3>1. Held(Writer)' = Held(Writer)
      BY <1>1, <2>2, WriterSame DEF Publish
    <3> QED BY <1>3, <2>2, <3>1 DEF Pending
  <2> QED BY <2>1, <2>2
<1>9. Past'
  <2>1. ASSUME NEW c \in Device
        PROVE  store'.at[c] <= now' /\ replica'.at[c] <= now' /\ disk'.at[c] <= now'
    <3>1. /\ store.at[c] <= now /\ replica.at[c] <= now /\ disk.at[c] <= now
          /\ store.at[c] \in Nat /\ replica.at[c] \in Nat /\ disk.at[c] \in Nat
      BY <1>2 DEF Rest, Past, Inventories
    <3> QED BY <1>2, <1>3, <1>4, <3>1
  <2> QED BY <2>1 DEF Past
<1>10. Served'
  <2>1. CASE stage = "fetched"
    <3>1. answer # None /\ answer \in Inventories
      BY <2>1 DEF Typed, Phases, TypeOK
    <3>2. /\ \A c \in Device : replica.at[c] + store.seq <= now + answer.seq
          /\ catchUp # None => catchUp.seq <= answer.seq
      BY <2>1 DEF Rest, Served, Overtaking
    <3>3. \A c \in Device : replica.at[c] \in Nat
      BY <1>2
    <3>4. answer.seq \in Nat
      BY <3>1 DEF Inventories
    <3>5. \A c \in Device : replica'.at[c] + store'.seq <= now' + answer'.seq
      BY <1>2, <1>3, <1>4, <3>2, <3>3, <3>4
    <3> QED BY <1>3, <2>1, <3>2, <3>5 DEF Served, Overtaking
  <2>2. CASE stage # "fetched"
    BY <1>3, <2>2 DEF Rest, Served
  <2> QED BY <2>1, <2>2
<1>11. Announced'
  BY <1>3, <1>4, <1>8 DEF Announced
<1>12. ASSUME NEW x \in Inventories, Sound(x, last)
       PROVE  /\ x.seq <= store'.seq
              /\ \A c \in Device : /\ x.at[c] + store'.seq <= now' + x.seq
                                   /\ x.at[c] # store'.at[c] => later[c] > x.seq
  <2>1. x.seq \in Nat /\ x.at \in [Device -> Times] /\ x.seq <= store.seq
    BY <1>12 DEF Inventories, Sound
  <2>2. ASSUME NEW c \in Device
        PROVE  /\ x.at[c] + store'.seq <= now' + x.seq
               /\ x.at[c] # store'.at[c] => later[c] > x.seq
    <3>1. x.at[c] \in Nat /\ x.at[c] + store.seq <= now + x.seq
      BY <1>2, <1>12, <2>1 DEF Sound
    <3>2. c # d /\ x.at[c] # store.at[c] => later[c] > x.seq
      BY <1>5, <1>12 DEF Sound
    <3> QED BY <1>2, <1>4, <1>5, <2>1, <3>1, <3>2
  <2> QED BY <1>2, <1>4, <2>1, <2>2
<1>13. /\ answer' # None => Sound(answer, later)'
       /\ catchUp' # None => Sound(catchUp, later)'
  <2>2. /\ answer # None => answer \in Inventories /\ Sound(answer, last)
        /\ catchUp # None => catchUp \in Inventories /\ Sound(catchUp, last)
    BY DEF Rest, Known, Typed, TypeOK
  <2> QED BY <1>3, <1>12, <2>2 DEF Sound
<1>14. Alive' => Behind(later)'
  <2>1. SUFFICES ASSUME Alive' PROVE Behind(later)'
    OBVIOUS
  <2>2. Behind(last)
    BY <1>3, <2>1 DEF Rest, Known, Alive
  <2>3. ASSUME NEW c \in Device
        PROVE  /\ replica'.at[c] + store'.seq <= now' + replica'.seq
               /\ replica'.at[c] < store'.at[c] => later[c] > replica'.seq
               /\ complete' /\ replica'.at[c] > 0 /\ store'.at[c] = 0
                    => later[c] > replica'.seq
    <3>1. replica.at[c] \in Nat /\ replica.at[c] + store.seq <= now + replica.seq
      BY <1>2, <2>2 DEF Behind
    <3>2. CASE c = d
      BY <1>2, <1>3, <1>4, <1>5, <2>2, <3>1, <3>2 DEF Behind
    <3>3. CASE c # d
      BY <1>2, <1>3, <1>4, <1>5, <2>2, <3>1, <3>3 DEF Behind
    <3> QED BY <3>2, <3>3
  <2> QED BY <1>2, <1>3, <1>4, <2>2, <2>3 DEF Behind
<1>15. ASSUME NEW x \in Pending' PROVE Genuine(x, later)'
  <2>1. CASE x = e
    BY <1>2, <1>4, <1>5, <1>7, <2>1 DEF Genuine
  <2>2. CASE x = InventoryEvent(store.seq + 1)
    BY <1>2, <1>4, <1>6, <2>2 DEF Genuine
  <2>3. CASE x \in Pending
    <3>1. Genuine(x, last)
      BY <2>3 DEF Rest, Known
    <3>2. x \in Events
      BY <2>3, PendingTyped DEF Typed
    <3>3. x.seq \in Nat /\ x.at \in Nat
      BY <1>2, <3>2 DEF Events
    <3> QED BY <1>2, <1>4, <1>5, <3>1, <3>3 DEF Genuine
  <2> QED BY <1>8, <2>1, <2>2, <2>3
<1> QED BY <1>5, <1>9, <1>10, <1>11, <1>13, <1>14, <1>15 DEF Rest, Known

(* A closed stream holds nothing. *)
LEMMA NothingPending ==
  ASSUME wire = <<>>, chunks = <<>>, waiting = None, event = None
  PROVE  Pending = {}
BY DEF Pending, Held, Writer, Elements

LEMMA LosingKeepsRest ==
  ASSUME Typed, ~SlowHandOver, NEW last, Rest(last), Crash \/ Disconnect
  PROVE  Rest(last)' /\ store' = store
<1>1. /\ CloseStream /\ UNCHANGED <<store, disk, now, replica, complete>>
      /\ catchUp' = None \/ catchUp' = catchUp
  BY DEF Crash, Disconnect
<1>2. Pending' = {}
  BY <1>1, NothingPending DEF CloseStream, Pending, Held, Writer, Elements
<1>3. ~Alive' /\ answer' = None /\ stage' = "down" /\ open' = FALSE
  BY <1>1 DEF CloseStream, Alive
<1>4. Past' /\ Served' /\ Announced'
  BY <1>1, <1>3 DEF Rest, Past, Served, Announced
<1>5. catchUp' # None => Sound(catchUp, last)'
  BY <1>1 DEF Rest, Known, Sound
<1> QED BY <1>1, <1>2, <1>3, <1>4, <1>5 DEF Rest, Known

LEMMA RestartKeepsRest ==
  ASSUME Typed, NEW last, Rest(last), Restart
  PROVE  \E later \in [Device -> 0..store'.seq] : Rest(later)'
<1>1. /\ store' = disk /\ store'.seq \in Nat
      /\ UNCHANGED <<disk, now, open, writerVars, wire, loopVars, catchUp, replica, complete>>
  BY StateTyped DEF Restart, Typed, Inventories
<1>2. /\ stage = "down" /\ ~open /\ answer = None /\ event = None /\ catchUp = None
      /\ wire = <<>> /\ chunks = <<>> /\ waiting = None
  BY DEF Restart, Typed, Phases
<1>3. [d \in Device |-> 0] \in [Device -> 0..store'.seq]
  BY <1>1
<1>4. PICK later \in [Device -> 0..store'.seq] : TRUE
  BY <1>3
<1>5. Pending' = {}
  BY <1>1, <1>2 DEF Pending, Held, Writer, Elements, writerVars, loopVars
<1>6. Past' /\ Served' /\ Announced'
  BY <1>1, <1>2 DEF Rest, Past, Served, Announced, loopVars
<1>7. answer' = None /\ catchUp' = None /\ ~Alive'
  BY <1>1, <1>2 DEF Alive, loopVars
<1> QED BY <1>4, <1>5, <1>6, <1>7 DEF Rest, Known

(* An inventory the bridge answers now. *)
LEMMA StoreIsSound ==
  ASSUME Typed, NEW last, Rest(last)
  PROVE  Sound(store, last)
<1>1. \A d \in Device : store.at[d] \in Nat /\ store.at[d] <= now
  BY StateTyped DEF Typed, Rest, Past
<1> QED BY <1>1, StateTyped DEF Sound, Typed

LEMMA FetchingKeepsRest ==
  ASSUME Typed, NEW last, Rest(last), Fetch \/ Serve \/ EntityFetch
  PROVE  Rest(last)' /\ store' = store
<1>1. UNCHANGED <<store, disk, now, open, writerVars, wire, event, replica, complete>>
  BY DEF Fetch, Serve, EntityFetch, loopVars
<1>2. Pending' = Pending
  BY <1>1, WriterSame DEF Pending
<1>3. /\ answer' = store \/ answer' = answer
      /\ catchUp' = store \/ catchUp' = catchUp
      /\ stage' = stage \/ stage' = "fetched"
  <2>1. CASE Fetch
    BY <2>1 DEF Fetch
  <2>2. CASE Serve
    BY <2>2 DEF Serve
  <2>3. CASE EntityFetch
    BY <2>3 DEF EntityFetch, loopVars
  <2> QED BY <2>1, <2>2, <2>3
<1>4. Past' /\ Announced' /\ (\A e \in Pending' : Genuine(e, last)')
  BY <1>1, <1>2, <1>3 DEF Rest, Past, Announced, Known, Genuine
<1>5. Alive' => Behind(last)'
  BY <1>1, <1>3 DEF Rest, Known, Alive, Behind
<1>6. /\ answer' # None => Sound(answer, last)'
      /\ catchUp' # None => Sound(catchUp, last)'
  BY <1>1, <1>3, StoreIsSound DEF Rest, Known, Sound
<1>7. Served'
  <2>1. CASE Fetch
    <3>1. answer' = store /\ stage' = "fetched" /\ catchUp' = catchUp
      BY <2>1 DEF Fetch
    <3>2. catchUp # None => catchUp.seq <= store.seq
      BY DEF Rest, Known, Sound
    <3>3. \A d \in Device : replica.at[d] \in Nat /\ replica.at[d] <= now
      BY StateTyped DEF Typed, Rest, Past
    <3>4. \A d \in Device : replica'.at[d] + store'.seq <= now' + answer'.seq
      BY <1>1, <3>1, <3>3, StateTyped DEF Typed
    <3> QED BY <1>1, <3>1, <3>2, <3>4 DEF Served, Overtaking
  <2>2. CASE Serve
    <3>1. event \in Events /\ stage' = "handling" /\ answer' = store
      BY <2>2 DEF Serve, Typed, TypeOK, Phases
    <3>2. Genuine(event, last)
      BY <3>1, NoneAssumption DEF Rest, Known, Pending
    <3>3. event.seq <= store.seq /\ event.seq \in Nat /\ store.seq \in Nat
      BY <3>1, <3>2, StateTyped DEF Genuine, Events, Typed
    <3> QED BY <1>1, <3>1, <3>3 DEF Served
  <2>3. CASE EntityFetch
    <3>1. stage' # "fetched" /\ answer' = answer /\ stage' = stage /\ event' = event
      BY <2>3 DEF EntityFetch, loopVars
    <3> QED BY <3>1 DEF Rest, Served
  <2> QED BY <2>1, <2>2, <2>3
<1> QED BY <1>1, <1>4, <1>5, <1>6, <1>7 DEF Rest, Known

-----------------------------------------------------------------------------
(* What the integration has after an inventory. *)

LEMMA AppliedIsPast ==
  ASSUME Typed, NEW last, Rest(last), NEW x \in Inventories, NEW reset \in BOOLEAN,
         Sound(x, last), Applies(x, reset), UNCHANGED <<store, disk, now>>
  PROVE  Past'
<1>1. ASSUME NEW d \in Device
      PROVE  replica'.at[d] <= now
  <2>1. x.seq \in Nat /\ x.at[d] \in Nat /\ replica.at[d] \in Nat /\ now \in Nat
        /\ store.seq \in Nat
    BY StateTyped DEF Typed, Inventories
  <2>2. x.at[d] <= now /\ replica.at[d] <= now
    BY <2>1 DEF Rest, Past, Sound
  <2>3. replica'.at[d] \in {0, x.at[d], replica.at[d]}
    BY DEF Applies, Newer
  <2> QED BY <2>1, <2>2, <2>3
<1> QED BY <1>1 DEF Rest, Past

LEMMA AppliedIsBehind ==
  ASSUME Typed, NEW last \in [Device -> 0..store.seq],
         NEW x \in Inventories, NEW reset \in BOOLEAN,
         Sound(x, last), Applies(x, reset), UNCHANGED <<store, now>>,
         reset => \A d \in Device : replica.at[d] + store.seq <= now + x.seq,
         ~reset => Behind(last)
  PROVE  Behind(last)'
<1>1. CASE ~reset /\ x.seq < replica.seq
  <2>1. replica' = replica /\ complete' = complete
    BY <1>1, StateTyped DEF Applies, Typed, Inventories
  <2> QED BY <1>1, <2>1 DEF Behind
<1>2. CASE ~(~reset /\ x.seq < replica.seq)
  <2>1. /\ reset \/ x.seq >= replica.seq
        /\ replica' \in Replicas /\ replica'.seq = x.seq
        /\ \A d \in Device : \/ replica'.at[d] = Newer(x.at[d], replica.at[d])
                             \/ replica'.at[d] = 0 /\ x.at[d] = 0
        /\ complete' => \/ \A d \in Device : replica'.at[d] > 0 => x.at[d] > 0
                        \/ ~reset /\ complete /\ x.seq = replica.seq
    BY <1>2 DEF Applies
  <2>2. x.seq \in Nat /\ replica.seq \in Nat /\ store.seq \in Nat /\ now \in Nat
    BY StateTyped DEF Typed, Inventories
  <2>3. ASSUME NEW d \in Device
        PROVE  /\ replica'.at[d] + store'.seq <= now' + replica'.seq
               /\ replica'.at[d] < store'.at[d] => last[d] > replica'.seq
               /\ complete' /\ replica'.at[d] > 0 /\ store'.at[d] = 0
                    => last[d] > replica'.seq
    <3>1. /\ x.at[d] \in Nat /\ replica.at[d] \in Nat /\ store.at[d] \in Nat
          /\ last[d] \in Nat
      BY <2>2, StateTyped DEF Typed, Inventories
    <3>2. /\ x.at[d] + store.seq <= now + x.seq
          /\ x.at[d] # store.at[d] => last[d] > x.seq
      BY DEF Sound
    <3>3. replica.at[d] + store.seq <= now + x.seq
      BY <2>1, <2>2, <3>1 DEF Behind
    <3>4. /\ replica'.at[d] \in {0, x.at[d], replica.at[d]}
          /\ replica'.at[d] >= x.at[d]
          /\ x.at[d] = 0 => replica'.at[d] = 0 \/ replica'.at[d] = replica.at[d]
      BY <2>1, <3>1 DEF Newer
    <3>5. replica'.at[d] + store.seq <= now + x.seq
      <4>1. 0 + store.seq <= now + x.seq
        BY <2>2, <3>1, <3>2
      <4> QED BY <3>2, <3>3, <3>4, <4>1
    <3>6. replica'.at[d] < store.at[d] => last[d] > x.seq
      BY <3>1, <3>2, <3>4
    <3>7. ASSUME complete', replica'.at[d] > 0, store.at[d] = 0
          PROVE  last[d] > x.seq
      <4>1. CASE x.at[d] > 0
        BY <3>1, <3>2, <3>7, <4>1
      <4>2. CASE ~(x.at[d] > 0)
        <5>1. x.at[d] = 0
          BY <3>1, <4>2
        <5>2. ~reset /\ complete /\ x.seq = replica.seq
          BY <2>1, <3>7, <4>2
        <5>3. replica.at[d] > 0
          BY <3>1, <3>4, <3>7, <5>1
        <5> QED BY <3>7, <5>2, <5>3 DEF Behind
      <4> QED BY <4>1, <4>2
    <3> QED BY <2>1, <3>5, <3>6, <3>7
  <2>4. replica'.seq <= store'.seq
    BY <2>1 DEF Sound
  <2> QED BY <2>3, <2>4 DEF Behind
<1> QED BY <1>1, <1>2

LEMMA ReconnectKeepsRest ==
  ASSUME Typed, NEW last \in [Device -> 0..store.seq], Rest(last), Reconnect
  PROVE  Rest(last)' /\ store' = store
<1>1. /\ stage = "fetched" /\ stage' = "opening" /\ answer' = None
      /\ UNCHANGED <<store, disk, now, open, writerVars, wire, event, catchUp>>
      /\ answer # None /\ answer \in Inventories /\ Sound(answer, last)
      /\ ApplyInventory(answer, TRUE) /\ open = FALSE
  BY DEF Reconnect, Typed, Phases, TypeOK, Rest, Known
<1>2. Applies(answer, TRUE)
  BY <1>1, ApplyingApplies, StateTyped DEF Typed, TypeOK
<1>3. \A d \in Device : replica.at[d] + store.seq <= now + answer.seq
  BY <1>1 DEF Rest, Served, Overtaking
<1>4. Behind(last)' /\ Past'
  BY <1>1, <1>2, <1>3, AppliedIsBehind, AppliedIsPast
<1>5. Pending' = Pending
  BY <1>1, WriterSame DEF Pending
<1>6. Served' /\ Announced'
  BY <1>1 DEF Served, Announced
<1>7. /\ catchUp' # None => Sound(catchUp, last)'
      /\ \A e \in Pending' : Genuine(e, last)'
  BY <1>1, <1>5 DEF Rest, Known, Sound, Genuine
<1> QED BY <1>1, <1>4, <1>6, <1>7 DEF Rest, Known

LEMMA OpenStreamKeepsRest ==
  ASSUME Typed, NEW last, Rest(last), OpenStream
  PROVE  Rest(last)' /\ store' = store
<1> DEFINE empty == [w |-> None, c |-> <<>>, b |-> FALSE, out |-> <<>>]
           next == Write(empty, InventoryEvent(store.seq), TRUE)
<1>1. /\ stage = "opening" /\ stage' = "idle" /\ Becomes(next)
      /\ UNCHANGED <<store, disk, now, answer, event, catchUp, replica, complete>>
      /\ event = None /\ answer = None
  BY DEF OpenStream, Typed, Phases
<1>2. empty \in Writers /\ Held(empty) = {}
  <2>1. empty \in Writers
    BY NothingTyped DEF Writers
  <2>2. Elements(<<>>) = {}
    BY DEF Elements
  <2> QED BY <2>1, <2>2 DEF Held
<1>3. /\ InventoryEvent(store.seq) \in Events /\ InventoryEvent(store.seq).seq = store.seq
      /\ InventoryEvent(store.seq).type = "inventory" /\ store.seq \in Nat
  BY StateTyped, InventoryEventIsOne DEF Typed
<1> HIDE DEF empty
<1>4. /\ next \in Writers
      /\ Held(next) \subseteq Held(empty) \cup {InventoryEvent(store.seq)}
      /\ \E x \in Held(next) : x.seq = store.seq
  <2> DEFINE e == InventoryEvent(store.seq)
  <2>1. e \in Events /\ e.seq = store.seq /\ TRUE \in BOOLEAN
    BY <1>3
  <2> HIDE DEF e
  <2>2. /\ Write(empty, e, TRUE) \in Writers
        /\ Held(Write(empty, e, TRUE)) \subseteq Held(empty) \cup {e, InventoryEvent(e.seq)}
        /\ \E x \in Held(Write(empty, e, TRUE)) : x.seq = e.seq
    BY <1>2, <2>1, WriteDelivers
  <2> QED BY <2>1, <2>2 DEF e
<1> HIDE DEF next
<1>5. Held(Writer)' = Held(next)
  BY <1>1, <1>4, WriterAfter
<1>6. Pending' \subseteq {InventoryEvent(store.seq)} /\ \E x \in Pending' : x.seq = store.seq
  BY <1>1, <1>2, <1>4, <1>5 DEF Pending
<1>7. \A e \in Pending' : Genuine(e, last)'
  BY <1>1, <1>3, <1>6 DEF Genuine
<1>8. Past' /\ Served' /\ Announced'
  BY <1>1, <1>6 DEF Rest, Past, Served, Announced
<1>9. Behind(last)' /\ (catchUp' # None => Sound(catchUp, last)')
  BY <1>1 DEF Rest, Known, Sound, Behind, Alive
<1> QED BY <1>1, <1>7, <1>8, <1>9 DEF Rest, Known

(* An event that needs no request: it is old, or it is the next one and is *)
(* applied.                                                                *)
LEMMA NextIsApplied ==
  ASSUME Typed, NEW last, Behind(last), NEW e \in Events, Genuine(e, last), ~MustFetch(e),
         IF e.type = "state" THEN ApplyState(e) ELSE UNCHANGED replica
  PROVE  \/ e.seq <= replica.seq /\ replica' = replica
         \/ /\ e.type = "state" /\ e.seq = replica.seq + 1 /\ e.at > 0
            /\ replica' = [seq |-> e.seq, at |-> [replica.at EXCEPT ![e.device] = e.at]]
<1>1. /\ e.seq \in Nat /\ e.at \in Nat /\ e.type \in {"state", "inventory"}
      /\ replica.seq \in Nat /\ now \in Nat /\ store.seq \in Nat
      /\ \A d \in Device : replica.at[d] \in Nat
  BY StateTyped DEF Typed, Events
<1>2. CASE e.seq <= replica.seq
  <2>1. ~(e.seq > replica.seq)
    BY <1>1, <1>2
  <2> QED BY <1>2, <2>1 DEF ApplyState
<1>3. CASE ~(e.seq <= replica.seq)
  <2>1. /\ e.type = "state" /\ ~(e.seq > replica.seq + 1) /\ replica.at[e.device] # 0
        /\ e.seq > replica.seq
    BY <1>1, <1>3 DEF MustFetch
  <2>2. /\ e.device \in Device /\ e.at + store.seq = now + e.seq
        /\ replica.at[e.device] + store.seq <= now + replica.seq
    BY <2>1 DEF Genuine, Behind
  <2>3. replica.at[e.device] > 0 /\ e.at > replica.at[e.device]
    BY <1>1, <2>1, <2>2
  <2>4. e.seq = replica.seq + 1 /\ e.at > 0
    BY <1>1, <2>1, <2>2, <2>3
  <2> QED BY <2>1, <2>3, <2>4 DEF ApplyState
<1> QED BY <1>2, <1>3

LEMMA HandleKeepsRest ==
  ASSUME Typed, NEW last \in [Device -> 0..store.seq], Rest(last), Handle
  PROVE  Rest(last)' /\ store' = store
<1> DEFINE e == Head(wire)
<1>1. /\ stage = "idle" /\ wire # <<>> /\ wire \in Seq(Events) /\ wire' = Tail(wire)
      /\ event = None /\ answer = None /\ open
      /\ UNCHANGED <<store, disk, now, open, writerVars, answer, catchUp, complete>>
  BY DEF Handle, Typed, Phases, TypeOK
<1>2. e \in Events /\ Elements(wire) = {e} \cup Elements(wire')
  BY <1>1, HeadElements
<1>3. e # None
  BY <1>2, NoneAssumption
<1>4. e \in Pending
  BY <1>2 DEF Pending, Held, Writer
<1> HIDE DEF e
<1>5. Genuine(e, last) /\ Behind(last)
  BY <1>1, <1>4 DEF Rest, Known, Alive
<1>6. /\ Pending' \subseteq Pending \cup ({event'} \ {None})
      /\ Pending \subseteq Pending' \cup {e}
  BY <1>1, <1>2 DEF Pending, Held, Writer, writerVars
<1>7. catchUp' # None => Sound(catchUp, last)'
  BY <1>1 DEF Rest, Known, Sound
<1>8. CASE MustFetch(e)
  <2>1. stage' = "handling" /\ event' = e /\ replica' = replica
    BY <1>8 DEF Handle, e
  <2>2. Pending' = Pending
    BY <1>3, <1>4, <1>6, <2>1 DEF Pending
  <2>3. \A x \in Pending' : Genuine(x, last)'
    BY <1>1, <2>2 DEF Rest, Known, Genuine
  <2>4. Past' /\ Served' /\ Announced'
    BY <1>1, <2>1, <2>2 DEF Rest, Past, Served, Announced
  <2>5. Behind(last)'
    BY <1>1, <1>5, <2>1 DEF Behind
  <2> QED BY <1>1, <1>7, <2>3, <2>4, <2>5 DEF Rest, Known
<1>9. CASE ~MustFetch(e)
  <2>1. /\ IF e.type = "state" THEN ApplyState(e) ELSE UNCHANGED replica
        /\ stage' = "idle" /\ event' = None
    BY <1>1, <1>9 DEF Handle, e
  <2>2. \A x \in Pending' : Genuine(x, last)'
    BY <1>1, <1>6, <2>1 DEF Rest, Known, Genuine
  <2>3. Served'
    BY <2>1 DEF Served
  <2>4. /\ e.seq \in Nat /\ e.at \in Nat /\ replica.seq \in Nat /\ now \in Nat
        /\ store.seq \in Nat /\ replica.at \in [Device -> Times]
        /\ \A d \in Device : /\ replica.at[d] \in Nat /\ store.at[d] \in Nat
                             /\ last[d] \in Nat
    BY <1>2, StateTyped DEF Typed, Events
  <2>5. CASE e.seq <= replica.seq /\ replica' = replica
    <3>1. Behind(last)' /\ Past'
      BY <1>1, <1>5, <2>5 DEF Behind, Rest, Past
    <3>2. e.seq = store.seq => replica.seq = store.seq
      BY <1>5, <2>4, <2>5 DEF Behind
    <3>3. Announced'
      BY <1>1, <1>6, <2>5, <3>2 DEF Rest, Announced
    <3> QED BY <1>1, <1>7, <2>2, <2>3, <3>1, <3>3 DEF Rest, Known
  <2>6. CASE /\ e.type = "state" /\ e.seq = replica.seq + 1 /\ e.at > 0
             /\ replica' = [seq |-> e.seq, at |-> [replica.at EXCEPT ![e.device] = e.at]]
    <3>1. /\ e.device \in Device /\ e.seq <= store.seq
          /\ e.at + store.seq = now + e.seq
          /\ last[e.device] >= e.seq
          /\ last[e.device] = e.seq => store.at[e.device] = e.at
          /\ \A d \in Device \ {e.device} : last[d] # e.seq
      BY <1>5, <2>6 DEF Genuine
    <3>2. /\ replica'.seq = e.seq /\ replica'.at[e.device] = e.at
          /\ \A d \in Device \ {e.device} : replica'.at[d] = replica.at[d]
      BY <2>4, <2>6, <3>1
    <3>3. ASSUME NEW d \in Device
          PROVE  /\ replica'.at[d] <= now
                 /\ replica'.at[d] + store.seq <= now + e.seq
                 /\ replica'.at[d] < store.at[d] => last[d] > e.seq
                 /\ complete /\ replica'.at[d] > 0 /\ store.at[d] = 0 => last[d] > e.seq
      <4>1. /\ replica.at[d] <= now
            /\ replica.at[d] + store.seq <= now + replica.seq
            /\ replica.at[d] < store.at[d] => last[d] > replica.seq
            /\ complete /\ replica.at[d] > 0 /\ store.at[d] = 0 => last[d] > replica.seq
        BY <1>5 DEF Behind, Rest, Past
      <4>2. CASE d = e.device
        BY <2>4, <2>6, <3>1, <3>2, <4>2
      <4>3. CASE d # e.device
        BY <2>4, <2>6, <3>1, <3>2, <4>1, <4>3
      <4> QED BY <4>2, <4>3
    <3>4. Behind(last)' /\ Past'
      BY <1>1, <3>1, <3>2, <3>3 DEF Behind, Rest, Past
    <3>5. replica.seq # store.seq
      BY <2>4, <2>6, <3>1
    <3>6. Announced'
      BY <1>1, <1>6, <3>2, <3>5 DEF Rest, Announced
    <3> QED BY <1>1, <1>7, <2>2, <2>3, <3>4, <3>6 DEF Rest, Known
  <2> QED BY <1>2, <1>5, <1>9, <2>1, <2>5, <2>6, NextIsApplied
<1> QED BY <1>8, <1>9

LEMMA ResumeKeepsRest ==
  ASSUME Typed, NEW last \in [Device -> 0..store.seq], Rest(last), Resume
  PROVE  Rest(last)' /\ store' = store
<1>1. /\ stage = "handling" /\ stage' = "idle" /\ answer' = None /\ event' = None
      /\ UNCHANGED <<store, disk, now, open, writerVars, catchUp>>
      /\ answer # None /\ answer \in Inventories /\ Sound(answer, last)
      /\ ApplyInventory(answer, FALSE) /\ open /\ event \in Events
      /\ event # None /\ wire \in Seq(Events) /\ answer.seq >= event.seq
  BY DEF Resume, Typed, Phases, TypeOK, Rest, Known, Served
<1>2. Applies(answer, FALSE)
  BY <1>1, ApplyingApplies, StateTyped DEF Typed, TypeOK
<1>3. event \in Pending
  BY <1>1 DEF Pending
<1>4. Behind(last) /\ Genuine(event, last)
  BY <1>1, <1>3 DEF Rest, Known, Alive
<1>5. Behind(last)' /\ Past'
  BY <1>1, <1>2, <1>4, AppliedIsBehind, AppliedIsPast
<1>6. Pending' \subseteq Pending /\ Pending \subseteq Pending' \cup {event}
  <2> DEFINE again == <<event>>
  <2>1. again \in Seq(Events) /\ Elements(again) = {event}
    BY <1>1, SmallElements
  <2> HIDE DEF again
  <2>2. Elements(again \o wire) = {event} \cup Elements(wire)
    BY <1>1, <2>1, ConcatElements
  <2>3. wire' = wire \/ wire' = again \o wire
    BY DEF Resume, again
  <2> QED BY <1>1, <2>2, <2>3 DEF Pending, Held, Writer, writerVars
<1>7. /\ catchUp' # None => Sound(catchUp, last)'
      /\ \A e \in Pending' : Genuine(e, last)'
  BY <1>1, <1>6 DEF Rest, Known, Sound, Genuine
<1>8. Announced'
  <2>1. /\ answer.seq \in Nat /\ replica.seq \in Nat /\ store.seq \in Nat /\ event.seq \in Nat
        /\ answer.seq <= store.seq /\ replica.seq <= store.seq /\ event.seq <= store.seq
    BY <1>1, <1>4, StateTyped DEF Typed, Inventories, Events, Sound, Behind, Genuine
  <2>2. \/ replica' = replica /\ answer.seq < replica.seq
        \/ replica'.seq = answer.seq /\ answer.seq >= replica.seq
    BY <1>2 DEF Applies
  <2>3. replica.seq = store.seq \/ event.seq = store.seq => replica'.seq = store.seq
    BY <1>1, <2>1, <2>2
  <2>4. replica.seq = store.seq \/ \E e \in Pending : e.seq = store.seq
    BY <1>1 DEF Rest, Announced
  <2> QED BY <1>1, <1>6, <2>3, <2>4 DEF Announced
<1>9. Served'
  BY <1>1 DEF Served
<1> QED BY <1>1, <1>5, <1>7, <1>8, <1>9 DEF Rest, Known

LEMMA EntityApplyKeepsRest ==
  ASSUME Typed, NEW last \in [Device -> 0..store.seq], Rest(last), EntityApply
  PROVE  Rest(last)' /\ store' = store
<1>1. /\ catchUp' = None
      /\ UNCHANGED <<store, disk, now, open, writerVars, wire, stage, answer, event>>
      /\ catchUp # None /\ catchUp \in Inventories /\ Sound(catchUp, last)
      /\ ApplyInventory(catchUp, FALSE)
  BY DEF EntityApply, Typed, TypeOK, Rest, Known, loopVars
<1>2. Applies(catchUp, FALSE)
  BY <1>1, ApplyingApplies, StateTyped DEF Typed, TypeOK
<1>3. Past'
  BY <1>1, <1>2, AppliedIsPast
<1>4. Alive' => Behind(last)'
  <2>1. SUFFICES ASSUME Alive' PROVE Behind(last)'
    OBVIOUS
  <2>2. Behind(last)
    BY <1>1, <2>1 DEF Rest, Known, Alive
  <2> QED BY <1>1, <1>2, <2>2, AppliedIsBehind
<1>5. Pending' = Pending
  BY <1>1, WriterSame DEF Pending
<1>6. /\ answer' # None => Sound(answer, last)'
      /\ \A e \in Pending' : Genuine(e, last)'
  BY <1>1, <1>5 DEF Rest, Known, Sound, Genuine
<1>7. /\ catchUp.seq \in Nat /\ replica.seq \in Nat /\ store.seq \in Nat /\ now \in Nat
      /\ catchUp.seq <= store.seq
      /\ \/ replica' = replica /\ catchUp.seq < replica.seq
         \/ replica'.seq = catchUp.seq /\ catchUp.seq >= replica.seq
  BY <1>1, <1>2, StateTyped DEF Typed, Inventories, Sound, Applies
<1>8. Announced'
  <2>1. open => Behind(last)
    BY DEF Rest, Known, Alive, Typed, Phases
  <2>2. open /\ replica.seq = store.seq => replica'.seq = store.seq
    BY <1>7
  <2> QED BY <1>1, <1>5, <2>2 DEF Rest, Announced
<1>9. Served'
  <2>1. CASE stage = "fetched"
    <3>1. /\ answer # None /\ answer \in Inventories /\ answer.seq \in Nat
          /\ catchUp.seq <= answer.seq
          /\ \A d \in Device : replica.at[d] + store.seq <= now + answer.seq
      BY <1>1, <2>1 DEF Rest, Served, Overtaking, Typed, Phases, TypeOK, Inventories
    <3>2. ASSUME NEW d \in Device
          PROVE  replica'.at[d] + store.seq <= now + answer.seq
      <4>1. /\ catchUp.at[d] \in Nat /\ replica.at[d] \in Nat
            /\ catchUp.at[d] + store.seq <= now + catchUp.seq
        BY <1>1, StateTyped DEF Typed, Inventories, Sound
      <4>2. replica'.at[d] \in {0, catchUp.at[d], replica.at[d]}
        BY <1>2 DEF Applies, Newer
      <4>3. /\ catchUp.at[d] + store.seq <= now + answer.seq
            /\ 0 + store.seq <= now + answer.seq
        BY <1>7, <3>1, <4>1
      <4> QED BY <3>1, <4>2, <4>3
    <3> QED BY <1>1, <2>1, <3>2 DEF Served, Overtaking
  <2>2. CASE stage # "fetched"
    BY <1>1, <2>2 DEF Rest, Served
  <2> QED BY <2>1, <2>2
<1> QED BY <1>1, <1>3, <1>4, <1>6, <1>8, <1>9 DEF Rest, Known

-----------------------------------------------------------------------------
LEMMA FeedInvStarts ==
  ASSUME Init
  PROVE  FeedInv
<1>1. PICK some \in SUBSET Device :
         store = [seq |-> 1, at |-> [d \in Device |-> IF d \in some THEN 1 ELSE 0],
                  ready |-> TRUE]
  BY DEF Init
<1>2. /\ disk = store /\ up = TRUE /\ now = 1 /\ open = FALSE
      /\ waiting = None /\ chunks = <<>> /\ blocked = FALSE /\ wire = <<>>
      /\ stage = "down" /\ answer = None /\ event = None /\ catchUp = None
      /\ replica = [seq |-> 0, at |-> [d \in Device |-> 0]]
      /\ complete = FALSE /\ breaks = 0
  BY DEF Init
<1>3. 1 \in Times /\ 0 \in Times
  BY DeviceFeedAssumption DEF Times
<1>4. store \in Inventories /\ replica \in [seq : Nat, at : [Device -> Times]]
  BY <1>1, <1>2, <1>3 DEF Inventories
<1>5. TypeOK
  <2>1. breaks \in 0..MaxBreaks /\ now \in Times
    BY <1>2, <1>3, DeviceFeedAssumption
  <2>2. chunks \in Seq(Events) /\ Len(chunks) <= MaxPending /\ wire \in Seq(Events)
    BY <1>2, NothingTyped
  <2>3. store \in Inventories /\ disk \in Inventories
        /\ replica \in [seq : Nat, at : [Device -> Times]]
    BY <1>2, <1>4
  <2>4. /\ up \in BOOLEAN /\ open \in BOOLEAN /\ blocked \in BOOLEAN /\ complete \in BOOLEAN
        /\ waiting \in Nat \cup {None} /\ answer \in Inventories \cup {None}
        /\ event \in Events \cup {None} /\ catchUp \in Inventories \cup {None}
        /\ stage \in {"down", "fetched", "opening", "idle", "handling"}
    BY <1>2
  <2> QED BY <2>1, <2>2, <2>3, <2>4 DEF TypeOK
<1>6. Phases
  BY <1>2 DEF Phases
<1>7. Past
  BY <1>1, <1>2 DEF Past
<1>8. Pending = {}
  BY <1>2, NothingPending
<1>9. Served /\ Announced
  BY <1>2 DEF Served, Announced
<1>10. store.seq = 1 /\ [d \in Device |-> 0] \in [Device -> 0..1]
  BY <1>1
<1>11. \A last : Known(last)
  BY <1>2, <1>8 DEF Known, Alive
<1> QED BY <1>5, <1>6, <1>7, <1>9, <1>10, <1>11 DEF FeedInv

LEMMA FeedInvStays ==
  ASSUME ~SlowHandOver, FeedInv, [Next]_vars
  PROVE  FeedInv'
<1>1. Typed
  BY DEF FeedInv, Typed
<1>2. PICK last \in [Device -> 0..store.seq] : Known(last)
  BY DEF FeedInv
<1>3. Rest(last)
  BY <1>2 DEF FeedInv, Rest
<1>4. /\ Typed'
      /\ \E later \in [Device -> 0..store'.seq] : Rest(later)'
  <2>1. CASE Change
    BY <1>1, <1>3, <2>1, ChangeTyped, ChangeKeepsRest
  <2>2. CASE ReadyChanges \/ Persist \/ CoalesceElapsed \/ Block \/ Drain
    BY <1>1, <1>3, <2>2, BridgeTyped, WritingKeepsRest
  <2>3. CASE Crash
    BY <1>1, <1>3, <2>3, BridgeTyped, LosingKeepsRest
  <2>4. CASE Restart
    BY <1>1, <1>3, <2>4, BridgeTyped, RestartKeepsRest
  <2>5. CASE Fetch \/ Serve \/ EntityFetch
    BY <1>1, <1>3, <2>5, LoopTyped, FetchingKeepsRest
  <2>6. CASE Reconnect
    BY <1>1, <1>3, <2>6, LoopTyped, ReconnectKeepsRest
  <2>7. CASE OpenStream
    BY <1>1, <1>3, <2>7, LoopTyped, OpenStreamKeepsRest
  <2>8. CASE Handle
    BY <1>1, <1>3, <2>8, LoopTyped, HandleKeepsRest
  <2>9. CASE Resume
    BY <1>1, <1>3, <2>9, LoopTyped, ResumeKeepsRest
  <2>10. CASE Disconnect
    BY <1>1, <1>3, <2>10, LoopTyped, LosingKeepsRest
  <2>11. CASE EntityApply
    BY <1>1, <1>3, <2>11, LoopTyped, EntityApplyKeepsRest
  <2>12. CASE UNCHANGED vars
    <3>1. Typed'
      BY <1>1, <2>12 DEF vars, Typed, TypeOK, Phases
    <3>2. Pending' = Pending
      BY <2>12 DEF vars, Pending, Held, Writer
    <3>3. \A d \in Device : disk'.at[d] <= now
      BY <1>3, <2>12 DEF vars, Rest, Past
    <3>4. Rest(last)' /\ store' = store
      BY <1>1, <1>3, <2>12, <3>2, <3>3, RestKept, StateTyped DEF vars, Typed
    <3> QED BY <3>1, <3>4
  <2> QED BY <2>1, <2>2, <2>3, <2>4, <2>5, <2>6, <2>7, <2>8, <2>9, <2>10, <2>11, <2>12
          DEF Next
<1> QED BY <1>4 DEF FeedInv, Typed, Rest

LEMMA FeedInvSuffices ==
  ASSUME FeedInv
  PROVE  ReplicaIsTrue
<1>1. Converged /\ RemovalsArrive
  <2>1. SUFFICES ASSUME Quiet
                 PROVE  /\ replica.seq = store.seq
                        /\ \A d \in Device :
                             /\ replica.at[d] >= store.at[d]
                             /\ complete => (store.at[d] = 0 => replica.at[d] = 0)
    BY DEF Converged, RemovalsArrive
  <2>2. Pending = {}
    <3>1. event = None
      BY <2>1 DEF FeedInv, Phases, Quiet
    <3> QED BY <2>1, <3>1, NothingPending DEF Quiet
  <2>3. replica.seq = store.seq
    BY <2>1, <2>2 DEF FeedInv, Announced, Quiet
  <2>4. PICK last \in [Device -> 0..store.seq] : Behind(last)
    BY <2>1 DEF FeedInv, Known, Alive, Quiet
  <2>5. ASSUME NEW d \in Device
        PROVE  /\ replica.at[d] >= store.at[d]
               /\ complete => (store.at[d] = 0 => replica.at[d] = 0)
    <3>1. /\ replica.at[d] \in Nat /\ store.at[d] \in Nat /\ last[d] \in 0..store.seq
          /\ store.seq \in Nat
      BY StateTyped DEF FeedInv
    <3> QED BY <2>3, <2>4, <3>1 DEF Behind
  <2> QED BY <2>3, <2>5
<1> QED BY <1>1 DEF ReplicaIsTrue, FeedInv

(* Whatever was merged, collapsed, overtaken or lost with a connection or a *)
(* crash: at rest the integration has the bridge's sequence and its latest  *)
(* change of every device, and no device that is gone once it has seen a    *)
(* complete inventory.  (handle_event, _apply_inventory and apply_state of  *)
(* models.py behind SseEventWriter of http-server.ts.)                      *)
THEOREM ReplicaStaysTrue ==
  ASSUME ~SlowHandOver
  PROVE  Spec => []ReplicaIsTrue
<1>1. Spec => []FeedInv
  BY FeedInvStarts, FeedInvStays, PTL DEF Spec
<1> QED BY <1>1, FeedInvSuffices, PTL

LEMMA StepNeverGoesBack ==
  ASSUME TypeOK, Phases, [Next]_vars
  PROVE  \A d \in Device : replica'.at[d] > 0 => replica'.at[d] >= replica.at[d]
<1>1. /\ replica \in Replicas /\ complete \in BOOLEAN
      /\ \A d \in Device : replica.at[d] \in Nat
  BY StateTyped DEF TypeOK
<1>2. ASSUME NEW x \in Inventories, NEW reset \in BOOLEAN, ApplyInventory(x, reset)
      PROVE  \A d \in Device : replica'.at[d] > 0 => replica'.at[d] >= replica.at[d]
  <2>1. Applies(x, reset)
    BY <1>1, <1>2, ApplyingApplies
  <2>2. \A d \in Device : x.at[d] \in Nat
    BY StateTyped DEF Inventories
  <2> QED BY <1>1, <2>1, <2>2 DEF Applies, Newer
<1>3. CASE replica' = replica
  BY <1>1, <1>3
<1>4. CASE replica' # replica
  <2>1. Reconnect \/ Handle \/ Resume \/ EntityApply
    BY <1>4 DEF Next, vars, Change, ReadyChanges, Persist, Crash, Restart, CoalesceElapsed,
       Block, Drain, Fetch, OpenStream, Serve, Disconnect, EntityFetch
  <2>2. CASE Reconnect \/ Resume
    <3>1. answer \in Inventories
      BY <2>2 DEF Reconnect, Resume, TypeOK, Phases
    <3> QED BY <1>2, <2>2, <3>1 DEF Reconnect, Resume
  <2>3. CASE EntityApply
    BY <1>2, <2>3 DEF EntityApply, TypeOK
  <2>4. CASE Handle
    <3> DEFINE e == Head(wire)
    <3>1. /\ replica' = [seq |-> e.seq, at |-> [replica.at EXCEPT ![e.device] = e.at]]
          /\ e.at > replica.at[e.device] /\ replica.at[e.device] > 0
      BY <1>4, <2>4 DEF Handle, ApplyState
    <3>2. e \in Events /\ e.at \in Nat
      <4>1. wire \in Seq(Events) /\ wire # <<>>
        BY <2>4 DEF Handle, TypeOK
      <4>2. e \in Events
        BY <4>1, HeadElements
      <4> HIDE DEF e
      <4> QED BY <4>2, StateTyped DEF Events
    <3> HIDE DEF e
    <3>3. replica.at \in [Device -> Times]
      BY StateTyped
    <3>4. ASSUME NEW d \in Device
          PROVE  replica'.at[d] >= replica.at[d]
      BY <1>1, <3>1, <3>2, <3>3
    <3> QED BY <3>4
  <2> QED BY <2>1, <2>2, <2>3, <2>4
<1> QED BY <1>3, <1>4

(* No answer to a slow request, no event and no inventory from before a     *)
(* reconnect puts an older value of a device over a newer one.  (The dates  *)
(* compared by _apply_inventory and apply_state of models.py.)              *)
THEOREM ReplicaNeverGoesBack ==
  ASSUME ~SlowHandOver
  PROVE  Spec => NeverBack
<1>1. Spec => []FeedInv
  BY FeedInvStarts, FeedInvStays, PTL DEF Spec
<1>2. FeedInv /\ [Next]_vars
        => [\A d \in Device : replica'.at[d] > 0 => replica'.at[d] >= replica.at[d]]_vars
  BY StepNeverGoesBack DEF FeedInv
<1> QED BY <1>1, <1>2, PTL DEF Spec, NeverBack
=============================================================================
