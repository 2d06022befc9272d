----------------------- MODULE PlaybackSchedulerProofs -----------------------
(***************************************************************************)
(* Theorems about PlaybackScheduler, for any number of callers, any        *)
(* offsets, every configuration that SchedulerConfig::validate accepts,    *)
(* and a clock, sessions and removals without bound.                       *)
(***************************************************************************)
EXTENDS PlaybackScheduler, FiniteSetTheorems, TLAPS

(* The timeline *)

\* Quantizing rounds down.
LEMMA QuantizeRoundsDown ==
  ASSUME NEW d \in Nat
  PROVE  Quantize(d) \in Nat /\ Quantize(d) <= d
<1>1. Resolution \in Nat \ {0}
  BY SchedulerAssumption DEF SchedulerAssumption, validate
<1> DEFINE q == d \div Resolution
<1>2. q \in Int /\ q * Resolution <= d /\ d < (q + 1) * Resolution
  BY <1>1
<1>3. q >= 0
  BY <1>1, <1>2
<1>4. q * Resolution \in Nat
  <2> HIDE DEF q
  <2> QED
    BY <1>1, <1>2, <1>3
<1> QED
  BY <1>2, <1>4 DEF Quantize

Anchors == [timestamp : Nat, local : Nat]

TimelineInv ==
  /\ elapsed \in Nat /\ generation \in Nat
  /\ anchor = NoAnchor \/ anchor \in Anchors

\* Whatever is scheduled anchors the timeline, and has a deadline.
LEMMA DeadlineIsTime ==
  ASSUME TimelineInv, NEW timestamp \in Nat
  PROVE  AnchorFor(timestamp) \in Anchors /\ Deadline(timestamp) \in Nat
<1>1. Latency \in Nat
  BY SchedulerAssumption DEF SchedulerAssumption, validate
<1>2. CurrentTime \in Nat
  BY QuantizeRoundsDown DEF TimelineInv, CurrentTime
<1> DEFINE a == AnchorFor(timestamp)
<1>3. a \in Anchors
  BY <1>2 DEF TimelineInv, AnchorFor, Anchors
<1> HIDE DEF a
<1>4. a.timestamp \in Nat /\ a.local \in Nat
  BY <1>3 DEF Anchors
<1>5. CASE timestamp >= a.timestamp
  <2>1. a.local + timestamp - a.timestamp \in Nat
    BY <1>4, <1>5
  <2> QED
    BY <1>1, <1>3, <1>5, <2>1, QuantizeRoundsDown DEF Deadline, ExpectedPlaybackTime, a
<1>6. CASE ~(timestamp >= a.timestamp)
  BY <1>1, <1>3, <1>4, <1>6 DEF Deadline, ExpectedPlaybackTime, a
<1> QED
  BY <1>5, <1>6

-----------------------------------------------------------------------------
(* What calls carry from one lock to the next *)

Stages == {"idle", "adjusted", "timed", "queued", "released"}

Item == [packet : Nat, deadline : Nat, stamp : Nat, by : Producers, generation : Nat]

CallsInv ==
  /\ offset \in Int
  /\ stage \in [Producers \cup Consumers -> Stages]
  /\ next \in [Producers -> Nat]
  /\ adjusted \in [Producers -> Nat]
  /\ timed \in [Producers -> Item \cup {NotTimed}]
  /\ now \in [Consumers -> Nat] /\ seen_at \in [Consumers -> Nat]

\* Between two locks a call still works on the packet it was made with, and a
\* packet that has a deadline is that packet.
PacketInHand ==
  \A p \in Producers :
    /\ stage[p] \in {"adjusted", "timed"} => next[p] \in DOMAIN Offered[p]
    /\ stage[p] = "timed" => timed[p] \in Item /\ timed[p].packet = Packet(p)

\* A time that was read on this timeline has come.
TimeHasCome ==
  \A c \in Consumers :
    /\ seen_at[c] <= generation
    /\ stage[c] = "timed" /\ seen_at[c] = generation => now[c] <= elapsed

CallInv == TimelineInv /\ CallsInv /\ PacketInHand /\ TimeHasCome

LEMMA PacketIsNat ==
  ASSUME CallsInv, NEW p \in Producers, next[p] \in DOMAIN Offered[p]
  PROVE  Packet(p) \in Nat
BY SchedulerAssumption DEF SchedulerAssumption, Packet

LEMMA CallInit == Init => CallInv
<1> SUFFICES ASSUME Init PROVE CallInv
  OBVIOUS
<1>1. TimelineInv
  BY DEF Init, TimelineInv
<1>2. CallsInv
  BY DEF Init, CallsInv, Stages
<1>3. PacketInHand /\ TimeHasCome
  BY SchedulerAssumption DEF Init, PacketInHand, TimeHasCome, SchedulerAssumption
<1> QED
  BY <1>1, <1>2, <1>3 DEF CallInv

LEMMA CallStep ==
  ASSUME CallInv, [Next]_vars
  PROVE  CallInv'
<1> USE DEF CallInv
<1>0. Producers \cap Consumers = {} /\ Gap \in Nat /\ Offsets \subseteq Int
  BY SchedulerAssumption DEF SchedulerAssumption
<1>1. CASE Start \/ Stop
  BY <1>1 DEF Start, Stop, TimelineInv, CallsInv, PacketInHand, TimeHasCome, Packet,
       timeline, queue, scheduling, polling, history
<1>2. CASE ResetTimeline
  BY <1>2 DEF ResetTimeline, TimelineInv, CallsInv, PacketInHand, TimeHasCome, Packet,
       queue, scheduling, polling, history
<1>3. ASSUME NEW p \in Producers, BeginSchedule(p) PROVE CallInv'
  <2>1. Packet(p) \in Nat
    BY <1>3, PacketIsNat DEF BeginSchedule
  <2>2. Packet(p) * Gap + offset \in Int
    BY <2>1, <1>0 DEF CallsInv
  <2>3. adjusted' \in [Producers -> Nat]
    BY <1>3, <2>2 DEF BeginSchedule, CallsInv
  <2> QED
    BY <1>0, <1>3, <2>3 DEF BeginSchedule, GoTo, TimelineInv, CallsInv, PacketInHand,
         TimeHasCome, Packet, timeline, queue, polling, control, history, Stages
<1>4. ASSUME NEW p \in Producers, Expire(p) PROVE CallInv'
  <2>1. AnchorFor(adjusted[p]) \in Anchors
    BY DeadlineIsTime DEF CallsInv
  <2> QED
    BY <1>0, <1>4, <2>1 DEF Expire, EndSchedule, GoTo, TimelineInv, CallsInv, PacketInHand,
         TimeHasCome, Packet, queue, polling, control, history, Stages
<1>5. ASSUME NEW p \in Producers, SetDeadline(p) PROVE CallInv'
  <2>1. AnchorFor(adjusted[p]) \in Anchors /\ Deadline(adjusted[p]) \in Nat
    BY DeadlineIsTime DEF CallsInv
  <2>2. Packet(p) \in Nat
    BY <1>5, PacketIsNat DEF SetDeadline, PacketInHand
  <2>3. timed'[p] \in Item /\ timed'[p].packet = Packet(p)
    BY <1>5, <2>1, <2>2 DEF SetDeadline, CallsInv, TimelineInv, Item
  <2>4. timed' \in [Producers -> Item \cup {NotTimed}]
    BY <1>5, <2>3 DEF SetDeadline, CallsInv
  <2>5. CallsInv' /\ TimelineInv'
    BY <1>5, <2>1, <2>4 DEF SetDeadline, GoTo, TimelineInv, CallsInv, queue, polling,
         control, history, Stages
  <2>6. PacketInHand'
    BY <1>5, <2>3 DEF SetDeadline, GoTo, CallsInv, PacketInHand, Packet
  <2>7. TimeHasCome'
    BY <1>0, <1>5 DEF SetDeadline, GoTo, CallsInv, TimeHasCome, polling
  <2> QED
    BY <2>5, <2>6, <2>7
<1>6. ASSUME NEW p \in Producers, RefuseToQueue(p) \/ Enqueue(p) \/ RecordScheduled(p)
      PROVE  CallInv'
  BY <1>0, <1>6 DEF RefuseToQueue, Enqueue, RecordScheduled, EndSchedule, GoTo,
       TimelineInv, CallsInv, PacketInHand, TimeHasCome, Packet, timeline, queue,
       polling, control, history, Stages
<1>7. ASSUME NEW c \in Consumers, BeginNext(c) PROVE CallInv'
  <2>1. CurrentTime \in Nat /\ CurrentTime <= elapsed
    BY QuantizeRoundsDown DEF TimelineInv, CurrentTime
  <2> QED
    BY <1>0, <1>7, <2>1 DEF BeginNext, GoTo, TimelineInv, CallsInv, PacketInHand,
         TimeHasCome, Packet, timeline, queue, scheduling, control, history, Stages
<1>8. ASSUME NEW c \in Consumers, Underflow(c) \/ RecordPlayed(c) PROVE CallInv'
  BY <1>0, <1>8 DEF Underflow, RecordPlayed, Forget, GoTo, TimelineInv, CallsInv,
       PacketInHand, TimeHasCome, Packet, timeline, queue, scheduling, polling, control,
       history, Stages
<1>9. ASSUME NEW c \in Consumers, NEW item \in heap, Release(c, item) PROVE CallInv'
  BY <1>0, <1>9 DEF Release, Forget, GoTo, TimelineInv, CallsInv, PacketInHand,
       TimeHasCome, Packet, timeline, scheduling, control, Stages
<1>10. CASE (\E id \in PacketIds : CancelPacket(id)) \/ Clear
  BY <1>10 DEF CancelPacket, Clear, TimelineInv, CallsInv, PacketInHand, TimeHasCome,
       Packet, timeline, scheduling, polling, control
<1>11. CASE Tick
  BY <1>11 DEF Tick, TimelineInv, CallsInv, PacketInHand, TimeHasCome, Packet, queue,
       scheduling, polling, control, history
<1>12. CASE \E o \in Offsets : MoveOffset(o)
  BY <1>0, <1>12 DEF MoveOffset, TimelineInv, CallsInv, PacketInHand, TimeHasCome, Packet,
       timeline, queue, scheduling, polling, control, history
<1>13. CASE UNCHANGED vars
  BY <1>13 DEF vars, TimelineInv, CallsInv, PacketInHand, TimeHasCome, Packet, timeline,
       queue, scheduling, polling, control, history
<1> QED
  BY <1>1, <1>2, <1>3, <1>4, <1>5, <1>6, <1>7, <1>8, <1>9, <1>10, <1>11, <1>12, <1>13
  DEF Next, ScheduleStep, NextStep

-----------------------------------------------------------------------------
(* The queue *)

\* A function that tells the members of a finite set apart has as many values.
LEMMA ImageCounts ==
  ASSUME NEW S, IsFiniteSet(S), NEW T, NEW f \in [S -> T],
         \A x, y \in S : f[x] = f[y] => x = y,
         T = {f[x] : x \in S}
  PROVE  IsFiniteSet(T) /\ Cardinality(T) = Cardinality(S)
<1>1. f \in Surjection(S, T)
  BY DEF Surjection
<1>2. f \in Injection(S, T)
  BY DEF Injection, IsInjective
<1> QED
  BY <1>1, <1>2, FS_Surjection

Distinct == \A a, b \in heap : a.packet = b.packet => a = b

QueueInv ==
  /\ heap \subseteq Item /\ IsFiniteSet(heap)
  /\ ids = {item.packet : item \in heap}
  /\ Distinct
  /\ Cardinality(heap) <= Capacity

Waiting == {[packet |-> item.packet, deadline |-> item.deadline] : item \in heap}

\* The identifiers, and the packets with their deadlines, are as many as the heap's.
LEMMA QueueCounts ==
  ASSUME QueueInv
  PROVE  /\ Cardinality(ids) = Cardinality(heap)
         /\ Cardinality(Waiting) = Cardinality(heap)
<1>1. Cardinality(ids) = Cardinality(heap)
  <2> DEFINE f == [item \in heap |-> item.packet]
  <2>1. f \in [heap -> ids] /\ ids = {f[x] : x \in heap}
    BY DEF QueueInv
  <2>2. \A x, y \in heap : f[x] = f[y] => x = y
    BY DEF QueueInv, Distinct
  <2> HIDE DEF f
  <2> QED
    BY <2>1, <2>2, ImageCounts DEF QueueInv
<1>2. Cardinality(Waiting) = Cardinality(heap)
  <2> DEFINE f == [item \in heap |-> [packet |-> item.packet, deadline |-> item.deadline]]
  <2>1. f \in [heap -> Waiting] /\ Waiting = {f[x] : x \in heap}
    BY DEF Waiting
  <2>2. \A x, y \in heap : f[x] = f[y] => x = y
    BY DEF QueueInv, Distinct
  <2> HIDE DEF f
  <2> QED
    BY <2>1, <2>2, ImageCounts DEF QueueInv
<1> QED
  BY <1>1, <1>2

LEMMA QueueInit == Init => QueueInv
<1> SUFFICES ASSUME Init PROVE QueueInv
  OBVIOUS
<1>1. heap = {} /\ ids = {}
  BY DEF Init
<1>2. Capacity \in Nat
  BY SchedulerAssumption DEF SchedulerAssumption, validate
<1> QED
  BY <1>1, <1>2, FS_EmptySet DEF QueueInv, Distinct

\* Taking one packet and its identifier away.
LEMMA TakeOne ==
  ASSUME QueueInv, NEW item \in heap,
         heap' = heap \ {item}, ids' = ids \ {item.packet}
  PROVE  QueueInv' /\ Cardinality(heap') = Cardinality(heap) - 1
<1>1. IsFiniteSet(heap') /\ Cardinality(heap') = Cardinality(heap) - 1
  BY FS_RemoveElement DEF QueueInv
<1>2. Cardinality(heap) \in Nat /\ Capacity \in Nat
  BY FS_CardinalityType, SchedulerAssumption DEF SchedulerAssumption, validate, QueueInv
<1>3. ids' = {other.packet : other \in heap'}
  BY DEF QueueInv, Distinct
<1>4. Distinct'
  BY DEF QueueInv, Distinct
<1> QED
  BY <1>1, <1>2, <1>3, <1>4 DEF QueueInv

LEMMA EnqueueAddsOne ==
  ASSUME CallInv, QueueInv, NEW p \in Producers, Enqueue(p)
  PROVE  QueueInv' /\ Cardinality(heap') = Cardinality(heap) + 1
<1>1. timed[p] \in Item /\ timed[p].packet = Packet(p)
  BY DEF CallInv, PacketInHand, Enqueue
<1>2. heap' = heap \cup {timed[p]} /\ ids' = ids \cup {Packet(p)} /\ Packet(p) \notin ids
  BY DEF Enqueue
<1>3. \A item \in heap : item.packet # Packet(p)
  BY <1>2 DEF QueueInv
<1>4. IsFiniteSet(heap') /\ Cardinality(heap') = Cardinality(heap) + 1
  BY <1>1, <1>2, <1>3, FS_AddElement DEF QueueInv
<1>5. Cardinality(heap') <= Capacity
  <2>1. Cardinality(heap) \in Nat /\ Capacity \in Nat
    BY FS_CardinalityType, SchedulerAssumption DEF SchedulerAssumption, validate, QueueInv
  <2>2. ~(Cardinality(heap) >= Capacity)
    BY QueueCounts DEF Enqueue, IsFull
  <2> QED
    BY <1>4, <2>1, <2>2
<1>6. ids' = {item.packet : item \in heap'}
  BY <1>1, <1>2 DEF QueueInv
<1>7. Distinct'
  BY <1>1, <1>2, <1>3 DEF QueueInv, Distinct
<1> QED
  BY <1>1, <1>2, <1>4, <1>5, <1>6, <1>7 DEF QueueInv

\* cancel_packet() takes away the one packet with that identifier.
LEMMA CancelTakesOne ==
  ASSUME QueueInv, NEW id \in PacketIds, CancelPacket(id)
  PROVE  \E item \in heap : heap' = heap \ {item} /\ ids' = ids \ {item.packet}
<1>1. PICK item \in heap : item.packet = id
  BY DEF CancelPacket, QueueInv
<1>2. heap' = heap \ {item}
  BY <1>1 DEF CancelPacket, QueueInv, Distinct
<1> QED
  BY <1>1, <1>2 DEF CancelPacket

LEMMA QueueStep ==
  ASSUME CallInv, QueueInv, [Next]_vars
  PROVE  QueueInv'
<1>1. CASE UNCHANGED queue
  BY <1>1 DEF queue, QueueInv, Distinct
<1>2. CASE Start \/ ResetTimeline \/ Stop \/ Tick \/ (\E o \in Offsets : MoveOffset(o))
           \/ UNCHANGED vars
  BY <1>1, <1>2 DEF Start, ResetTimeline, Stop, Tick, MoveOffset, vars
<1>3. ASSUME NEW p \in Producers, BeginSchedule(p) \/ ScheduleStep(p) PROVE QueueInv'
  BY <1>1, <1>3, EnqueueAddsOne DEF BeginSchedule, ScheduleStep, Expire, SetDeadline,
       RefuseToQueue, RecordScheduled
<1>4. ASSUME NEW c \in Consumers, BeginNext(c) \/ NextStep(c) PROVE QueueInv'
  BY <1>1, <1>4, TakeOne DEF BeginNext, NextStep, Underflow, RecordPlayed, Release
<1>5. ASSUME NEW id \in PacketIds, CancelPacket(id) PROVE QueueInv'
  BY <1>5, CancelTakesOne, TakeOne
<1>6. CASE Clear
  <2>1. heap' = {} /\ ids' = {}
    BY <1>6 DEF Clear
  <2>2. Capacity \in Nat
    BY SchedulerAssumption DEF SchedulerAssumption, validate
  <2> QED
    BY <2>1, <2>2, FS_EmptySet DEF QueueInv, Distinct
<1> QED
  BY <1>2, <1>3, <1>4, <1>5, <1>6 DEF Next

\* Every state satisfies both parts.
LEMMA Invariance == Spec => [](CallInv /\ QueueInv)
<1>1. Init => CallInv /\ QueueInv
  BY CallInit, QueueInit
<1>2. CallInv /\ QueueInv /\ [Next]_vars => (CallInv /\ QueueInv)'
  BY CallStep, QueueStep
<1> QED
  BY <1>1, <1>2, PTL DEF Spec

\* The heap and the set of identifiers never part, whoever calls in whatever order
\* (playback_queue.rs:82-145).
THEOREM IdsAreExact == Spec => []IdsMirrorHeap
<1>1. QueueInv => IdsMirrorHeap
  BY QueueCounts DEF QueueInv, IdsMirrorHeap
<1> QED
  BY <1>1, Invariance, PTL

-----------------------------------------------------------------------------
(* The implementation of Playout *)

\* What the queue hands on depends on these alone.
LEMMA QuietIsStutter ==
  ASSUME UNCHANGED <<heap, out>>
  PROVE  UNCHANGED AsPlayout!vars
BY DEF AsPlayout!vars

\* Packets that leave the heap leave what waits.
LEMMA WaitingShrinks ==
  ASSUME QueueInv, NEW items \in SUBSET heap, heap' = heap \ items
  PROVE  Waiting' = Waiting
           \ {[packet |-> item.packet, deadline |-> item.deadline] : item \in items}
BY DEF Waiting, QueueInv, Distinct

\* Playout counts as FiniteSets does.
LEMMA SameCardinality ==
  ASSUME NEW S
  PROVE  AsPlayout!Cardinality(S) = Cardinality(S)
BY Zenon DEF AsPlayout!Cardinality, Cardinality

LEMMA EnqueueQueues ==
  ASSUME CallInv, QueueInv, NEW p \in Producers, Enqueue(p)
  PROVE  AsPlayout!Next
<1>1. PICK item \in Item : item = timed[p] /\ item.packet = Packet(p)
  BY DEF CallInv, PacketInHand, Enqueue
<1> DEFINE added == [packet |-> item.packet, deadline |-> item.deadline]
<1>2. heap' = heap \cup {item} /\ item.packet \notin ids /\ out' = out
  BY <1>1 DEF Enqueue, history
<1>3. Waiting' = Waiting \cup {added}
  BY <1>2 DEF Waiting
<1>4. ~AsPlayout!IsQueued(item.packet)
  BY <1>2 DEF AsPlayout!IsQueued, QueueInv
<1>5. Cardinality(Waiting) < Capacity
  <2>1. Cardinality(heap) \in Nat /\ Capacity \in Nat
    BY FS_CardinalityType, SchedulerAssumption DEF SchedulerAssumption, validate, QueueInv
  <2>2. ~(Cardinality(heap) >= Capacity)
    BY QueueCounts DEF Enqueue, IsFull
  <2> QED
    BY <2>1, <2>2, QueueCounts
<1>6. AsPlayout!Queue(item.packet, item.deadline)
  <2>1. UNCHANGED [i \in DOMAIN out |-> out[i].packet]
    BY <1>2
  <2> QED
    BY <1>3, <1>4, <1>5, <2>1, SameCardinality DEF AsPlayout!Queue, Waiting
<1>7. added \in Waiting' /\ AsPlayout!Queue(added.packet, added.deadline)
  BY <1>3, <1>6
<1> QED
  BY <1>7 DEF AsPlayout!Next, Waiting

\* What was released.
Taken ==
  [packet : Nat, deadline : {None}, stamp : Nat, by : Producers, generation : Nat]

LEMMA ReleasePlays ==
  ASSUME QueueInv, out \in Seq(Taken),
         NEW c \in Consumers, NEW item \in heap, Release(c, item)
  PROVE  AsPlayout!Next
<1> DEFINE head == [packet |-> item.packet, deadline |-> item.deadline]
           Packets == [i \in DOMAIN out |-> out[i].packet]
<1>1. PICK taken \in Taken :
        heap' = heap \ {item} /\ out' = Append(out, taken) /\ taken.packet = item.packet
  <2>1. item \in Item
    BY DEF QueueInv
  <2> DEFINE taken == [item EXCEPT !.deadline = None]
  <2>2. taken \in Taken /\ taken.packet = item.packet
    BY <2>1 DEF Item, Taken
  <2> QED
    BY <2>2 DEF Release
<1>2. Waiting' = Waiting \ {head}
  <2>1. Waiting' = Waiting
          \ {[packet |-> i.packet, deadline |-> i.deadline] : i \in {item}}
    BY <1>1, WaitingShrinks
  <2> QED
    BY <2>1
<1>3. head \in Waiting
  BY DEF Waiting
<1>4. \A other \in Waiting : AsPlayout!Precedes(head, other)
  <2> SUFFICES ASSUME NEW other \in heap
               PROVE  AsPlayout!Precedes(head,
                        [packet |-> other.packet, deadline |-> other.deadline])
    BY DEF Waiting
  <2>1. other # item => Before(item, other)
    BY DEF Release, IsHead
  <2>2. item \in Item /\ other \in Item
    BY DEF QueueInv
  <2> QED
    BY <2>1, <2>2 DEF Before, AsPlayout!Precedes, Item
<1>5. Packets' = Append(Packets, item.packet)
  <2>1. item \in Item
    BY DEF QueueInv
  <2>2. /\ Len(out) \in Nat /\ Len(out') = Len(out) + 1
        /\ DOMAIN out' = 1..(Len(out) + 1)
        /\ DOMAIN out = 1..Len(out)
        /\ out'[Len(out) + 1] = taken
        /\ \A i \in 1..Len(out) : out'[i] = out[i]
    BY <1>1
  <2>4. Packets \in Seq(Nat) /\ Len(Packets) = Len(out)
    <3>1. ASSUME NEW i \in 1..Len(out) PROVE out[i].packet \in Nat
      <4>1. out[i] \in Taken
        BY <2>2
      <4> QED
        BY <4>1 DEF Taken
    <3>2. Packets \in [1..Len(out) -> Nat] /\ Len(out) \in Nat
      BY <2>2, <3>1
    <3> HIDE DEF Packets
    <3> QED
      BY <3>2
  <2>5. Append(Packets, item.packet)
          = [i \in 1..(Len(out) + 1) |-> IF i <= Len(out) THEN Packets[i] ELSE item.packet]
    BY <2>4
  <2>6. \A i \in 1..(Len(out) + 1) :
          out'[i].packet = IF i <= Len(out) THEN Packets[i] ELSE item.packet
    <3>1. \A i \in 1..Len(out) : out'[i].packet = Packets[i]
      BY <2>2
    <3>2. out'[Len(out) + 1].packet = item.packet
      BY <1>1, <2>2
    <3> HIDE DEF Packets
    <3> QED
      BY <2>2, <3>1, <3>2
  <2>7. Packets' = [i \in 1..(Len(out) + 1) |-> out'[i].packet]
    BY <2>2
  <2> HIDE DEF Packets
  <2> QED
    BY <2>5, <2>6, <2>7
<1>6. AsPlayout!Play(head)
  BY <1>2, <1>3, <1>4, <1>5 DEF AsPlayout!Play, Waiting
<1> QED
  BY <1>3, <1>6 DEF AsPlayout!Next, Waiting

LEMMA CancelRemoves ==
  ASSUME QueueInv, NEW id \in PacketIds, CancelPacket(id)
  PROVE  AsPlayout!Next
<1>1. PICK item \in heap : heap' = heap \ {item}
  BY CancelTakesOne
<1> DEFINE gone == [packet |-> item.packet, deadline |-> item.deadline]
<1>2. Waiting' = Waiting
        \ {[packet |-> i.packet, deadline |-> i.deadline] : i \in {item}}
  BY <1>1, WaitingShrinks
<1>3. Waiting' = Waiting \ {gone} /\ gone \in Waiting
  BY <1>2 DEF Waiting
<1>4. AsPlayout!Remove({gone})
  BY <1>3 DEF AsPlayout!Remove, Waiting, CancelPacket
<1> QED
  BY <1>3, <1>4 DEF AsPlayout!Next, Waiting

LEMMA ClearRemoves ==
  ASSUME Clear
  PROVE  AsPlayout!Next
<1>1. heap' = {} /\ out' = out
  BY DEF Clear
<1>2. Waiting' = Waiting \ Waiting
  BY <1>1 DEF Waiting
<1>3. AsPlayout!Remove(Waiting)
  BY <1>1, <1>2 DEF AsPlayout!Remove, Waiting
<1> QED
  BY <1>3 DEF AsPlayout!Next, Waiting

-----------------------------------------------------------------------------
(* The accounts *)

Stats == [scheduled : Nat, played : Nat, dropped : Nat, late : Nat, early : Nat]

Queued == {p \in Producers : stage[p] = "queued"}
Released == {c \in Consumers : stage[c] = "released"}

AccountTypes ==
  /\ stats \in Stats /\ removed \in Nat /\ out \in Seq(Taken)
  /\ IsFiniteSet(Queued) /\ IsFiniteSet(Released)

ScheduledAddsUp ==
  stats.scheduled + Cardinality(Queued) = Cardinality(heap) + removed + Len(out)

PlayedAddsUp == stats.played + Cardinality(Released) = Len(out)

AccountInv == AccountTypes /\ ScheduledAddsUp /\ PlayedAddsUp

LEMMA AccountInit == Init => AccountInv
<1> SUFFICES ASSUME Init PROVE AccountInv
  OBVIOUS
<1>1. Queued = {} /\ Released = {} /\ heap = {}
  BY DEF Init, Queued, Released
<1>2. stats \in Stats /\ stats.scheduled = 0 /\ stats.played = 0
  BY DEF Init, Stats
<1>3. removed = 0 /\ out = <<>>
  BY DEF Init
<1> QED
  BY <1>1, <1>2, <1>3, FS_EmptySet
  DEF AccountInv, AccountTypes, ScheduledAddsUp, PlayedAddsUp

\* A step that neither counts nor moves what is counted.
LEMMA NothingCounted ==
  ASSUME AccountInv, stats' \in Stats,
         stats'.scheduled = stats.scheduled, stats'.played = stats.played,
         UNCHANGED <<heap, removed, out, Queued, Released>>
  PROVE  AccountInv'
BY DEF AccountInv, AccountTypes, ScheduledAddsUp, PlayedAddsUp

\* A step of a call that is not about to count.
LEMMA SameInHand ==
  ASSUME CallInv, NEW t \in Producers \cup Consumers, NEW where \in Stages,
         stage' = [stage EXCEPT ![t] = where],
         stage[t] \notin {"queued", "released"}, where \notin {"queued", "released"}
  PROVE  Queued' = Queued /\ Released' = Released
BY DEF CallInv, CallsInv, Queued, Released

LEMMA OneMore ==
  ASSUME NEW s \in Nat, NEW q \in Nat, NEW h \in Nat, NEW r \in Nat, NEW l \in Nat,
         s + q = h + r + l
  PROVE  s + (q + 1) = (h + 1) + r + l
OBVIOUS

LEMMA AccountStep ==
  ASSUME CallInv, QueueInv, AccountInv, [Next]_vars
  PROVE  AccountInv'
<1>0. /\ Producers \cap Consumers = {}
      /\ stage \in [Producers \cup Consumers -> Stages]
  BY SchedulerAssumption DEF SchedulerAssumption, CallInv, CallsInv
<1>a. /\ Cardinality(heap) \in Nat /\ Cardinality(Queued) \in Nat
      /\ Cardinality(Released) \in Nat /\ Len(out) \in Nat
      /\ stats.scheduled \in Nat /\ stats.played \in Nat /\ removed \in Nat
  BY FS_CardinalityType DEF QueueInv, AccountInv, AccountTypes, Stats
<1>1. CASE UNCHANGED <<heap, removed, out, stats, stage>>
  BY <1>1, NothingCounted DEF AccountInv, AccountTypes, Queued, Released
<1>2. CASE Start \/ ResetTimeline \/ Stop \/ Tick \/ (\E o \in Offsets : MoveOffset(o))
           \/ UNCHANGED vars
  BY <1>1, <1>2 DEF Start, ResetTimeline, Stop, Tick, MoveOffset, vars, queue, history
<1>3. ASSUME NEW p \in Producers,
             BeginSchedule(p) \/ Expire(p) \/ SetDeadline(p) \/ RefuseToQueue(p)
      PROVE  AccountInv'
  <2>1. UNCHANGED <<heap, removed, out>>
    BY <1>3 DEF BeginSchedule, Expire, SetDeadline, RefuseToQueue, queue, history
  <2>2. Queued' = Queued /\ Released' = Released
    <3>1. PICK where \in {"adjusted", "timed", "idle"} :
            stage' = [stage EXCEPT ![p] = where]
      BY <1>3 DEF BeginSchedule, Expire, SetDeadline, RefuseToQueue, EndSchedule, GoTo
    <3>2. stage[p] \in {"idle", "adjusted", "timed"}
      BY <1>3 DEF BeginSchedule, Expire, SetDeadline, RefuseToQueue
    <3> QED
      BY <3>1, <3>2, SameInHand DEF Stages
  <2>3. /\ stats' \in Stats
        /\ stats'.scheduled = stats.scheduled /\ stats'.played = stats.played
    <3>1. CASE BeginSchedule(p) \/ RefuseToQueue(p)
      BY <3>1 DEF BeginSchedule, RefuseToQueue, AccountInv, AccountTypes
    <3>2. CASE Expire(p)
      BY <3>2 DEF Expire, AccountInv, AccountTypes, Stats
    <3>3. CASE SetDeadline(p)
      <4> DEFINE late == IF Lateness(p) > 0 THEN stats.late + 1 ELSE stats.late
                 early == IF -Lateness(p) > MaxEarly THEN stats.early + 1 ELSE stats.early
      <4>1. stats' = [stats EXCEPT !.late = late, !.early = early]
        BY <3>3 DEF SetDeadline
      <4>2. stats \in Stats /\ late \in Nat /\ early \in Nat
        BY DEF AccountInv, AccountTypes, Stats
      <4> HIDE DEF late, early
      <4> QED
        BY <4>1, <4>2 DEF Stats
    <3> QED
      BY <1>3, <3>1, <3>2, <3>3
  <2> QED
    BY <2>1, <2>2, <2>3, NothingCounted
<1>4. ASSUME NEW p \in Producers, Enqueue(p) PROVE AccountInv'
  <2>1. Queued' = Queued \cup {p} /\ p \notin Queued /\ Released' = Released
    BY <1>0, <1>4 DEF Enqueue, GoTo, Queued, Released
  <2>2. Cardinality(heap') = Cardinality(heap) + 1
    BY <1>4, EnqueueAddsOne
  <2>3. IsFiniteSet(Queued') /\ Cardinality(Queued') = Cardinality(Queued) + 1
    BY <2>1, FS_AddElement DEF AccountInv, AccountTypes
  <2>4. UNCHANGED <<stats, removed, out>>
    BY <1>4 DEF Enqueue, history
  <2>7. AccountTypes'
    BY <1>a, <2>1, <2>2, <2>3, <2>4 DEF AccountInv, AccountTypes
  <2>8. ScheduledAddsUp'
    <3>1. stats.scheduled + Cardinality(Queued) = Cardinality(heap) + removed + Len(out)
      BY DEF AccountInv, ScheduledAddsUp
    <3>2. stats.scheduled + (Cardinality(Queued) + 1)
            = (Cardinality(heap) + 1) + removed + Len(out)
      BY <1>a, <3>1, OneMore
    <3> QED
      BY <2>2, <2>3, <2>4, <3>2 DEF ScheduledAddsUp
  <2>9. PlayedAddsUp'
    BY <1>a, <2>1, <2>2, <2>3, <2>4 DEF AccountInv, PlayedAddsUp
  <2> QED
    BY <2>7, <2>8, <2>9 DEF AccountInv
<1>5. ASSUME NEW p \in Producers, RecordScheduled(p) PROVE AccountInv'
  <2>1. Queued' = Queued \ {p} /\ p \in Queued /\ Released' = Released
    BY <1>0, <1>5 DEF RecordScheduled, EndSchedule, GoTo, Queued, Released
  <2>2. IsFiniteSet(Queued') /\ Cardinality(Queued') = Cardinality(Queued) - 1
    BY <2>1, FS_RemoveElement DEF AccountInv, AccountTypes
  <2>3. /\ stats' \in Stats /\ stats'.scheduled = stats.scheduled + 1
        /\ stats'.played = stats.played
    BY <1>5 DEF RecordScheduled, AccountInv, AccountTypes, Stats
  <2>4. UNCHANGED <<heap, removed, out>>
    BY <1>5 DEF RecordScheduled, queue, history
  <2>7. AccountTypes'
    BY <1>a, <2>1, <2>2, <2>3, <2>4 DEF AccountInv, AccountTypes
  <2>8. ScheduledAddsUp'
    <3>1. /\ Cardinality(Queued') = Cardinality(Queued) - 1
          /\ stats'.scheduled = stats.scheduled + 1
      BY <2>2, <2>3
    <3>2. stats.scheduled + Cardinality(Queued) = Cardinality(heap) + removed + Len(out)
      BY DEF AccountInv, ScheduledAddsUp
    <3>3. Cardinality(heap') = Cardinality(heap) /\ removed' = removed /\ out' = out
      BY <2>4
    <3> QED
      BY <1>a, <3>1, <3>2, <3>3 DEF ScheduledAddsUp
  <2>9. PlayedAddsUp'
    BY <1>a, <2>1, <2>2, <2>3, <2>4 DEF AccountInv, PlayedAddsUp
  <2> QED
    BY <2>7, <2>8, <2>9 DEF AccountInv
<1>6. ASSUME NEW c \in Consumers, BeginNext(c) \/ Underflow(c) PROVE AccountInv'
  <2>1. UNCHANGED <<heap, removed, out, stats>>
    BY <1>6 DEF BeginNext, Underflow, queue, history
  <2>2. PICK where \in {"timed", "idle"} : stage' = [stage EXCEPT ![c] = where]
    BY <1>6 DEF BeginNext, Underflow, GoTo
  <2>3. stage[c] \in {"idle", "timed"}
    BY <1>6 DEF BeginNext, Underflow
  <2>4. Queued' = Queued /\ Released' = Released
    BY <2>2, <2>3, SameInHand DEF Stages
  <2> QED
    BY <2>1, <2>4, NothingCounted DEF AccountInv, AccountTypes
<1>7. ASSUME NEW c \in Consumers, NEW item \in heap, Release(c, item) PROVE AccountInv'
  <2>1. Released' = Released \cup {c} /\ c \notin Released /\ Queued' = Queued
    BY <1>0, <1>7 DEF Release, GoTo, Queued, Released
  <2>2. IsFiniteSet(Released') /\ Cardinality(Released') = Cardinality(Released) + 1
    BY <2>1, FS_AddElement DEF AccountInv, AccountTypes
  <2>3. Cardinality(heap') = Cardinality(heap) - 1
    BY <1>7, TakeOne DEF Release
  <2>4. [item EXCEPT !.deadline = None] \in Taken
    BY DEF QueueInv, Item, Taken
  <2>5. out' \in Seq(Taken) /\ Len(out') = Len(out) + 1
    BY <1>7, <2>4 DEF Release, AccountInv, AccountTypes
  <2>6. UNCHANGED <<stats, removed>>
    BY <1>7 DEF Release
  <2>7. AccountTypes'
    BY <1>a, <2>1, <2>2, <2>3, <2>5, <2>6 DEF AccountInv, AccountTypes
  <2>8. ScheduledAddsUp'
    <3>1. /\ Cardinality(Queued') = Cardinality(Queued)
          /\ stats'.scheduled = stats.scheduled /\ removed' = removed
      BY <2>1, <2>6
    <3>2. stats.scheduled + Cardinality(Queued) = Cardinality(heap) + removed + Len(out)
      BY DEF AccountInv, ScheduledAddsUp
    <3>3. Len(out') = Len(out) + 1 /\ Cardinality(heap') = Cardinality(heap) - 1
      BY <2>3, <2>5
    <3> QED
      BY <1>a, <3>1, <3>2, <3>3 DEF ScheduledAddsUp
  <2>9. PlayedAddsUp'
    <3>1. stats.played + Cardinality(Released) = Len(out)
      BY DEF AccountInv, PlayedAddsUp
    <3>2. stats.played + (Cardinality(Released) + 1) = Len(out) + 1
      BY <1>a, <3>1
    <3> QED
      BY <2>2, <2>5, <2>6, <3>2 DEF PlayedAddsUp
  <2> QED
    BY <2>7, <2>8, <2>9 DEF AccountInv
<1>8. ASSUME NEW c \in Consumers, RecordPlayed(c) PROVE AccountInv'
  <2>1. Released' = Released \ {c} /\ c \in Released /\ Queued' = Queued
    BY <1>0, <1>8 DEF RecordPlayed, GoTo, Queued, Released
  <2>2. IsFiniteSet(Released') /\ Cardinality(Released') = Cardinality(Released) - 1
    BY <2>1, FS_RemoveElement DEF AccountInv, AccountTypes
  <2>3. /\ stats' \in Stats /\ stats'.played = stats.played + 1
        /\ stats'.scheduled = stats.scheduled
    BY <1>8 DEF RecordPlayed, AccountInv, AccountTypes, Stats
  <2>4. UNCHANGED <<heap, removed, out>>
    BY <1>8 DEF RecordPlayed, queue, history
  <2>7. AccountTypes'
    BY <1>a, <2>1, <2>2, <2>3, <2>4 DEF AccountInv, AccountTypes
  <2>8. ScheduledAddsUp'
    BY <1>a, <2>1, <2>2, <2>3, <2>4 DEF AccountInv, ScheduledAddsUp
  <2>9. PlayedAddsUp'
    BY <1>a, <2>1, <2>2, <2>3, <2>4 DEF AccountInv, PlayedAddsUp
  <2> QED
    BY <2>7, <2>8, <2>9 DEF AccountInv
<1>9. ASSUME NEW id \in PacketIds, CancelPacket(id) PROVE AccountInv'
  <2>1. Cardinality(heap') = Cardinality(heap) - 1
    BY <1>9, CancelTakesOne, TakeOne
  <2>2. removed' = removed + 1 /\ UNCHANGED <<stats, out, stage>>
    BY <1>9 DEF CancelPacket
  <2>7. AccountTypes'
    BY <1>a, <2>1, <2>2 DEF AccountInv, AccountTypes, Queued, Released
  <2>8. ScheduledAddsUp'
    BY <1>a, <2>1, <2>2 DEF AccountInv, ScheduledAddsUp, Queued, Released
  <2>9. PlayedAddsUp'
    BY <1>a, <2>1, <2>2 DEF AccountInv, PlayedAddsUp, Queued, Released
  <2> QED
    BY <2>7, <2>8, <2>9 DEF AccountInv
<1>10. CASE Clear
  <2>1. heap' = {} /\ removed' = removed + Cardinality(heap)
        /\ UNCHANGED <<stats, out, stage>>
    BY <1>10 DEF Clear
  <2>2. Cardinality(heap') = 0
    BY <2>1, FS_EmptySet
  <2>7. AccountTypes'
    BY <1>a, <2>1, <2>2 DEF AccountInv, AccountTypes, Queued, Released
  <2>8. ScheduledAddsUp'
    BY <1>a, <2>1, <2>2 DEF AccountInv, ScheduledAddsUp, Queued, Released
  <2>9. PlayedAddsUp'
    BY <1>a, <2>1, <2>2 DEF AccountInv, PlayedAddsUp, Queued, Released
  <2> QED
    BY <2>7, <2>8, <2>9 DEF AccountInv
<1> QED
  BY <1>2, <1>3, <1>4, <1>5, <1>6, <1>7, <1>8, <1>9, <1>10 DEF Next, ScheduleStep, NextStep

LEMMA FullInvariance == Spec => [](CallInv /\ QueueInv /\ AccountInv)
<1>1. Init => CallInv /\ QueueInv /\ AccountInv
  BY CallInit, QueueInit, AccountInit
<1>2. CallInv /\ QueueInv /\ AccountInv /\ [Next]_vars
        => (CallInv /\ QueueInv /\ AccountInv)'
  BY CallStep, QueueStep, AccountStep
<1> QED
  BY <1>1, <1>2, PTL DEF Spec

\* Every packet that was queued waits, was removed, or was released once, and the
\* counters say so but for the calls that have yet to count (scheduler.rs:161-229).
THEOREM PacketsAreAccounted == Spec => []EveryPacketOnce
<1>1. AccountInv => EveryPacketOnce
  BY DEF AccountInv, ScheduledAddsUp, PlayedAddsUp, EveryPacketOnce, At, Queued, Released
<1> QED
  BY <1>1, FullInvariance, PTL

\* The scheduler is a queue by deadline: every step queues, plays or removes as
\* Playout does, or changes nothing that Playout sees (playback_queue.rs:78-145).
THEOREM SchedulerIsPlayout == Spec => ImplementsPlayout
<1>1. Init => AsPlayout!Init
  BY DEF Init, AsPlayout!Init
<1>2. CallInv /\ QueueInv /\ AccountInv /\ [Next]_vars => [AsPlayout!Next]_(AsPlayout!vars)
  <2> SUFFICES ASSUME CallInv, QueueInv, AccountInv, [Next]_vars
               PROVE  [AsPlayout!Next]_(AsPlayout!vars)
    OBVIOUS
  <2>1. CASE UNCHANGED <<heap, out>>
    BY <2>1, QuietIsStutter
  <2>2. CASE Start \/ ResetTimeline \/ Stop \/ Tick \/ (\E o \in Offsets : MoveOffset(o))
             \/ UNCHANGED vars
    BY <2>1, <2>2 DEF Start, ResetTimeline, Stop, Tick, MoveOffset, vars, queue, history
  <2>3. ASSUME NEW p \in Producers, BeginSchedule(p) \/ ScheduleStep(p)
        PROVE  [AsPlayout!Next]_(AsPlayout!vars)
    BY <2>1, <2>3, EnqueueQueues DEF BeginSchedule, ScheduleStep, Expire, SetDeadline,
         RefuseToQueue, RecordScheduled, queue, history
  <2>4. ASSUME NEW c \in Consumers, BeginNext(c) \/ NextStep(c)
        PROVE  [AsPlayout!Next]_(AsPlayout!vars)
    BY <2>1, <2>4, ReleasePlays DEF BeginNext, NextStep, Underflow, RecordPlayed, queue,
         history, AccountInv, AccountTypes
  <2>5. CASE (\E id \in PacketIds : CancelPacket(id)) \/ Clear
    BY <2>5, CancelRemoves, ClearRemoves
  <2> QED
    BY <2>2, <2>3, <2>4, <2>5 DEF Next
<1> QED
  BY <1>1, <1>2, FullInvariance, PTL DEF Spec, ImplementsPlayout, AsPlayout!Spec

-----------------------------------------------------------------------------
(* The deadline *)

\* No packet is released before its time on the timeline it was scheduled on, though
\* the time was read before the queue was locked (scheduler.rs:180-213).
THEOREM NeverBeforeDeadline == Spec => NotBeforeDeadline
<1> DEFINE Due ==
      \A c \in Consumers, item \in heap \ heap' :
        stage'[c] = "released" /\ stage[c] = "timed" =>
          (item.generation = generation /\ seen_at[c] = generation =>
             item.deadline <= elapsed)
<1>1. CallInv /\ QueueInv /\ [Next]_vars => Due
  <2> SUFFICES ASSUME CallInv, QueueInv, [Next]_vars, NEW c \in Consumers,
                      NEW item \in heap \ heap',
                      stage'[c] = "released", stage[c] = "timed",
                      seen_at[c] = generation
               PROVE  item.deadline <= elapsed
    OBVIOUS
  <2>0. /\ Producers \cap Consumers = {}
        /\ stage \in [Producers \cup Consumers -> Stages]
    BY SchedulerAssumption DEF SchedulerAssumption, CallInv, CallsInv
  <2>1. CASE UNCHANGED heap
    BY <2>1
  <2>2. CASE UNCHANGED stage
    BY <2>2
  <2>3. PICK d \in Consumers : \E other \in heap : Release(d, other)
    BY <2>0, <2>1, <2>2 DEF Next, ScheduleStep, NextStep, Start, ResetTimeline, Stop, Tick,
         MoveOffset, vars, BeginSchedule, Expire, SetDeadline, RefuseToQueue, Enqueue,
         RecordScheduled, EndSchedule, BeginNext, Underflow, RecordPlayed, CancelPacket,
         Clear, GoTo, queue
  <2>4. PICK other \in heap : Release(d, other)
    BY <2>3
  <2>5. d = c /\ other = item
    BY <2>0, <2>4 DEF Release, GoTo
  <2>6. item.deadline <= now[c] /\ now[c] <= elapsed
    BY <2>4, <2>5 DEF Release, CallInv, TimeHasCome
  <2> QED
    BY <2>6 DEF QueueInv, Item, CallInv, CallsInv, TimelineInv
<1>2. CallInv /\ QueueInv /\ [Next]_vars => [Due]_vars
  BY <1>1
<1> QED
  BY <1>2, Invariance, PTL DEF Spec, NotBeforeDeadline

-----------------------------------------------------------------------------
(* The order of release *)

\* The deadline of a timestamp on a timeline with this anchor.
DeadlineFrom(a, t) ==
  (IF t >= a.timestamp THEN Quantize(a.local + t - a.timestamp) ELSE a.local) + Latency

InHand == {timed[p] : p \in {q \in Producers : stage[q] = "timed"}}
Items == heap \cup InHand

\* The deadlines of this generation are those of one anchor.
AnchorInv ==
  /\ anchor # NoAnchor => Quantize(anchor.local) = anchor.local
  /\ \A x \in Items :
       /\ x.generation <= generation
       /\ x.generation = generation =>
            /\ anchor # NoAnchor
            /\ x.deadline = DeadlineFrom(anchor, x.stamp)

\* On one timeline, the packet with the later stamp is due later.
DueInv ==
  \A x, y \in Items :
    x.generation = y.generation /\ x.stamp <= y.stamp => x.deadline <= y.deadline

\* What a producer has yet to schedule was captured after what it has scheduled.
TurnInv ==
  \A p \in Producers :
    /\ stage[p] = "timed" => timed[p].by = p
    /\ \A k \in DOMAIN Offered[p] : k >= next[p] =>
         /\ \A x \in heap : x.by = p => x.packet <= Offered[p][k]
         /\ \A i \in DOMAIN out : out[i].by = p => out[i].packet <= Offered[p][k]

\* What was released was captured, or at least stamped, before what waits.
OutInv ==
  \A i \in DOMAIN out, x \in heap :
    out[i].by = x.by /\ out[i].generation = x.generation
      => out[i].packet <= x.packet \/ out[i].stamp < x.stamp

OrderInv == AnchorInv /\ DueInv /\ TurnInv /\ OutInv /\ ReleasedInOrder

LEMMA TimesGrows ==
  ASSUME NEW m \in Int, NEW n \in Int, m < n, NEW g \in Nat
  PROVE  m * g \in Int /\ n * g \in Int /\ m * g + g <= n * g
<1>1. PICK k \in Nat : n = m + 1 + k
  <2>1. n - m - 1 \in Nat /\ n = m + 1 + (n - m - 1)
    OBVIOUS
  <2> QED
    BY <2>1
<1>2. m * g \in Int /\ k * g \in Nat /\ n * g = m * g + g + k * g
  BY <1>1
<1> QED
  BY <1>2

\* Quantizing keeps the order of times, and does nothing the second time.
LEMMA QuantizeKeepsOrder ==
  ASSUME NEW d \in Nat, NEW e \in Nat, d <= e
  PROVE  Quantize(d) <= Quantize(e)
<1>1. Resolution \in Nat \ {0}
  BY SchedulerAssumption DEF SchedulerAssumption, validate
<1> DEFINE q == d \div Resolution
           r == e \div Resolution
<1>2. /\ q \in Int /\ q * Resolution <= d /\ d < (q + 1) * Resolution
      /\ r \in Int /\ r * Resolution <= e /\ e < (r + 1) * Resolution
  BY <1>1
<1>3. Quantize(d) = q * Resolution /\ Quantize(e) = r * Resolution
  BY DEF Quantize
<1> HIDE DEF q, r
<1>4. (r + 1) * Resolution = r * Resolution + Resolution
  BY <1>1, <1>2
<1>5. q * Resolution \in Int /\ r * Resolution \in Int
  BY <1>1, <1>2
<1>6. ~(r < q)
  <2> SUFFICES ASSUME r < q PROVE FALSE
    OBVIOUS
  <2>1. r * Resolution + Resolution <= q * Resolution
    BY <1>1, <1>2, TimesGrows
  <2> QED
    BY <1>1, <1>2, <1>4, <1>5, <2>1
<1>7. q * Resolution <= r * Resolution
  <2>1. CASE q = r
    BY <1>5, <2>1
  <2>2. CASE q < r
    <3>1. q * Resolution + Resolution <= r * Resolution
      BY <1>1, <1>2, <2>2, TimesGrows
    <3> QED
      BY <1>1, <1>5, <3>1
  <2> QED
    BY <1>2, <1>6, <2>1, <2>2
<1> QED
  BY <1>3, <1>7

LEMMA QuantizeTwice ==
  ASSUME NEW d \in Nat
  PROVE  Quantize(Quantize(d)) = Quantize(d)
<1>1. Resolution \in Nat \ {0}
  BY SchedulerAssumption DEF SchedulerAssumption, validate
<1> DEFINE q == d \div Resolution
           e == q * Resolution
           r == e \div Resolution
<1>2. q \in Int
  BY <1>1
<1>3. Quantize(d) = e /\ Quantize(e) = r * Resolution
  BY DEF Quantize
<1> HIDE DEF q
<1>4. e \in Int
  BY <1>1, <1>2
<1>5. r \in Int /\ r * Resolution <= e /\ e < (r + 1) * Resolution
  <2> HIDE DEF e
  <2> QED
    BY <1>1, <1>4
<1> HIDE DEF r
<1>6. (r + 1) * Resolution = r * Resolution + Resolution /\ r * Resolution \in Int
  BY <1>1, <1>5
<1>7. q * Resolution = e
  BY DEF e
<1> HIDE DEF e
<1>8. ~(r < q)
  <2> SUFFICES ASSUME r < q PROVE FALSE
    OBVIOUS
  <2>1. r * Resolution + Resolution <= q * Resolution
    BY <1>1, <1>2, <1>5, TimesGrows
  <2> QED
    BY <1>1, <1>4, <1>5, <1>6, <1>7, <2>1
<1>9. ~(q < r)
  <2> SUFFICES ASSUME q < r PROVE FALSE
    OBVIOUS
  <2>1. q * Resolution + Resolution <= r * Resolution
    BY <1>1, <1>2, <1>5, TimesGrows
  <2> QED
    BY <1>1, <1>4, <1>5, <1>6, <1>7, <2>1
<1>10. q = r
  BY <1>2, <1>5, <1>8, <1>9
<1> QED
  BY <1>3, <1>7, <1>10

LEMMA DeadlineGrows ==
  ASSUME NEW a \in Anchors, Quantize(a.local) = a.local,
         NEW s \in Nat, NEW t \in Nat, s <= t
  PROVE  DeadlineFrom(a, s) <= DeadlineFrom(a, t)
<1>1. a.timestamp \in Nat /\ a.local \in Nat /\ Latency \in Nat
  BY SchedulerAssumption DEF SchedulerAssumption, validate, Anchors
<1>2. CASE s >= a.timestamp
  <2>1. /\ a.local + s - a.timestamp \in Nat /\ a.local + t - a.timestamp \in Nat
        /\ a.local + s - a.timestamp <= a.local + t - a.timestamp
        /\ t >= a.timestamp
    BY <1>1, <1>2
  <2>2. /\ Quantize(a.local + s - a.timestamp) <= Quantize(a.local + t - a.timestamp)
        /\ Quantize(a.local + s - a.timestamp) \in Nat
        /\ Quantize(a.local + t - a.timestamp) \in Nat
    BY <2>1, QuantizeKeepsOrder, QuantizeRoundsDown
  <2> QED
    BY <1>1, <1>2, <2>1, <2>2 DEF DeadlineFrom
<1>3. CASE s < a.timestamp /\ t >= a.timestamp
  <2>1. a.local + t - a.timestamp \in Nat /\ a.local <= a.local + t - a.timestamp
    BY <1>1, <1>3
  <2>2. /\ Quantize(a.local) <= Quantize(a.local + t - a.timestamp)
        /\ Quantize(a.local + t - a.timestamp) \in Nat
    BY <1>1, <2>1, QuantizeKeepsOrder, QuantizeRoundsDown
  <2> QED
    BY <1>1, <1>3, <2>2 DEF DeadlineFrom
<1>4. CASE t < a.timestamp
  <2>1. s < a.timestamp
    BY <1>1, <1>4
  <2> QED
    BY <1>1, <1>4, <2>1 DEF DeadlineFrom
<1> QED
  BY <1>1, <1>2, <1>3, <1>4

\* A call that leaves "timed" forgets what it carried; one that stays keeps it.
LEMMA ItemsKept ==
  ASSUME heap' \subseteq Items,
         \A p \in Producers : stage'[p] = "timed" => stage[p] = "timed" /\ timed'[p] = timed[p]
  PROVE  Items' \subseteq Items
<1>1. InHand' \subseteq InHand
  BY DEF InHand
<1> QED
  BY <1>1 DEF Items

LEMMA AnchorKept ==
  ASSUME AnchorInv, DueInv, Items' \subseteq Items, generation' = generation, anchor' = anchor
  PROVE  AnchorInv' /\ DueInv'
<1>1. DueInv'
  BY DEF DueInv
<1>2. AnchorInv'
  BY DEF AnchorInv, NoAnchor, DeadlineFrom, Quantize
<1> QED
  BY <1>1, <1>2

LEMMA TurnKept ==
  ASSUME CallsInv, CallsInv', TurnInv, OutInv, ReleasedInOrder, heap' \subseteq heap, out' = out,
         \A p \in Producers :
           /\ next[p] <= next'[p]
           /\ stage'[p] = "timed" => stage[p] = "timed" /\ timed'[p] = timed[p]
  PROVE  TurnInv' /\ OutInv' /\ ReleasedInOrder'
<1>1. TurnInv'
  <2> SUFFICES ASSUME NEW p \in Producers
               PROVE  /\ stage'[p] = "timed" => timed'[p].by = p
                      /\ \A k \in DOMAIN Offered[p] : k >= next'[p] =>
                           /\ \A x \in heap' : x.by = p => x.packet <= Offered[p][k]
                           /\ \A i \in DOMAIN out' : out'[i].by = p => out'[i].packet <= Offered[p][k]
    BY DEF TurnInv
  <2>1. stage'[p] = "timed" => timed'[p].by = p
    BY DEF TurnInv
  <2>2. ASSUME NEW k \in DOMAIN Offered[p], k >= next'[p] PROVE k >= next[p]
    <3>1. k \in Nat /\ next[p] \in Nat /\ next'[p] \in Nat
      BY SchedulerAssumption DEF SchedulerAssumption, CallsInv
    <3> QED
      BY <2>2, <3>1
  <2> QED
    BY <2>1, <2>2 DEF TurnInv
<1>2. OutInv'
  BY DEF OutInv
<1>3. ReleasedInOrder'
  BY DEF ReleasedInOrder
<1> QED
  BY <1>1, <1>2, <1>3

\* The first packet on a timeline anchors it; no packet of it was there before.
LEMMA AnchoredOnce ==
  ASSUME TimelineInv, AnchorInv, DueInv, NEW t \in Nat, anchor' = AnchorFor(t), elapsed' = elapsed,
         generation' = generation, Items' \subseteq Items
  PROVE  AnchorInv' /\ DueInv'
<1>1. CASE anchor # NoAnchor
  <2>1. anchor' = anchor
    BY <1>1 DEF AnchorFor
  <2> QED
    BY <2>1, AnchorKept
<1>2. CASE anchor = NoAnchor
  <2>1. anchor'.local = CurrentTime
    BY <1>2 DEF AnchorFor
  <2>2. Quantize(anchor'.local) = anchor'.local
    BY <2>1, QuantizeTwice DEF CurrentTime, TimelineInv
  <2>3. \A x \in Items' : x.generation <= generation /\ x.generation # generation
    BY <1>2 DEF AnchorInv
  <2>4. AnchorInv'
    BY <2>2, <2>3 DEF AnchorInv, Quantize
  <2>5. DueInv'
    BY DEF DueInv
  <2> QED
    BY <2>4, <2>5
<1> QED
  BY <1>1, <1>2

\* A packet gets its deadline.
LEMMA DeadlineOrder ==
  ASSUME CallInv, CallInv', QueueInv, OrderInv, NEW p \in Producers, SetDeadline(p)
  PROVE  OrderInv'
<1> DEFINE n == [packet |-> Packet(p), deadline |-> Deadline(adjusted[p]),
                 stamp |-> adjusted[p], by |-> p, generation |-> generation]
           a == AnchorFor(adjusted[p])
<1>1. /\ stage[p] = "adjusted" /\ anchor' = a /\ timed' = [timed EXCEPT ![p] = n]
      /\ stage' = [stage EXCEPT ![p] = "timed"]
      /\ UNCHANGED <<elapsed, generation, heap, out, next>>
  BY DEF SetDeadline, GoTo, queue, history
<1>2. /\ timed'[p] = n /\ stage'[p] = "timed"
      /\ \A q \in Producers : q # p => timed'[q] = timed[q] /\ stage'[q] = stage[q]
  BY <1>1 DEF CallInv, CallsInv
<1>3. /\ adjusted[p] \in Nat /\ a \in Anchors
      /\ n.generation = generation /\ n.deadline = Deadline(adjusted[p])
      /\ n.stamp = adjusted[p] /\ n.by = p
  BY <1>1, DeadlineIsTime DEF CallInv, CallsInv
<1>4. n.deadline = DeadlineFrom(a, n.stamp) /\ n.stamp \in Nat
  BY <1>3 DEF Deadline, ExpectedPlaybackTime, DeadlineFrom
<1>5. /\ generation \in Nat
      /\ anchor = NoAnchor \/ (anchor \in Anchors /\ a = anchor)
      /\ a # NoAnchor
  <2>1. anchor # NoAnchor => a = anchor
    BY DEF AnchorFor
  <2>2. a # NoAnchor
    BY <1>3 DEF NoAnchor, None, Anchors
  <2> QED
    BY <2>1, <2>2 DEF CallInv, TimelineInv
<1> HIDE DEF n, a
<1>6. Quantize(a.local) = a.local
  <2>1. CASE anchor = NoAnchor
    <3>1. a.local = CurrentTime
      BY <2>1 DEF AnchorFor, a
    <3> QED
      BY <3>1, QuantizeTwice DEF CurrentTime, CallInv, TimelineInv
  <2>2. CASE anchor # NoAnchor
    BY <1>5, <2>2 DEF OrderInv, AnchorInv
  <2> QED
    BY <2>1, <2>2
<1>7. Items' \subseteq Items \cup {n}
  BY <1>1, <1>2 DEF Items, InHand
<1>8. \A x \in Items : /\ x.generation <= generation
                       /\ x.generation = generation => x.deadline = DeadlineFrom(a, x.stamp)
  BY <1>5 DEF OrderInv, AnchorInv
<1>9. AnchorInv'
  <2>1. anchor' # NoAnchor => Quantize(anchor'.local) = anchor'.local
    BY <1>1, <1>6
  <2>2. \A x \in Items' :
          /\ x.generation <= generation
          /\ x.generation = generation => x.deadline = DeadlineFrom(a, x.stamp)
    <3>1. n.generation <= generation
      BY <1>3, <1>5
    <3> QED
      BY <1>4, <1>7, <1>8, <3>1
  <2> QED
    BY <1>1, <1>5, <2>1, <2>2 DEF AnchorInv, Quantize, DeadlineFrom
<1>10. \A x \in Items : x.stamp \in Nat
  <2>1. Items \subseteq Item
    BY DEF QueueInv, CallInv, PacketInHand, Items, InHand
  <2> QED
    BY <2>1 DEF Item
<1>11. DueInv'
  <2>1. ASSUME NEW x \in Items, x.generation = generation
        PROVE  /\ x.stamp <= n.stamp => x.deadline <= n.deadline
               /\ n.stamp <= x.stamp => n.deadline <= x.deadline
    BY <1>3, <1>4, <1>6, <1>8, <1>10, <2>1, DeadlineGrows
  <2>2. n.deadline <= n.deadline
    BY <1>3, <1>4, <1>6, DeadlineGrows
  <2> SUFFICES ASSUME NEW x \in Items \cup {n}, NEW y \in Items \cup {n},
                      x.generation = y.generation, x.stamp <= y.stamp
               PROVE  x.deadline <= y.deadline
    BY <1>7 DEF DueInv
  <2>3. CASE x \in Items /\ y \in Items
    BY <2>3 DEF OrderInv, DueInv
  <2>4. CASE x = n \/ y = n
    BY <1>3, <2>1, <2>2, <2>4
  <2> QED
    BY <2>3, <2>4
<1>12. TurnInv'
  BY <1>1, <1>2, <1>3 DEF OrderInv, TurnInv
<1>13. OutInv' /\ ReleasedInOrder'
  BY <1>1 DEF OrderInv, OutInv, ReleasedInOrder
<1> QED
  BY <1>9, <1>11, <1>12, <1>13 DEF OrderInv

\* A call that is over, and a packet that left the queue, disturb nothing.
LEMMA CallEnds ==
  ASSUME NEW p \in Producers, CallsInv, EndSchedule(p)
  PROVE  \A q \in Producers :
           /\ next[q] <= next'[q]
           /\ stage'[q] = "timed" => stage[q] = "timed" /\ timed'[q] = timed[q]
BY DEF EndSchedule, GoTo, CallsInv

LEMMA NothingScheduled ==
  ASSUME CallInv, CallInv', OrderInv, heap' \subseteq heap, out' = out,
         generation' = generation, anchor' = anchor,
         \A p \in Producers :
           /\ next[p] <= next'[p]
           /\ stage'[p] = "timed" => stage[p] = "timed" /\ timed'[p] = timed[p]
  PROVE  OrderInv'
<1>1. Items' \subseteq Items
  BY ItemsKept DEF Items
<1>2. AnchorInv' /\ DueInv'
  BY <1>1, AnchorKept DEF OrderInv
<1>3. TurnInv' /\ OutInv' /\ ReleasedInOrder'
  BY TurnKept DEF OrderInv, CallInv
<1> QED
  BY <1>2, <1>3 DEF OrderInv

\* A packet that is too late anchors the timeline all the same.
LEMMA ExpireOrder ==
  ASSUME CallInv, CallInv', OrderInv, NEW p \in Producers, Expire(p)
  PROVE  OrderInv'
<1>1. /\ anchor' = AnchorFor(adjusted[p]) /\ EndSchedule(p)
      /\ UNCHANGED <<elapsed, generation, heap, out, offset>>
  BY DEF Expire, queue, history
<1>2. \A q \in Producers :
           /\ next[q] <= next'[q]
           /\ stage'[q] = "timed" => stage[q] = "timed" /\ timed'[q] = timed[q]
  BY <1>1, CallEnds DEF CallInv
<1>3. AnchorInv' /\ DueInv'
  <2>1. Items' \subseteq Items
    BY <1>1, <1>2, ItemsKept DEF Items
  <2>2. adjusted[p] \in Nat
    BY DEF CallInv, CallsInv
  <2> QED
    BY <1>1, <2>1, <2>2, AnchoredOnce DEF OrderInv, CallInv
<1>4. TurnInv' /\ OutInv' /\ ReleasedInOrder'
  BY <1>1, <1>2, TurnKept DEF OrderInv, CallInv
<1> QED
  BY <1>3, <1>4 DEF OrderInv

\* A new timeline has no packets.
LEMMA ResetOrder ==
  ASSUME CallInv, CallInv', QueueInv, OrderInv, ResetTimeline
  PROVE  OrderInv'
<1>1. /\ anchor' = NoAnchor /\ generation' = generation + 1 /\ generation \in Nat
      /\ UNCHANGED <<heap, timed, next, adjusted, out, stage, offset>>
  BY DEF ResetTimeline, queue, scheduling, history, CallInv, TimelineInv
<1>2. Items' = Items
  BY <1>1 DEF Items, InHand
<1>3. DueInv'
  BY <1>2 DEF OrderInv, DueInv
<1>4. AnchorInv'
  <2> SUFFICES ASSUME NEW x \in Items
               PROVE  x.generation <= generation + 1 /\ x.generation # generation + 1
    BY <1>1, <1>2 DEF AnchorInv
  <2>1. x.generation \in Nat
    <3>1. x \in Item
      BY DEF CallInv, PacketInHand, QueueInv, Items, InHand
    <3> QED
      BY <3>1 DEF Item
  <2>2. x.generation <= generation
    BY DEF OrderInv, AnchorInv
  <2> QED
    BY <1>1, <2>1, <2>2
<1>5. TurnInv' /\ OutInv' /\ ReleasedInOrder'
  <2>1. \A q \in Producers : next[q] <= next'[q]
    BY <1>1 DEF CallInv, CallsInv
  <2> QED
    BY <1>1, <2>1, TurnKept DEF OrderInv, CallInv
<1> QED
  BY <1>3, <1>4, <1>5 DEF OrderInv

\* A packet is queued: it was in hand before, and its producer's packets before it
\* were captured before.
LEMMA EnqueueOrder ==
  ASSUME CapturedInOrder, CallInv, CallInv', QueueInv, AccountTypes, OrderInv,
         NEW p \in Producers, Enqueue(p)
  PROVE  OrderInv'
<1>1. /\ stage[p] = "timed" /\ heap' = heap \cup {timed[p]}
      /\ timed' = [timed EXCEPT ![p] = NotTimed] /\ stage' = [stage EXCEPT ![p] = "queued"]
      /\ UNCHANGED <<anchor, generation, next, out>>
  BY DEF Enqueue, GoTo, timeline, history
<1>2. \A q \in Producers :
        stage'[q] = "timed" => stage[q] = "timed" /\ timed'[q] = timed[q]
  BY <1>1 DEF CallInv, CallsInv
<1>3. timed[p] \in InHand /\ timed[p].by = p /\ timed[p].packet = Packet(p)
  BY <1>1 DEF InHand, OrderInv, TurnInv, CallInv, PacketInHand
<1>4. AnchorInv' /\ DueInv'
  <2>1. Items' \subseteq Items
    BY <1>1, <1>2, <1>3, ItemsKept DEF Items
  <2> QED
    BY <1>1, <2>1, AnchorKept DEF OrderInv
<1>5. next[p] \in DOMAIN Offered[p] /\ next[p] \in Nat /\ Packet(p) = Offered[p][next[p]]
  BY <1>1 DEF CallInv, CallsInv, PacketInHand, Packet
<1>6. TurnInv'
  <2> SUFFICES ASSUME NEW q \in Producers
               PROVE  /\ stage'[q] = "timed" => timed'[q].by = q
                      /\ \A k \in DOMAIN Offered[q] : k >= next[q] =>
                           /\ \A x \in heap' : x.by = q => x.packet <= Offered[q][k]
                           /\ \A i \in DOMAIN out : out[i].by = q => out[i].packet <= Offered[q][k]
    BY <1>1 DEF TurnInv
  <2>1. stage'[q] = "timed" => timed'[q].by = q
    BY <1>2 DEF OrderInv, TurnInv
  <2>2. ASSUME NEW k \in DOMAIN Offered[q], k >= next[q], NEW x \in heap', x.by = q
        PROVE  x.packet <= Offered[q][k]
    <3>1. CASE x \in heap
      BY <2>2, <3>1 DEF OrderInv, TurnInv
    <3>2. CASE x = timed[p]
      <4>1. q = p /\ x.packet = Offered[p][next[p]]
        BY <1>3, <1>5, <2>2, <3>2
      <4>2. k \in Nat /\ next[p] <= k
        BY <1>5, <2>2, <4>1, SchedulerAssumption DEF SchedulerAssumption
      <4> QED
        BY <1>5, <2>2, <4>1, <4>2 DEF CapturedInOrder
    <3> QED
      BY <1>1, <2>2, <3>1, <3>2
  <2> QED
    BY <2>1, <2>2 DEF OrderInv, TurnInv
<1>7. OutInv'
  <2> SUFFICES ASSUME NEW i \in DOMAIN out, NEW x \in heap',
                      out[i].by = x.by, out[i].generation = x.generation
               PROVE  out[i].packet <= x.packet \/ out[i].stamp < x.stamp
    BY <1>1 DEF OutInv
  <2>1. CASE x \in heap
    BY <2>1 DEF OrderInv, OutInv
  <2>2. CASE x = timed[p]
    <3>1. next[p] >= next[p]
      BY <1>5
    <3> QED
      BY <1>3, <1>5, <2>2, <3>1 DEF OrderInv, TurnInv
  <2> QED
    BY <1>1, <2>1, <2>2
<1>8. ReleasedInOrder'
  BY <1>1 DEF OrderInv, ReleasedInOrder
<1> QED
  BY <1>4, <1>6, <1>7, <1>8 DEF OrderInv

\* The head is released: of its producer's packets on its timeline, those that stay
\* were captured or stamped later.
LEMMA ReleaseOrder ==
  ASSUME CallInv, CallInv', QueueInv, AccountTypes, OrderInv,
         NEW c \in Consumers, NEW item \in heap, Release(c, item)
  PROVE  OrderInv'
<1> DEFINE taken == [item EXCEPT !.deadline = None]
<1>1. /\ IsHead(item) /\ heap' = heap \ {item} /\ out' = Append(out, taken)
      /\ stage' = [stage EXCEPT ![c] = "released"]
      /\ UNCHANGED <<anchor, generation, timed, next>>
  BY DEF Release, GoTo, timeline, scheduling
<1>2. item \in Item /\ heap \subseteq Item
  BY DEF QueueInv
<1>3. /\ taken.packet = item.packet /\ taken.by = item.by
      /\ taken.generation = item.generation /\ taken.stamp = item.stamp
  BY <1>2 DEF Item
<1>4. /\ Len(out) \in Nat /\ DOMAIN out = 1..Len(out) /\ DOMAIN out' = 1..(Len(out) + 1)
      /\ out'[Len(out) + 1] = taken
      /\ \A i \in 1..Len(out) : out'[i] = out[i]
  <2> HIDE DEF taken
  <2>1. taken \in Taken
    BY <1>2 DEF taken, Item, Taken
  <2> QED
    BY <1>1, <2>1 DEF AccountTypes
<1> HIDE DEF taken
<1>5. \A q \in Producers : stage'[q] = stage[q]
  <2>1. Producers \cap Consumers = {}
    BY SchedulerAssumption DEF SchedulerAssumption
  <2> QED
    BY <1>1, <2>1 DEF CallInv, CallsInv
<1>6. AnchorInv' /\ DueInv'
  <2>1. Items' \subseteq Items
    BY <1>1, <1>5, ItemsKept DEF Items
  <2> QED
    BY <1>1, <2>1, AnchorKept DEF OrderInv
<1>7. TurnInv'
  <2> SUFFICES ASSUME NEW p \in Producers
               PROVE  /\ stage[p] = "timed" => timed[p].by = p
                      /\ \A k \in DOMAIN Offered[p] : k >= next[p] =>
                           /\ \A x \in heap' : x.by = p => x.packet <= Offered[p][k]
                           /\ \A i \in DOMAIN out' : out'[i].by = p => out'[i].packet <= Offered[p][k]
    BY <1>1, <1>5 DEF TurnInv
  <2>1. ASSUME NEW k \in DOMAIN Offered[p], k >= next[p], NEW i \in DOMAIN out', out'[i].by = p
        PROVE  out'[i].packet <= Offered[p][k]
    <3>1. CASE i \in 1..Len(out)
      BY <1>4, <2>1, <3>1 DEF OrderInv, TurnInv
    <3>2. CASE i = Len(out) + 1
      BY <1>3, <1>4, <2>1, <3>2 DEF OrderInv, TurnInv
    <3> QED
      BY <1>4, <2>1, <3>1, <3>2
  <2> QED
    BY <1>1, <2>1 DEF OrderInv, TurnInv
<1>8. OutInv'
  <2> SUFFICES ASSUME NEW i \in DOMAIN out', NEW x \in heap', x \in heap, x # item,
                      out'[i].by = x.by, out'[i].generation = x.generation
               PROVE  out'[i].packet <= x.packet \/ out'[i].stamp < x.stamp
    BY <1>1 DEF OutInv
  <2>1. CASE i \in 1..Len(out)
    BY <1>4, <2>1 DEF OrderInv, OutInv
  <2>2. CASE i = Len(out) + 1
    <3>1. Before(item, x)
      BY <1>1 DEF IsHead
    <3>2. x.stamp <= item.stamp => x.deadline <= item.deadline
      <4>1. x.generation = item.generation
        BY <1>3, <1>4, <2>2
      <4> QED
        BY <4>1 DEF OrderInv, DueInv, Items
    <3>3. /\ x.packet \in Nat /\ item.packet \in Nat
          /\ x.deadline \in Nat /\ item.deadline \in Nat
          /\ x.stamp \in Nat /\ item.stamp \in Nat
      BY <1>2 DEF Item
    <3>4. item.packet <= x.packet \/ item.stamp < x.stamp
      BY <3>1, <3>2, <3>3 DEF Before
    <3> QED
      BY <1>3, <1>4, <2>2, <3>4
  <2> QED
    BY <1>4, <2>1, <2>2
<1>9. ReleasedInOrder'
  <2> SUFFICES ASSUME NEW i \in DOMAIN out', NEW j \in DOMAIN out', i < j,
                      out'[i].by = out'[j].by, out'[i].generation = out'[j].generation
               PROVE  out'[i].packet <= out'[j].packet \/ out'[i].stamp < out'[j].stamp
    BY DEF ReleasedInOrder
  <2>1. i \in 1..Len(out)
    BY <1>4
  <2>2. CASE j \in 1..Len(out)
    BY <1>4, <2>1, <2>2 DEF OrderInv, ReleasedInOrder
  <2>3. CASE j = Len(out) + 1
    BY <1>3, <1>4, <2>1, <2>3 DEF OrderInv, OutInv
  <2> QED
    BY <1>4, <2>2, <2>3
<1> QED
  BY <1>6, <1>7, <1>8, <1>9 DEF OrderInv

LEMMA OrderInit == Init => OrderInv
<1> SUFFICES ASSUME Init PROVE OrderInv
  OBVIOUS
<1>1. /\ heap = {} /\ out = <<>> /\ anchor = NoAnchor
      /\ \A p \in Producers : stage[p] = "idle"
  BY DEF Init
<1>2. Items = {}
  BY <1>1 DEF Items, InHand
<1> QED
  BY <1>1, <1>2 DEF OrderInv, AnchorInv, DueInv, TurnInv, OutInv, ReleasedInOrder

LEMMA OrderStep ==
  ASSUME CapturedInOrder, CallInv, CallInv', QueueInv, AccountTypes, OrderInv, [Next]_vars
  PROVE  OrderInv'
<1>1. Producers \cap Consumers = {}
  BY SchedulerAssumption DEF SchedulerAssumption
<1>2. \A p \in Producers : next[p] <= next[p]
  BY DEF CallInv, CallsInv
<1>3. CASE Start \/ Stop \/ Tick \/ UNCHANGED vars
  BY <1>1, <1>2, <1>3, NothingScheduled DEF Start, Stop, Tick, vars, timeline, queue,
       scheduling, history
<1>4. CASE ResetTimeline
  BY <1>4, ResetOrder
<1>5. ASSUME NEW o \in Offsets, MoveOffset(o) PROVE OrderInv'
  BY <1>2, <1>5, NothingScheduled DEF MoveOffset, timeline, queue, scheduling, history
<1>6. ASSUME NEW p \in Producers, RefuseToQueue(p) \/ RecordScheduled(p) PROVE OrderInv'
  <2>1. EndSchedule(p) /\ UNCHANGED <<heap, out, generation, anchor>>
    BY <1>6 DEF RefuseToQueue, RecordScheduled, timeline, queue, history
  <2> QED
    BY <1>1, <2>1, CallEnds, NothingScheduled DEF CallInv
<1>7. ASSUME NEW p \in Producers, BeginSchedule(p) \/ ScheduleStep(p) PROVE OrderInv'
  <2>1. ASSUME BeginSchedule(p) PROVE OrderInv'
    <3>1. /\ stage' = [stage EXCEPT ![p] = "adjusted"]
          /\ UNCHANGED <<anchor, generation, heap, timed, next, out>>
      BY <2>1 DEF BeginSchedule, GoTo, timeline, queue, history
    <3>2. \A q \in Producers : stage'[q] = "timed" => stage[q] = "timed"
      BY <3>1 DEF CallInv, CallsInv
    <3> QED
      BY <1>2, <3>1, <3>2, NothingScheduled
  <2> QED
    BY <1>6, <1>7, <2>1, ExpireOrder, DeadlineOrder, EnqueueOrder DEF ScheduleStep
<1>8. ASSUME NEW c \in Consumers, BeginNext(c) \/ Underflow(c) \/ RecordPlayed(c) PROVE OrderInv'
  <2>1. \A p \in Producers : stage'[p] = stage[p]
    BY <1>1, <1>8 DEF BeginNext, Underflow, RecordPlayed, GoTo, CallInv, CallsInv
  <2>2. UNCHANGED <<anchor, generation, heap, out, timed, next>>
    BY <1>8 DEF BeginNext, Underflow, RecordPlayed, timeline, queue, scheduling, history
  <2> QED
    BY <1>1, <1>2, <2>1, <2>2, NothingScheduled
<1>9. ASSUME NEW c \in Consumers, BeginNext(c) \/ NextStep(c) PROVE OrderInv'
  BY <1>8, <1>9, ReleaseOrder DEF NextStep
<1>10. ASSUME NEW id \in PacketIds, CancelPacket(id) PROVE OrderInv'
  BY <1>1, <1>2, <1>10, NothingScheduled DEF CancelPacket, timeline, scheduling
<1>11. CASE Clear
  BY <1>1, <1>2, <1>11, NothingScheduled DEF Clear, timeline, scheduling
<1> QED
  BY <1>3, <1>4, <1>5, <1>7, <1>9, <1>10, <1>11 DEF Next

\* What one producer schedules in the order of capture on one timeline is released
\* in order, whoever takes it, however far the offset moves: a later packet is
\* released first only if its timestamp with the offset is the earlier one
\* (scheduler.rs:133-145, playback_queue.rs:47-60, timeline.rs:77-91).
THEOREM PlayedInCaptureOrder ==
  ASSUME CapturedInOrder
  PROVE  Spec => []ReleasedInOrder
<1>1. Init => OrderInv
  BY OrderInit
<1>2. (CallInv /\ QueueInv /\ AccountInv) /\ (CallInv /\ QueueInv /\ AccountInv)'
        /\ OrderInv /\ [Next]_vars => OrderInv'
  BY OrderStep DEF AccountInv
<1>3. OrderInv => ReleasedInOrder
  BY DEF OrderInv
<1> QED
  BY <1>1, <1>2, <1>3, FullInvariance, PTL DEF Spec

=============================================================================
