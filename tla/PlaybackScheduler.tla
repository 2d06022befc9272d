-------------------------- MODULE PlaybackScheduler --------------------------
(***************************************************************************)
(* The scheduler crate: PlaybackScheduler (scheduler.rs), the deadline     *)
(* ordered PlaybackQueue (playback_queue.rs) behind an asynchronous mutex, *)
(* and the PlaybackTimeline (timeline.rs) behind another.                  *)
(*                                                                         *)
(* No operation holds two locks, so a call of schedule_packet() or         *)
(* next_packet() is a step for the running flag and one for each lock it   *)
(* takes, and start() is two: it sets the flag, then resets the timeline.  *)
(* What a call read under one lock may be old when it takes the next.      *)
(*                                                                         *)
(* A generation is the life of a timeline between two resets; it is        *)
(* history, as a packet's producer and its stamp are.  The offset moves    *)
(* as it likes: the synchronizer steps it by tens of milliseconds within   *)
(* seconds, and by more at the first measurement.                          *)
(***************************************************************************)
EXTENDS Integers, Sequences, FiniteSets

CONSTANTS
  Producers,     \* callers of schedule_packet()
  Consumers,     \* callers of next_packet()
  Offered,       \* the packets each producer offers; packet n is the n-th captured
  Gap,           \* time between the capture of two packets
  Offsets,       \* values Synchronizer.current_offset() takes
  Latency,       \* config.playback_latency
  MaxLate,       \* config.max_late_threshold
  MaxEarly,      \* config.max_early_threshold
  Capacity,      \* config.queue_capacity
  Resolution,    \* config.timeline_resolution
  MaxTime,       \* bound: where the timeline's clock stops
  MaxStarts,     \* bound: calls of start()
  MaxRemovals    \* bound: calls of cancel_packet() and clear()

\* SchedulerConfig::validate, and the types of its fields.  (The interval at which
\* an application polls is not read by the scheduler.)
validate ==
  /\ Latency \in Nat /\ MaxLate \in Nat \ {0} /\ MaxEarly \in Nat \ {0}
  /\ Capacity \in Nat \ {0} /\ Resolution \in Nat \ {0}

ASSUME SchedulerAssumption ==
  /\ validate
  /\ Producers \cap Consumers = {}
  /\ Offered \in [Producers -> Seq(Nat \ {0})] /\ Gap \in Nat
  /\ Offsets \subseteq Int /\ 0 \in Offsets
  /\ MaxTime \in Nat /\ MaxStarts \in Nat /\ MaxRemovals \in Nat

PacketIds == UNION {{Offered[p][i] : i \in DOMAIN Offered[p]} : p \in Producers}

None == -1
NoAnchor == [timestamp |-> None, local |-> None]

VARIABLES
  running,       \* PlaybackScheduler.running
  resetting,     \* calls of start() that have set it and not reset the timeline
  elapsed,       \* PlaybackTimeline.started_at.elapsed()
  anchor,        \* PlaybackTimeline.anchor: NoAnchor, or a
                 \* packet's timestamp and when it was seen
  heap,          \* PlaybackQueue.heap: the scheduled packets
  ids,           \* PlaybackQueue.ids
  stats,         \* StatisticsTracker
  offset,        \* the Synchronizer's current offset
  stage,         \* where each call is
  adjusted,      \* schedule_packet(): the timestamp with the offset
  timed,         \* schedule_packet(): the packet with its deadline, and as history
                 \* the adjusted timestamp (its stamp) the deadline is made of
  now,           \* next_packet(): the time it read
  \* Bounds and history:
  next,          \* which of its packets each producer offers next
  generation,    \* resets of the timeline
  seen_at,       \* the generation of each consumer's `now`
  starts, removals,
  removed,       \* packets cancelled or cleared
  out            \* packets next_packet() took, in order

timeline == <<elapsed, anchor, generation>>
queue == <<heap, ids>>
scheduling == <<adjusted, timed, next>>
polling == <<now, seen_at>>
control == <<running, resetting, starts>>
history == <<removals, removed, out>>
vars == <<timeline, queue, scheduling, polling, control, history, stats, offset, stage>>

NotTimed ==
  [packet |-> None, deadline |-> None, stamp |-> None, by |-> None, generation |-> None]

Init ==
  /\ running = FALSE /\ resetting = 0 /\ starts = 0
  /\ elapsed = 0 /\ anchor = NoAnchor /\ generation = 0
  /\ heap = {} /\ ids = {}
  /\ stats = [scheduled |-> 0, played |-> 0, dropped |-> 0, late |-> 0, early |-> 0]
  /\ offset = 0
  /\ stage = [t \in Producers \cup Consumers |-> "idle"]
  /\ adjusted = [p \in Producers |-> 0]
  /\ timed = [p \in Producers |-> NotTimed]
  /\ next = [p \in Producers |-> 1]
  /\ now = [c \in Consumers |-> 0] /\ seen_at = [c \in Consumers |-> 0]
  /\ removals = 0 /\ removed = 0 /\ out = <<>>

Packet(p) == Offered[p][next[p]]

GoTo(t, where) == stage' = [stage EXCEPT ![t] = where]

-----------------------------------------------------------------------------
(* PlaybackTimeline *)

Quantize(duration) == (duration \div Resolution) * Resolution

CurrentTime == Quantize(elapsed)

\* The anchor once a packet with this timestamp was seen.
AnchorFor(timestamp) ==
  IF anchor = NoAnchor THEN [timestamp |-> timestamp, local |-> CurrentTime] ELSE anchor

\* A timestamp before the anchor's is taken for the anchor's.
ExpectedPlaybackTime(timestamp) ==
  LET a == AnchorFor(timestamp)
  IN  IF timestamp >= a.timestamp
      THEN Quantize(a.local + timestamp - a.timestamp) ELSE a.local

Deadline(timestamp) == ExpectedPlaybackTime(timestamp) + Latency

-----------------------------------------------------------------------------
(* start() and stop() *)

\* start() finds the flag down and raises it ...
Start ==
  /\ ~running
  /\ starts < MaxStarts
  /\ running' = TRUE
  /\ resetting' = resetting + 1
  /\ starts' = starts + 1
  /\ UNCHANGED <<timeline, queue, scheduling, polling, history, stats, offset, stage>>

\* ... and then resets the timeline.
ResetTimeline ==
  /\ resetting > 0
  /\ resetting' = resetting - 1
  /\ elapsed' = 0 /\ anchor' = NoAnchor /\ generation' = generation + 1
  /\ UNCHANGED <<running, starts, queue, scheduling, polling, history, stats,
                 offset, stage>>

Stop ==
  /\ running
  /\ running' = FALSE
  /\ UNCHANGED <<resetting, starts, timeline, queue, scheduling, polling, history,
                 stats, offset, stage>>

-----------------------------------------------------------------------------
(* schedule_packet() *)

\* A call finds the scheduler running and awaits the synchronizer's offset; the
\* sum is cast to u64.  (One step: no step of another call between the two
\* could tell them apart.)
BeginSchedule(p) ==
  /\ stage[p] = "idle" /\ next[p] \in DOMAIN Offered[p]
  /\ running
  /\ LET sum == Packet(p) * Gap + offset
     IN  adjusted' = [adjusted EXCEPT ![p] = IF sum < 0 THEN 0 ELSE sum]
  /\ GoTo(p, "adjusted")
  /\ UNCHANGED <<timeline, queue, timed, next, polling, control, history, stats, offset>>

\* The call is over.
EndSchedule(p) ==
  /\ GoTo(p, "idle")
  /\ next' = [next EXCEPT ![p] = @ + 1]
  /\ timed' = [timed EXCEPT ![p] = NotTimed]
  /\ adjusted' = [adjusted EXCEPT ![p] = 0]

Lateness(p) == CurrentTime - Deadline(adjusted[p])

\* Under the timeline's lock, during which the clock does not move: the deadline,
\* and whether it is missed by far ...
Expire(p) ==
  /\ stage[p] = "adjusted"
  /\ Lateness(p) > MaxLate
  /\ anchor' = AnchorFor(adjusted[p])
  /\ stats' = [stats EXCEPT !.dropped = @ + 1]
  /\ EndSchedule(p)
  /\ UNCHANGED <<elapsed, generation, queue, polling, control, history, offset>>

\* ... or not, and the packet counts as late, early or neither.
SetDeadline(p) ==
  /\ stage[p] = "adjusted"
  /\ Lateness(p) <= MaxLate
  /\ anchor' = AnchorFor(adjusted[p])
  /\ timed' = [timed EXCEPT ![p] = [packet |-> Packet(p), deadline |-> Deadline(adjusted[p]),
                                    stamp |-> adjusted[p], by |-> p,
                                    generation |-> generation]]
  /\ adjusted' = [adjusted EXCEPT ![p] = 0]
  /\ stats' = [stats EXCEPT !.late = IF Lateness(p) > 0 THEN @ + 1 ELSE @,
                            !.early = IF -Lateness(p) > MaxEarly THEN @ + 1 ELSE @]
  /\ GoTo(p, "timed")
  /\ UNCHANGED <<elapsed, generation, queue, next, polling, control,
                 history, offset>>

\* Mutated form of IsFull: one packet more than the capacity.
IsOverfull == Cardinality(ids) > Capacity

IsFull == Cardinality(ids) >= Capacity

\* Mutated form of RefuseToQueue: it is counted before it is refused.
RefuseAndCount(p) ==
  /\ stage[p] = "timed"
  /\ Packet(p) \in ids \/ IsFull
  /\ stats' = [stats EXCEPT !.scheduled = @ + 1]
  /\ EndSchedule(p)
  /\ UNCHANGED <<timeline, queue, polling, control, history, offset>>

\* Under the queue's lock: a packet that is queued already, or finds no room,
\* is refused ...
RefuseToQueue(p) ==
  /\ stage[p] = "timed"
  /\ Packet(p) \in ids \/ IsFull
  /\ EndSchedule(p)
  /\ UNCHANGED <<timeline, queue, polling, control, history, stats, offset>>

\* ... any other is queued ...
Enqueue(p) ==
  /\ stage[p] = "timed"
  /\ Packet(p) \notin ids /\ ~IsFull
  /\ heap' = heap \cup {timed[p]}
  /\ ids' = ids \cup {Packet(p)}
  /\ timed' = [timed EXCEPT ![p] = NotTimed]
  /\ GoTo(p, "queued")
  /\ UNCHANGED <<timeline, adjusted, next, polling, control, history, stats, offset>>

\* ... and counted.
RecordScheduled(p) ==
  /\ stage[p] = "queued"
  /\ stats' = [stats EXCEPT !.scheduled = @ + 1]
  /\ EndSchedule(p)
  /\ UNCHANGED <<timeline, queue, polling, control, history, offset>>

-----------------------------------------------------------------------------
(* next_packet(), cancel_packet() and clear() *)

\* A call finds the scheduler running and reads the time under the timeline's
\* lock.  (One step, for the same reason.)
BeginNext(c) ==
  /\ stage[c] = "idle"
  /\ running
  /\ now' = [now EXCEPT ![c] = CurrentTime]
  /\ seen_at' = [seen_at EXCEPT ![c] = generation]
  /\ GoTo(c, "timed")
  /\ UNCHANGED <<timeline, queue, scheduling, control, history, stats, offset>>

\* Mutated form of Before: the later of two packets with one deadline first.
BeforeByDeadline(a, b) ==
  a.deadline < b.deadline \/ (a.deadline = b.deadline /\ a.packet > b.packet)

\* The heap's order: deadline, then sequence number.
Before(a, b) ==
  a.deadline < b.deadline \/ (a.deadline = b.deadline /\ a.packet < b.packet)

IsHead(item) == item \in heap /\ \A other \in heap \ {item} : Before(item, other)

Forget(c) ==
  /\ now' = [now EXCEPT ![c] = 0]
  /\ seen_at' = [seen_at EXCEPT ![c] = 0]

\* Mutated form of Release: what is taken is not what was found due.
ReleaseOther(c, item) ==
  /\ stage[c] = "timed"
  /\ \E head \in heap : IsHead(head) /\ head.deadline <= now[c]
  /\ heap' = heap \ {item}
  /\ ids' = ids \ {item.packet}
  /\ out' = Append(out, [item EXCEPT !.deadline = None])
  /\ Forget(c)
  /\ GoTo(c, "released")
  /\ UNCHANGED <<timeline, scheduling, control, removals, removed, stats, offset>>

\* Under the queue's lock: the packet at the head is due ...
Release(c, item) ==
  /\ stage[c] = "timed"
  /\ IsHead(item) /\ item.deadline <= now[c]
  /\ heap' = heap \ {item}
  /\ ids' = ids \ {item.packet}
  /\ out' = Append(out, [item EXCEPT !.deadline = None])
  /\ Forget(c)
  /\ GoTo(c, "released")
  /\ UNCHANGED <<timeline, scheduling, control, removals, removed, stats, offset>>

\* ... or there is none, and the call returns None.
Underflow(c) ==
  /\ stage[c] = "timed"
  /\ \A item \in heap : IsHead(item) => item.deadline > now[c]
  /\ Forget(c)
  /\ GoTo(c, "idle")
  /\ UNCHANGED <<timeline, queue, scheduling, control, history, stats, offset>>

RecordPlayed(c) ==
  /\ stage[c] = "released"
  /\ stats' = [stats EXCEPT !.played = @ + 1]
  /\ GoTo(c, "idle")
  /\ UNCHANGED <<timeline, queue, scheduling, polling, control, history, offset>>

\* cancel_packet(): a packet that is not queued is left alone.
CancelPacket(id) ==
  /\ removals < MaxRemovals
  /\ id \in ids
  /\ ids' = ids \ {id}
  /\ heap' = {item \in heap : item.packet # id}
  /\ removed' = removed + 1
  /\ removals' = removals + 1
  /\ UNCHANGED <<timeline, scheduling, polling, control, out, stats, offset, stage>>

\* Mutated form of Clear: the identifiers stay.
ClearHeapOnly ==
  /\ removals < MaxRemovals
  /\ heap' = {}
  /\ removed' = removed + Cardinality(heap)
  /\ removals' = removals + 1
  /\ UNCHANGED <<timeline, ids, scheduling, polling, control, out, stats, offset, stage>>

Clear ==
  /\ removals < MaxRemovals
  /\ heap' = {} /\ ids' = {}
  /\ removed' = removed + Cardinality(heap)
  /\ removals' = removals + 1
  /\ UNCHANGED <<timeline, scheduling, polling, control, out, stats, offset, stage>>

-----------------------------------------------------------------------------
(* The clock and the synchronizer *)

Tick ==
  /\ elapsed < MaxTime
  /\ elapsed' = elapsed + 1
  /\ UNCHANGED <<anchor, generation, queue, scheduling, polling, control, history,
                 stats, offset, stage>>

MoveOffset(o) ==
  /\ offset # o
  /\ offset' = o
  /\ UNCHANGED <<timeline, queue, scheduling, polling, control, history, stats, stage>>

ScheduleStep(p) ==
  \/ Expire(p) \/ SetDeadline(p)
  \/ RefuseToQueue(p) \/ Enqueue(p) \/ RecordScheduled(p)

NextStep(c) ==
  \/ Underflow(c) \/ RecordPlayed(c)
  \/ \E item \in heap : Release(c, item)

Next ==
  \/ Start \/ ResetTimeline \/ Stop
  \/ \E p \in Producers : BeginSchedule(p) \/ ScheduleStep(p)
  \/ \E c \in Consumers : BeginNext(c) \/ NextStep(c)
  \/ \E id \in PacketIds : CancelPacket(id)
  \/ Clear
  \/ Tick
  \/ \E o \in Offsets : MoveOffset(o)

Spec == Init /\ [][Next]_vars

-----------------------------------------------------------------------------
(* Properties *)

TypeOK ==
  /\ running \in BOOLEAN /\ resetting \in 0..MaxStarts /\ starts \in 0..MaxStarts
  /\ elapsed \in 0..MaxTime
  /\ anchor = NoAnchor \/ anchor.local \in 0..elapsed
  /\ ids \subseteq PacketIds
  /\ offset \in Offsets
  /\ stage \in [Producers \cup Consumers ->
                  {"idle", "adjusted", "timed", "queued", "released"}]
  /\ \A p \in Producers : adjusted[p] \in Nat
  /\ \A item \in heap : item.packet \in PacketIds /\ item.deadline \in Nat
  /\ now \in [Consumers -> 0..MaxTime]

\* The set of identifiers and the heap say the same, and every identifier is
\* queued once, within the capacity: a copy of a queued packet never gets in and
\* cancel_packet() always finds what it looks for (playback_queue.rs:82-145).
IdsMirrorHeap ==
  /\ ids = {item.packet : item \in heap}
  /\ Cardinality(ids) = Cardinality(heap)
  /\ Cardinality(heap) <= Capacity

At(where, tasks) == Cardinality({t \in tasks : stage[t] = where})

\* A packet that was queued is in the queue, was removed by cancel_packet() or
\* clear(), or was released once: the counters agree with the queue except for
\* the calls that have yet to count (scheduler.rs:161-229).
EveryPacketOnce ==
  /\ stats.scheduled + At("queued", Producers) = Cardinality(heap) + removed + Len(out)
  /\ stats.played + At("released", Consumers) = Len(out)

\* Packets are scheduled in the order of capture.
CapturedInOrder ==
  \A p \in Producers : \A i, j \in DOMAIN Offered[p] :
    i <= j => Offered[p][i] <= Offered[p][j]

\* What one producer schedules in order on one timeline is released in order,
\* whichever consumer takes it, unless the offset fell between the two by so much
\* that their timestamps changed places: a later packet that is released first
\* was stamped earlier (scheduler.rs:133-145, playback_queue.rs:47-60,
\* timeline.rs:77-91).
ReleasedInOrder ==
  \A i, j \in DOMAIN out :
    i < j /\ out[i].by = out[j].by /\ out[i].generation = out[j].generation
      => out[i].packet <= out[j].packet \/ out[i].stamp < out[j].stamp

\* No packet is released before its deadline on the timeline it was scheduled on,
\* even though the time is read before the queue is locked; unless the timeline
\* is reset in between (scheduler.rs:180-213).
NotBeforeDeadline ==
  [][\A c \in Consumers, item \in heap \ heap' :
       stage'[c] = "released" /\ stage[c] = "timed" =>
         (item.generation = generation /\ seen_at[c] = generation =>
            item.deadline <= elapsed)]_vars

AsPlayout == INSTANCE Playout WITH
  queued <- {[packet |-> item.packet, deadline |-> item.deadline] : item \in heap},
  played <- [i \in DOMAIN out |-> out[i].packet]

\* The scheduler is a queue by deadline, whatever locks its calls take in turn
\* and whenever the timeline is reset (playback_queue.rs:78-145).
ImplementsPlayout == AsPlayout!Spec

=============================================================================
