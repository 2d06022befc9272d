---------------------------- MODULE JitterBuffer ----------------------------
(***************************************************************************)
(* The buffer layer: BufferManager (buffer_manager.rs), the JitterBuffer   *)
(* it guards with one mutex (jitter_buffer.rs) and the PacketWindow that   *)
(* decides what is admissible (packet_window.rs).                          *)
(*                                                                         *)
(* Every operation of BufferManager holds the mutex from its first to its  *)
(* last statement, but two things go on meanwhile: size() reads approx_len *)
(* without the mutex, and the clock runs.  So an operation changes the     *)
(* buffer in one step, or in a step for each packet that it drains or each *)
(* reading of the clock, and stores the length in a step of its own, with  *)
(* which it lets the mutex go.  `mutex` says what its holder is at.        *)
(*                                                                         *)
(* Time is relative: a packet carries its age, and Tick makes every packet *)
(* older.  Ages stop at AgeCap, beyond which no comparison of the code can *)
(* tell two ages apart.                                                    *)
(***************************************************************************)
EXTENDS Integers, Sequences, FiniteSets, Functions

CONSTANTS
  MaxSeq,              \* u64::MAX, where sequence arithmetic saturates
  MaxBufferSize,       \* config.max_buffer_size
  TargetDelay,         \* config.target_delay
  MinTargetDelay,      \* config.min_target_delay
  MaxTargetDelay,      \* config.max_target_delay
  MaxPacketAge,        \* config.max_packet_age
  DuplicateCacheSize,  \* config.duplicate_cache_size
  AdaptiveEnabled,     \* config.adaptive_enabled
  AdaptiveStep,        \* config.adaptive_step
  JitterHeadrooms,     \* values 4 * jitter estimate may take on an arrival
  MaxArrivals          \* bound: packets offered to the buffer in a behaviour

\* BufferConfig::validate and the types of its fields; initial_buffer_size, which
\* nothing else reads, is left out.
validate ==
  /\ MaxBufferSize \in Nat \ {0}
  /\ MinTargetDelay \in Nat /\ MaxTargetDelay \in Nat
  /\ TargetDelay \in MinTargetDelay..MaxTargetDelay
  /\ DuplicateCacheSize \in Nat \ {0}
  /\ MaxPacketAge \in Nat /\ AdaptiveEnabled \in BOOLEAN /\ AdaptiveStep \in Nat

ASSUME ConfigAssumption ==
  /\ validate
  /\ MaxSeq \in Nat
  /\ JitterHeadrooms \subseteq Nat /\ 0 \in JitterHeadrooms
  /\ MaxArrivals \in Nat

SeqNum == 0..MaxSeq
None == -1                    \* Option::None; no sequence number is negative

AtLeast(a, b) == IF a >= b THEN a ELSE b
AtMost(a, b) == IF a <= b THEN a ELSE b
Clamp(d, low, high) == AtMost(AtLeast(d, low), high)

AgeCap == 1 + AtLeast(MaxPacketAge, MaxTargetDelay)

VARIABLES
  entries,             \* JitterBuffer.entries: sequence number -> age
  expected_sequence,   \* PacketWindow.expected_sequence
  seen_cache,          \* PacketWindow.seen_cache, oldest first
  seen_set,            \* PacketWindow.seen_set
  window_stats,        \* PacketWindow.stats
  target_delay,        \* JitterBuffer.target_delay
  saw_arrival,         \* JitterBuffer.last_arrival.is_some()
  totals,              \* JitterBuffer.packets_*_total and max_occupancy
  approx_len,          \* BufferManager.approx_len
  mutex,               \* what the holder of BufferManager.inner is at, or "free"
  judged,              \* the last packet evict_stale() looked at in this call
  \* History, read by no guard:
  arrivals,            \* packets offered so far
  out,                 \* sequence numbers pop_packet returned since the reset
  passed,              \* [first, last, count] of PacketWindow::advance since the reset
  lost_to_reset        \* packets that were buffered when reset() cleared them

window == <<expected_sequence, seen_cache, seen_set, window_stats>>
history == <<arrivals, out, passed, lost_to_reset>>
vars == <<entries, window, target_delay, saw_arrival, totals, approx_len,
          mutex, judged, history>>

buffered == DOMAIN entries

IsLowest(s, S) == s \in S /\ \A t \in S : s <= t

call == <<mutex, judged>>

\* An operation has the mutex and nothing to do but to store the length, after
\* an insertion or after a removal; it evicts; it drains.
Holders == {"pushed", "removed", "evicting", "flushing"}

Init ==
  /\ entries = [s \in {} |-> 0]
  /\ expected_sequence = None
  /\ seen_cache = <<>>
  /\ seen_set = {}
  /\ window_stats = [lost |-> 0, duplicates |-> 0]
  /\ target_delay = TargetDelay
  /\ saw_arrival = FALSE
  /\ totals = [buffered |-> 0, delivered |-> 0, dropped |-> 0, occupancy |-> 0]
  /\ approx_len = 0
  /\ mutex = "free" /\ judged = None
  /\ arrivals = 0
  /\ out = <<>>
  /\ passed = [first |-> None, last |-> None, count |-> 0]
  /\ lost_to_reset = 0

-----------------------------------------------------------------------------
(* PacketWindow *)

\* Mutated forms of Admissible: the cache is not consulted; only the cache is.
AdmissibleByWatermark(s) == expected_sequence = None \/ s >= expected_sequence
AdmissibleByCache(s) == s \notin seen_set

\* admit() accepts: not remembered as delivered, and not behind the watermark.
Admissible(s) ==
  /\ s \notin seen_set
  /\ expected_sequence = None \/ s >= expected_sequence

\* Mutated form of Remember: the set keeps what leaves the cache.
RememberInSet(s) ==
  LET grown == Append(seen_cache, s)
  IN  /\ seen_cache' = IF Len(grown) > DuplicateCacheSize THEN Tail(grown) ELSE grown
      /\ seen_set' = seen_set \cup {s}

\* remember(): the oldest number leaves the cache once it is over capacity.
Remember(s) ==
  IF s \in seen_set
  THEN UNCHANGED <<seen_cache, seen_set>>
  ELSE LET grown == Append(seen_cache, s)
           full  == Len(grown) > DuplicateCacheSize
       IN  /\ seen_cache' = IF full THEN Tail(grown) ELSE grown
           /\ seen_set' = (seen_set \cup {s}) \ (IF full THEN {Head(grown)} ELSE {})

\* saturating_add(1): the watermark after s, which sticks at u64::MAX.
After(s) == AtMost(s + 1, MaxSeq)

\* Mutated form of Gap: counted from the packet before the watermark.
GapOffByOne(s) ==
  IF expected_sequence # None /\ s > expected_sequence
  THEN s - expected_sequence + 1 ELSE 0

\* The gap between the watermark and s, counted as lost.
Gap(s) ==
  IF expected_sequence # None /\ s > expected_sequence
  THEN s - expected_sequence ELSE 0

\* advance(): s leaves the buffer towards the consumer.
Advance(s) ==
  /\ window_stats' = [window_stats EXCEPT !.lost = @ + Gap(s)]
  /\ expected_sequence' = AtLeast(expected_sequence, After(s))
  /\ Remember(s)
  /\ passed' = [first |-> IF passed.first = None THEN s ELSE passed.first,
                last  |-> s,
                count |-> passed.count + 1]

-----------------------------------------------------------------------------
(* JitterBuffer, under BufferManager's mutex *)

\* Mutated form of Adapted: no clamp.
AdaptedUnclamped(headroom) == AtMost(target_delay + AdaptiveStep, TargetDelay + headroom)

\* adapt_target_delay() with `headroom` = 4 * jitter estimate.
Adapted(headroom) ==
  LET candidate == Clamp(TargetDelay + headroom, MinTargetDelay, MaxTargetDelay)
      stepped == IF candidate > target_delay
                 THEN AtMost(target_delay + AdaptiveStep, candidate)
                 ELSE AtLeast(AtLeast(target_delay - AdaptiveStep, 0), candidate)
  IN  Clamp(stepped, MinTargetDelay, MaxTargetDelay)

\* The packet dropped to make room: the lowest sequence number of a full buffer.
Overflow ==
  IF Cardinality(buffered) >= MaxBufferSize
  THEN {s \in buffered : IsLowest(s, buffered)} ELSE {}

\* insert_packet() refuses: a copy of a buffered packet is not counted, one
\* the window refuses is.
Refuse(s) ==
  /\ s \in buffered \/ ~Admissible(s)
  /\ window_stats' = IF s \in buffered THEN window_stats
                     ELSE [window_stats EXCEPT !.duplicates = @ + 1]
  /\ UNCHANGED <<entries, expected_sequence, seen_cache, seen_set, target_delay,
                 saw_arrival, totals, out, passed, lost_to_reset>>

\* insert_packet() stores the packet, dropping another if the buffer is full.
\* The jitter estimate is still zero when no packet came before.
Store(s, headroom) ==
  /\ s \notin buffered /\ Admissible(s)
  /\ saw_arrival \/ headroom = 0
  /\ LET kept == (buffered \ Overflow) \cup {s}
     IN  /\ entries' = [t \in kept |-> IF t = s THEN 0 ELSE entries[t]]
         /\ totals' = [totals EXCEPT !.buffered = @ + 1,
                                     !.dropped = @ + Cardinality(Overflow),
                                     !.occupancy = AtLeast(@, Cardinality(kept))]
  /\ target_delay' = IF AdaptiveEnabled THEN Adapted(headroom) ELSE target_delay
  /\ saw_arrival' = TRUE
  /\ UNCHANGED <<window, out, passed, lost_to_reset>>

\* push_packet() takes the mutex and calls insert_packet().
PushPacket(s, headroom) ==
  /\ mutex = "free" /\ mutex' = "pushed"
  /\ arrivals < MaxArrivals
  /\ arrivals' = arrivals + 1
  /\ Refuse(s) \/ Store(s, headroom)
  /\ UNCHANGED <<approx_len, judged>>

\* pop_packet() takes the mutex; next_packet() begins with evict_stale() ...
BeginPop ==
  /\ mutex = "free" /\ mutex' = "evicting"
  /\ UNCHANGED <<entries, window, target_delay, saw_arrival, totals, approx_len,
                 judged, history>>

\* The packets evict_stale() has not looked at yet.
Unjudged == {s \in buffered : s > judged}

\* A packet leaves the buffer: what is left.
Without(s) == Restrict(entries, buffered \ {s})

\* ... which reads the clock for each packet, lowest first, and spares it ...
Spare(s) ==
  /\ mutex = "evicting" /\ IsLowest(s, Unjudged)
  /\ entries[s] <= MaxPacketAge
  /\ judged' = s
  /\ UNCHANGED <<entries, window, target_delay, saw_arrival, totals, approx_len,
                 mutex, history>>

\* Mutated form of Evict: not counted.
EvictUncounted(s) ==
  /\ mutex = "evicting" /\ IsLowest(s, Unjudged)
  /\ entries[s] > MaxPacketAge
  /\ judged' = s
  /\ entries' = Without(s)
  /\ UNCHANGED <<window, target_delay, saw_arrival, totals, approx_len, mutex, history>>

\* ... or drops it.  The code lists the stale packets first and drops them after;
\* nobody sees the buffer in between.
Evict(s) ==
  /\ mutex = "evicting" /\ IsLowest(s, Unjudged)
  /\ entries[s] > MaxPacketAge
  /\ judged' = s
  /\ entries' = Without(s)
  /\ totals' = [totals EXCEPT !.dropped = @ + 1]
  /\ UNCHANGED <<window, target_delay, saw_arrival, approx_len, mutex, history>>

\* Mutated form of PopReady: any packet that is old enough, not the lowest.
PopAnyReady(s) ==
  /\ mutex = "evicting" /\ Unjudged = {}
  /\ s \in buffered /\ entries[s] >= target_delay
  /\ mutex' = "removed" /\ judged' = None
  /\ entries' = Without(s)
  /\ Advance(s)
  /\ totals' = [totals EXCEPT !.delivered = @ + 1]
  /\ out' = Append(out, s)
  /\ UNCHANGED <<target_delay, saw_arrival, approx_len, arrivals, lost_to_reset>>

\* Then next_packet() reads the clock again, and returns the lowest packet that
\* is left, if it is old enough ...
PopReady(s) ==
  /\ mutex = "evicting" /\ Unjudged = {}
  /\ IsLowest(s, buffered) /\ entries[s] >= target_delay
  /\ mutex' = "removed" /\ judged' = None
  /\ entries' = Without(s)
  /\ Advance(s)
  /\ totals' = [totals EXCEPT !.delivered = @ + 1]
  /\ out' = Append(out, s)
  /\ UNCHANGED <<target_delay, saw_arrival, approx_len, arrivals, lost_to_reset>>

\* Mutated form of PopNothing: the packet looked at counts as arrived anew.
PopNothingRestamps ==
  /\ mutex = "evicting" /\ Unjudged = {}
  /\ \A s \in buffered : IsLowest(s, buffered) => entries[s] < target_delay
  /\ mutex' = "removed" /\ judged' = None
  /\ entries' = [s \in buffered |-> 0]
  /\ UNCHANGED <<window, target_delay, saw_arrival, totals, approx_len, history>>

\* ... or None: stale packets are gone all the same.
PopNothing ==
  /\ mutex = "evicting" /\ Unjudged = {}
  /\ \A s \in buffered : IsLowest(s, buffered) => entries[s] < target_delay
  /\ mutex' = "removed" /\ judged' = None
  /\ UNCHANGED <<entries, window, target_delay, saw_arrival, totals, approx_len, history>>

PopPacket == PopNothing \/ \E s \in buffered : Spare(s) \/ Evict(s) \/ PopReady(s)

\* set_target_delay(): outside the bounds it is refused and changes nothing.
SetTargetDelay(delay) ==
  /\ mutex = "free"
  /\ delay \in MinTargetDelay..MaxTargetDelay
  /\ target_delay' = delay
  /\ UNCHANGED <<entries, window, saw_arrival, totals, approx_len, call, history>>

\* Mutated form of BeginClear: the length is stored first.
BeginClearStores ==
  /\ mutex = "free" /\ mutex' = "flushing"
  /\ approx_len' = 0
  /\ UNCHANGED <<entries, window, target_delay, saw_arrival, totals, judged, history>>

\* clear() takes the mutex, flush() lists the keys ...
BeginClear ==
  /\ mutex = "free" /\ mutex' = "flushing"
  /\ UNCHANGED <<entries, window, target_delay, saw_arrival, totals, approx_len,
                 judged, history>>

\* ... and passes each packet, lowest first, without handing it to anyone.
FlushOne(s) ==
  /\ mutex = "flushing"
  /\ IsLowest(s, buffered)
  /\ entries' = Without(s)
  /\ Advance(s)
  /\ totals' = [totals EXCEPT !.delivered = @ + 1]
  /\ UNCHANGED <<target_delay, saw_arrival, approx_len, call, arrivals, out,
                 lost_to_reset>>

\* reset(): the window forgets everything, the totals stay.
Reset ==
  /\ mutex = "free" /\ mutex' = "removed"
  /\ entries' = [s \in {} |-> 0]
  /\ expected_sequence' = None
  /\ seen_cache' = <<>>
  /\ seen_set' = {}
  /\ window_stats' = [lost |-> 0, duplicates |-> 0]
  /\ target_delay' = TargetDelay
  /\ saw_arrival' = FALSE
  /\ out' = <<>>
  /\ passed' = [first |-> None, last |-> None, count |-> 0]
  /\ lost_to_reset' = lost_to_reset + Cardinality(buffered)
  /\ UNCHANGED <<totals, approx_len, judged, arrivals>>

\* The last statement of push_packet(), pop_packet(), clear() and reset(): the
\* length is stored (clear() and reset() write the 0 it then is), and the
\* mutex let go.
StoreLen ==
  /\ mutex \in {"pushed", "removed", "flushing"}
  /\ mutex = "flushing" => buffered = {}
  /\ approx_len' = Cardinality(buffered)
  /\ mutex' = "free"
  /\ UNCHANGED <<entries, window, target_delay, saw_arrival, totals, judged, history>>

\* Time passes (Instant::elapsed of every arrival grows), also while the mutex
\* is held.
Tick ==
  /\ entries' = [s \in buffered |-> AtMost(entries[s] + 1, AgeCap)]
  /\ UNCHANGED <<window, target_delay, saw_arrival, totals, approx_len, call, history>>

Next ==
  \/ \E s \in SeqNum, headroom \in JitterHeadrooms : PushPacket(s, headroom)
  \/ BeginPop
  \/ PopPacket
  \/ \E delay \in MinTargetDelay..MaxTargetDelay : SetTargetDelay(delay)
  \/ BeginClear
  \/ \E s \in buffered : FlushOne(s)
  \/ Reset
  \/ StoreLen
  \/ Tick

Spec == Init /\ [][Next]_vars

\* The consumer polls ("typically polling on an interval", jitter_buffer.rs:222),
\* clocks run, and an operation that has the mutex runs to its end.
Fairness ==
  /\ WF_vars(Tick)
  /\ WF_vars(BeginPop)
  /\ WF_vars(PopPacket)
  /\ WF_vars(StoreLen \/ \E s \in buffered : FlushOne(s))

FairSpec == Spec /\ Fairness

-----------------------------------------------------------------------------
(* Properties *)

Totals == [buffered : Nat, delivered : Nat, dropped : Nat, occupancy : Nat]

TypeOK ==
  /\ buffered \subseteq SeqNum /\ \A s \in buffered : entries[s] \in 0..AgeCap
  /\ expected_sequence \in SeqNum \cup {None}
  /\ seen_cache \in Seq(SeqNum)
  /\ seen_set \subseteq SeqNum
  /\ window_stats \in [lost : Nat, duplicates : Nat]
  /\ target_delay \in MinTargetDelay..MaxTargetDelay
  /\ saw_arrival \in BOOLEAN
  /\ totals \in Totals
  /\ approx_len \in Nat
  /\ mutex \in Holders \cup {"free"} /\ judged \in SeqNum \cup {None}
  /\ arrivals \in 0..MaxArrivals
  /\ out \in Seq(SeqNum)
  /\ passed \in [first : SeqNum \cup {None}, last : SeqNum \cup {None}, count : Nat]
  /\ lost_to_reset \in Nat

\* Nothing that waits in the buffer was delivered or flushed before, whatever
\* was dropped by overflow or age in between, and also at u64::MAX, where the
\* watermark cannot move past the packet delivered last and only the duplicate
\* cache remembers it (packet_window.rs:85-150).
NothingBufferedIsPassed ==
  \A s \in buffered : s > passed.last /\ s \notin seen_set

\* Between two resets the consumer gets strictly increasing sequence numbers:
\* no packet twice, none out of order (jitter_buffer.rs:224-253).
OutputInOrder ==
  \A i, j \in DOMAIN out : i < j => out[i] < out[j]

\* The duplicate cache and the set it is looked up in hold the same numbers,
\* never more than configured, in the order they were passed, and the last one
\* passed is always among them (packet_window.rs:138-150).
CacheMirrorsSet ==
  /\ Len(seen_cache) <= DuplicateCacheSize
  /\ \A i, j \in 1..Len(seen_cache) : i < j => seen_cache[i] < seen_cache[j]
  /\ seen_set = {seen_cache[i] : i \in 1..Len(seen_cache)}
  /\ IF passed.last = None THEN seen_cache = <<>>
     ELSE seen_cache # <<>> /\ seen_cache[Len(seen_cache)] = passed.last

\* Every sequence number from the first delivery to the last was either passed
\* or counted as lost, exactly once (packet_window.rs:119-134).
LossAccounting ==
  passed.count > 0 =>
    window_stats.lost + passed.count = passed.last + 1 - passed.first

\* Every packet accepted is in the buffer, or was counted once as delivered or
\* dropped, or was cleared by reset() (jitter_buffer.rs:107-285).
PacketConservation ==
  totals.buffered =
    totals.delivered + totals.dropped + lost_to_reset + Cardinality(buffered)

\* The buffer never outgrows its limit, and what size() reads without the mutex
\* never does either.  It is exact whenever the mutex is free; while an operation
\* runs it may be too high, and too low by the one packet that a push has put in
\* and not counted yet, never by more and in no other operation
\* (buffer_manager.rs:88-142).
SizeAgrees ==
  /\ totals.occupancy <= MaxBufferSize
  /\ Cardinality(buffered) <= MaxBufferSize /\ approx_len <= MaxBufferSize
  /\ mutex = "free" => Cardinality(buffered) = approx_len
  /\ Cardinality(buffered) <= approx_len + (IF mutex = "pushed" THEN 1 ELSE 0)

\* The buffer implements the ordered delivery its consumer relies on.
Abstract == INSTANCE OrderedDelivery WITH
  pending <- buffered, floor <- passed.last + 1, out <- out

ImplementsOrderedDelivery == Abstract!Spec

\* A packet does not stay for ever: it is delivered, or dropped once stale,
\* whatever arrives before it in sequence order (jitter_buffer.rs:203-253).
EveryPacketLeaves ==
  \A s \in SeqNum : s \in buffered ~> s \notin buffered

=============================================================================
