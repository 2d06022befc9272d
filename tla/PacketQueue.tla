----------------------------- MODULE PacketQueue -----------------------------
(***************************************************************************)
(* PacketQueue (streaming/src/queue.rs): a bounded channel whose receiving *)
(* half sits behind an asynchronous mutex, and an atomic length that is    *)
(* updated beside the channel, not with it.                                *)
(*                                                                         *)
(* A sender's call is two steps: try_send, then fetch_add.  A taker is a   *)
(* call of dequeue() or clear(): it waits for the mutex, works while it    *)
(* holds it (dequeue() even while it awaits a packet), then subtracts what *)
(* it removed and lets the mutex go.  A call of dequeue() that still waits *)
(* may be dropped by the select! it runs in.                               *)
(***************************************************************************)
EXTENDS Integers, Sequences, FiniteSets

CONSTANTS
  Senders,     \* callers of enqueue()
  Takers,      \* callers of dequeue() and clear()
  Capacity,    \* PacketQueue.capacity
  Modulus,     \* 2^64: where AtomicUsize wraps
  NoOne        \* not a taker

ASSUME QueueAssumption ==
  /\ Capacity \in Nat          \* a capacity of 0 is raised to 1
  /\ Modulus \in Nat \ {0}
  /\ NoOne \notin Takers

VARIABLES
  channel,     \* the packets in the mpsc channel, oldest first
  length,      \* PacketQueue.length
  holder,      \* who holds the receiver mutex
  uncounted,   \* senders between try_send and fetch_add
  stage,       \* where each taker is
  taken,       \* what each taker removed and has not subtracted yet
  returned,    \* history: what dequeue() returned, in order
  cleared      \* history: what clear() removed

queueVars == <<channel, length, holder, uncounted, stage, taken, returned, cleared>>

Stages == {"idle",
           "wants packet", "receiving", "received",   \* dequeue()
           "wants clear", "draining"}                 \* clear()

Slots == IF Capacity = 0 THEN 1 ELSE Capacity

QueueInit ==
  /\ channel = <<>>
  /\ length = 0
  /\ holder = NoOne
  /\ uncounted = {}
  /\ stage = [t \in Takers |-> "idle"]
  /\ taken = [t \in Takers |-> <<>>]
  /\ returned = <<>>
  /\ cleared = {}

\* Mutated form of IsFull: off by one.
IsOverfull == Len(channel) > Slots

IsFull == Len(channel) >= Slots

\* enqueue(): try_send succeeds ...
TrySend(s, packet) ==
  /\ s \notin uncounted
  /\ ~IsFull
  /\ channel' = Append(channel, packet)
  /\ uncounted' = uncounted \cup {s}
  /\ UNCHANGED <<length, holder, stage, taken, returned, cleared>>

\* Mutated form of CountSend: the increment is forgotten.
CountNothing(s) ==
  /\ s \in uncounted
  /\ uncounted' = uncounted \ {s}
  /\ UNCHANGED <<channel, length, holder, stage, taken, returned, cleared>>

\* ... and the packet is counted.
CountSend(s) ==
  /\ s \in uncounted
  /\ length' = (length + 1) % Modulus
  /\ uncounted' = uncounted \ {s}
  /\ UNCHANGED <<channel, holder, stage, taken, returned, cleared>>

\* dequeue() or clear() is called and waits for the mutex.
Request(t, want) ==
  /\ stage[t] = "idle"
  /\ want \in {"wants packet", "wants clear"}
  /\ stage' = [stage EXCEPT ![t] = want]
  /\ UNCHANGED <<channel, length, holder, uncounted, taken, returned, cleared>>

Lock(t) ==
  /\ holder = NoOne
  /\ stage[t] \in {"wants packet", "wants clear"}
  /\ holder' = t
  /\ stage' = [stage EXCEPT
       ![t] = IF @ = "wants packet" THEN "receiving" ELSE "draining"]
  /\ UNCHANGED <<channel, length, uncounted, taken, returned, cleared>>

\* Mutated form of Remove: the newest packet first.
RemoveNewest(t) ==
  /\ stage[t] \in {"receiving", "draining"}
  /\ channel # <<>>
  /\ taken' = [taken EXCEPT ![t] = Append(@, channel[Len(channel)])]
  /\ channel' = SubSeq(channel, 1, Len(channel) - 1)
  /\ stage' = [stage EXCEPT ![t] = IF @ = "receiving" THEN "received" ELSE @]
  /\ UNCHANGED <<length, holder, uncounted, returned, cleared>>

\* recv() yields a packet, or try_recv() in the loop of clear() does.
Remove(t) ==
  /\ stage[t] \in {"receiving", "draining"}
  /\ channel # <<>>
  /\ taken' = [taken EXCEPT ![t] = Append(@, Head(channel))]
  /\ channel' = Tail(channel)
  /\ stage' = [stage EXCEPT ![t] = IF @ = "receiving" THEN "received" ELSE @]
  /\ UNCHANGED <<length, holder, uncounted, returned, cleared>>

\* The count is adjusted and the mutex released.
Subtract(t) ==
  /\ length' = (length - Len(taken[t])) % Modulus
  /\ holder' = NoOne
  /\ stage' = [stage EXCEPT ![t] = "idle"]
  /\ taken' = [taken EXCEPT ![t] = <<>>]
  /\ UNCHANGED <<channel, uncounted>>

\* dequeue() returns its packet.
ReturnPacket(t) ==
  /\ stage[t] = "received"
  /\ Subtract(t)
  /\ returned' = returned \o taken[t]
  /\ UNCHANGED cleared

\* clear() returns once try_recv() finds nothing.
FinishClear(t) ==
  /\ stage[t] = "draining"
  /\ channel = <<>>
  /\ Subtract(t)
  /\ cleared' = cleared \cup {taken[t][i] : i \in 1..Len(taken[t])}
  /\ UNCHANGED returned

\* Mutated forms of Cancel: the mutex is not given back; a packet already
\* received is dropped as well.
CancelKeepsMutex(t) ==
  /\ stage[t] \in {"wants packet", "receiving"}
  /\ stage' = [stage EXCEPT ![t] = "idle"]
  /\ UNCHANGED <<channel, length, holder, uncounted, taken, returned, cleared>>

CancelAnywhere(t) ==
  /\ stage[t] \in {"wants packet", "receiving", "received"}
  /\ stage' = [stage EXCEPT ![t] = "idle"]
  /\ taken' = [taken EXCEPT ![t] = <<>>]
  /\ holder' = IF holder = t THEN NoOne ELSE holder
  /\ UNCHANGED <<channel, length, uncounted, returned, cleared>>

\* A dequeue() that waits is dropped; it gives the mutex back if it has it.
\* Nothing is awaited after recv(), so a packet received is always returned.
Cancel(t) ==
  /\ stage[t] \in {"wants packet", "receiving"}
  /\ stage' = [stage EXCEPT ![t] = "idle"]
  /\ holder' = IF holder = t THEN NoOne ELSE holder
  /\ UNCHANGED <<channel, length, uncounted, taken, returned, cleared>>

-----------------------------------------------------------------------------

QueueTypeOK ==
  /\ Len(channel) \in 0..Slots
  /\ length \in 0..(Modulus - 1)
  /\ holder \in Takers \cup {NoOne}
  /\ uncounted \subseteq Senders
  /\ stage \in [Takers -> Stages]

\* At most one taker works on the receiver, and it is the one with the mutex.
HolderWorks ==
  \A t \in Takers : stage[t] \in {"receiving", "received", "draining"} <=> holder = t

\* Packets removed by takers that have not subtracted them yet.
Unsubtracted == IF holder = NoOne THEN 0 ELSE Len(taken[holder])

\* The length is the channel's, less what senders have yet to add, more what
\* the taker has yet to subtract, modulo the width of the counter; so it is
\* exact whenever no call is between its two steps (queue.rs:58-105).
LengthAccounts ==
  length = (Len(channel) - Cardinality(uncounted) + Unsubtracted) % Modulus

=============================================================================
