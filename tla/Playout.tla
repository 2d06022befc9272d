------------------------------- MODULE Playout -------------------------------
(***************************************************************************)
(* What the playback scheduler promises, with no clock, timeline or        *)
(* counter: a packet waits with its deadline, never beside a copy of       *)
(* itself, and the one with the earliest deadline is played next, the      *)
(* lower number first where two deadlines are equal.                       *)
(***************************************************************************)
EXTENDS Integers, Sequences, FiniteSets

CONSTANT Capacity    \* how many packets may wait

VARIABLES
  queued,   \* the packets that wait: records of a packet and its deadline
  played    \* the packets played, in order

vars == <<queued, played>>

Init == queued = {} /\ played = <<>>

IsQueued(packet) == \E item \in queued : item.packet = packet

\* Mutated form of Precedes: a BinaryHeap whose order is not reversed.
PrecedesUnreversed(a, b) ==
  a.deadline > b.deadline \/ (a.deadline = b.deadline /\ a.packet >= b.packet)

Precedes(a, b) ==
  a.deadline < b.deadline \/ (a.deadline = b.deadline /\ a.packet <= b.packet)

Queue(packet, deadline) ==
  /\ ~IsQueued(packet)
  /\ Cardinality(queued) < Capacity
  /\ queued' = queued \cup {[packet |-> packet, deadline |-> deadline]}
  /\ UNCHANGED played

Play(item) ==
  /\ item \in queued
  /\ \A other \in queued : Precedes(item, other)
  /\ queued' = queued \ {item}
  /\ played' = Append(played, item.packet)

\* One packet is cancelled, or all are cleared.
Remove(items) == queued' = queued \ items /\ UNCHANGED played

Next ==
  \/ \E item \in queued : Play(item) \/ Remove({item})
  \/ Remove(queued)
  \/ \E item \in queued' : Queue(item.packet, item.deadline)

Spec == Init /\ [][Next]_vars

=============================================================================
