--------------------------- MODULE OrderedDelivery ---------------------------
(***************************************************************************)
(* What the buffer layer promises its consumer, with no clock, no          *)
(* watermark and no duplicate cache: a packet offered by the network waits *)
(* in `pending`, and leaves it by being delivered, thrown away or skipped. *)
(* Between two restarts the consumer sees sequence numbers only going up.  *)
(***************************************************************************)
EXTENDS Integers, Sequences

CONSTANT MaxSeq     \* the largest sequence number (u64::MAX in the code)

SeqNum == 0..MaxSeq

VARIABLES
  pending,   \* sequence numbers that may still be delivered
  floor,     \* nothing below `floor` will be delivered again
  out        \* what the consumer was handed since the last restart

vars == <<pending, floor, out>>

IsLowest(s, S) == s \in S /\ \A t \in S : s <= t

Init == pending = {} /\ floor = 0 /\ out = <<>>

\* A packet at or above the floor is taken in; packets may be thrown away to
\* make room for it.
Accept(s, dropped) ==
  /\ s \in SeqNum \ pending
  /\ s >= floor
  /\ pending' = (pending \ dropped) \cup {s}
  /\ UNCHANGED <<floor, out>>

\* The lowest of the packets that are kept goes to the consumer.
Deliver(s, dropped) ==
  /\ IsLowest(s, pending \ dropped)
  /\ pending' = pending \ (dropped \cup {s})
  /\ floor' = s + 1
  /\ out' = Append(out, s)

\* The lowest packet is discarded unseen, and counts as passed.
Skip(s) ==
  /\ IsLowest(s, pending)
  /\ pending' = pending \ {s}
  /\ floor' = s + 1
  /\ UNCHANGED out

\* Packets are thrown away where they are; a later copy may be accepted.
Drop(dropped) ==
  /\ pending' = pending \ dropped
  /\ UNCHANGED <<floor, out>>

Restart == pending' = {} /\ floor' = 0 /\ out' = <<>>

Next ==
  \/ \E s \in SeqNum, dropped \in SUBSET pending : Accept(s, dropped)
  \/ \E dropped \in SUBSET pending : \E s \in pending : Deliver(s, dropped)
  \/ \E s \in pending : Skip(s)
  \/ \E dropped \in SUBSET pending : Drop(dropped)
  \/ Restart

Spec == Init /\ [][Next]_vars

-----------------------------------------------------------------------------

TypeOK ==
  /\ pending \subseteq SeqNum
  /\ floor \in 0..(MaxSeq + 1)
  /\ out \in Seq(SeqNum)

\* Between two restarts the consumer never sees a sequence number again, nor
\* one lower than an earlier one.
StrictlyIncreasing ==
  \A i, j \in 1..Len(out) : i < j => out[i] < out[j]

\* Everything handed out, and nothing still pending, lies below the floor.
FloorSeparates ==
  /\ \A i \in 1..Len(out) : out[i] < floor
  /\ \A s \in pending : s >= floor

=============================================================================
