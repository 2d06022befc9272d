---------------------------- MODULE MCPacketQueue ----------------------------
(***************************************************************************)
(* PacketQueue with clients: packets are numbered in the order try_send    *)
(* accepts them, dequeue() and clear() are called and dropped at any time. *)
(***************************************************************************)
EXTENDS PacketQueue

CONSTANTS
  Dequeuers,    \* takers that call dequeue(), the others call clear()
  MaxPackets,   \* bound: packets accepted in a behaviour
  MaxClears     \* bound: calls of clear() in a behaviour

ASSUME ClientAssumption ==
  /\ Dequeuers \subseteq Takers
  /\ MaxPackets \in Nat /\ MaxClears \in Nat

VARIABLES accepted, clears

vars == <<queueVars, accepted, clears>>

Init == QueueInit /\ accepted = 0 /\ clears = 0

Send(s) ==
  /\ accepted < MaxPackets
  /\ TrySend(s, accepted + 1)
  /\ accepted' = accepted + 1
  /\ UNCHANGED clears

CallClear(t) ==
  /\ clears < MaxClears
  /\ Request(t, "wants clear")
  /\ clears' = clears + 1
  /\ UNCHANGED accepted

Dequeue(t) ==
  /\ \/ Request(t, "wants packet")
     \/ ReturnPacket(t)
     \/ Cancel(t)
  /\ UNCHANGED <<accepted, clears>>

Clear(t) == FinishClear(t) /\ UNCHANGED <<accepted, clears>>

Work(t) == (Lock(t) \/ Remove(t)) /\ UNCHANGED <<accepted, clears>>

Next ==
  \/ \E s \in Senders : Send(s) \/ (CountSend(s) /\ UNCHANGED <<accepted, clears>>)
  \/ \E t \in Dequeuers : Dequeue(t)
  \/ \E t \in Takers \ Dequeuers : CallClear(t) \/ Clear(t)
  \/ \E t \in Takers : Work(t)

Spec == Init /\ [][Next]_vars

-----------------------------------------------------------------------------

TypeOK == QueueTypeOK /\ accepted \in 0..MaxPackets /\ clears \in 0..MaxClears

Elements(seq) == {seq[i] : i \in DOMAIN seq}

\* No packet is lost or seen twice, whichever calls of dequeue() are dropped:
\* each packet accepted waits, is being removed, was returned or was cleared
\* (the cancel-safety queue.rs:77-79 promises).
EveryPacketInOnePlace ==
  LET held == UNION {Elements(taken[t]) : t \in Takers}
  IN  /\ Elements(channel) \cup held \cup Elements(returned) \cup cleared = 1..accepted
      /\ Len(channel) + Unsubtracted + Len(returned) + Cardinality(cleared) = accepted

\* Packets are returned in the order they were accepted, whoever takes them.
ReturnedInOrder ==
  \A i, j \in DOMAIN returned : i < j => returned[i] < returned[j]

\* What dequeue() has taken last, returned or about to be.
LastTaken ==
  IF holder # NoOne /\ stage[holder] = "received" THEN taken[holder][1]
  ELSE IF returned = <<>> THEN 0 ELSE returned[Len(returned)]

Fifo == INSTANCE BoundedFifo WITH
  waiting <- channel, handed <- LastTaken,
  Packets <- 1..MaxPackets, Capacity <- Slots, Nobody <- 0

\* The queue is a bounded FIFO, whatever its callers and their mutex do: a
\* dequeue() that is dropped, or a clear(), leaves it one (queue.rs:52-105).
ImplementsFifo == Fifo!Spec

=============================================================================
