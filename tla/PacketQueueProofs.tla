------------------------- MODULE PacketQueueProofs -------------------------
(***************************************************************************)
(* Proofs about PacketQueue under the clients of MCPacketQueue, and that   *)
(* with them it implements BoundedFifo.                                    *)
(***************************************************************************)
EXTENDS MCPacketQueue, FiniteSetTheorems, SequenceTheorems, TLAPS

\* Takers whose stage needs the mutex.
Busy == {"receiving", "received", "draining"}

\* What has been removed and not subtracted belongs to the call that removes.
OnlyTakersHold ==
  \A t \in Takers : stage[t] \notin {"received", "draining"} => taken[t] = <<>>

\* The inductive invariant: the account of the length needs that only the
\* holder of the mutex holds packets, and so that the mutex excludes.
QueueInv ==
  /\ TypeOK
  /\ channel \in Seq(Nat)
  /\ taken \in [Takers -> Seq(Nat)]
  /\ IsFiniteSet(uncounted)
  /\ HolderWorks
  /\ OnlyTakersHold
  /\ LengthAccounts

-----------------------------------------------------------------------------
(* Arithmetic modulo the width of the counter *)

LEMMA Remainder ==
  ASSUME NEW M \in Nat \ {0}, NEW y \in Int
  PROVE  /\ y % M \in 0..(M - 1) /\ y \div M \in Int
         /\ y = M * (y \div M) + (y % M)
BY Z3

LEMMA RemainderIsUnique ==
  ASSUME NEW M \in Nat \ {0}, NEW q \in Int, NEW r \in 0..(M - 1)
  PROVE  (M * q + r) % M = r
BY Z3

\* Adding to a counter that wraps gives the wrapped sum.
LEMMA WrappedSum ==
  ASSUME NEW M \in Nat \ {0}, NEW y \in Int, NEW k \in Int
  PROVE  ((y % M) + k) % M = (y + k) % M
<1> DEFINE q == y \div M
           r == y % M
           q2 == (r + k) \div M
           r2 == (r + k) % M
<1>1. q \in Int /\ r \in Int /\ y = M * q + r
  BY Remainder
<1>2. q2 \in Int /\ r2 \in 0..(M - 1) /\ r + k = M * q2 + r2
  BY <1>1, Remainder
<1> HIDE DEF q, r, q2, r2
<1>3. y + k = M * (q + q2) + r2
  BY <1>1, <1>2, Z3
<1>4. (M * (q + q2) + r2) % M = r2
  BY <1>1, <1>2, RemainderIsUnique
<1> QED
  BY <1>3, <1>4 DEF r, r2

-----------------------------------------------------------------------------
(* The steps of the queue *)

LEMMA QueueTypes ==
  ASSUME QueueInv
  PROVE  /\ Len(channel) \in Nat /\ Cardinality(uncounted) \in Nat
         /\ Unsubtracted \in Nat /\ length \in Nat
         /\ Modulus \in Nat \ {0} /\ NoOne \notin Takers
         /\ Slots \in Nat
<1>1. Modulus \in Nat \ {0} /\ NoOne \notin Takers /\ Capacity \in Nat
  BY QueueAssumption DEF QueueAssumption
<1>2. Len(channel) \in Nat
  BY DEF QueueInv
<1>3. Cardinality(uncounted) \in Nat
  BY FS_CardinalityType DEF QueueInv
<1>4. Unsubtracted \in Nat
  <2>1. holder \in Takers \cup {NoOne} /\ taken \in [Takers -> Seq(Nat)]
    BY DEF QueueInv, TypeOK, QueueTypeOK
  <2>2. CASE holder = NoOne
    BY <2>2 DEF Unsubtracted
  <2>3. CASE holder # NoOne
    <3>1. taken[holder] \in Seq(Nat)
      BY <2>1, <2>3
    <3> QED
      BY <2>3, <3>1 DEF Unsubtracted
  <2> QED
    BY <2>2, <2>3
<1>5. length \in Nat
  BY <1>1 DEF QueueInv, TypeOK, QueueTypeOK
<1> QED
  BY <1>1, <1>2, <1>3, <1>4, <1>5 DEF Slots

\* enqueue(): the packet is in the channel and not in the count.
LEMMA TrySendStep ==
  ASSUME QueueInv, NEW s \in Senders, NEW packet \in Nat, TrySend(s, packet)
  PROVE  /\ QueueTypeOK' /\ channel' \in Seq(Nat) /\ IsFiniteSet(uncounted')
         /\ taken' \in [Takers -> Seq(Nat)]
         /\ HolderWorks' /\ OnlyTakersHold' /\ LengthAccounts'
<1>1. channel' \in Seq(Nat) /\ Len(channel') = Len(channel) + 1
  BY DEF QueueInv, TrySend
<1>2. IsFiniteSet(uncounted') /\ Cardinality(uncounted') = Cardinality(uncounted) + 1
  BY FS_AddElement DEF QueueInv, TrySend
<1>3. Len(channel') \in 0..Slots
  BY <1>1, QueueTypes DEF TrySend, IsFull, QueueInv
<1>4. Unsubtracted' = Unsubtracted
  BY DEF TrySend, Unsubtracted
<1>5. LengthAccounts'
  <2>1. Len(channel') - Cardinality(uncounted') + Unsubtracted'
          = Len(channel) - Cardinality(uncounted) + Unsubtracted
    BY <1>1, <1>2, <1>4, QueueTypes
  <2>2. length' = length
    BY DEF TrySend
  <2> QED
    BY <2>1, <2>2 DEF QueueInv, LengthAccounts
<1>6. QueueTypeOK'
  BY <1>3 DEF TrySend, QueueInv, TypeOK, QueueTypeOK, Slots
<1>7. HolderWorks' /\ OnlyTakersHold' /\ taken' \in [Takers -> Seq(Nat)]
  BY DEF TrySend, QueueInv, HolderWorks, OnlyTakersHold
<1> QED
  BY <1>1, <1>2, <1>5, <1>6, <1>7

\* enqueue(): the packet is counted.
LEMMA CountSendStep ==
  ASSUME QueueInv, NEW s \in Senders, CountSend(s)
  PROVE  /\ QueueTypeOK' /\ channel' \in Seq(Nat) /\ IsFiniteSet(uncounted')
         /\ taken' \in [Takers -> Seq(Nat)]
         /\ HolderWorks' /\ OnlyTakersHold' /\ LengthAccounts'
<1>1. IsFiniteSet(uncounted') /\ Cardinality(uncounted') = Cardinality(uncounted) - 1
  BY FS_RemoveElement DEF QueueInv, CountSend
<1>2. Unsubtracted' = Unsubtracted /\ channel' = channel
  BY DEF CountSend, Unsubtracted
<1>3. LengthAccounts'
  <2> DEFINE y == Len(channel) - Cardinality(uncounted) + Unsubtracted
  <2>1. Len(channel') - Cardinality(uncounted') + Unsubtracted' = y + 1
    BY <1>1, <1>2, QueueTypes
  <2>2. y \in Int
    BY QueueTypes
  <2>3. length' = ((y % Modulus) + 1) % Modulus
    BY DEF CountSend, QueueInv, LengthAccounts
  <2>4. ((y % Modulus) + 1) % Modulus = (y + 1) % Modulus
    <3> HIDE DEF y
    <3>1. Modulus \in Nat \ {0}
      BY QueueTypes
    <3>2. \A k \in Int : ((y % Modulus) + k) % Modulus = (y + k) % Modulus
      BY <2>2, <3>1, WrappedSum
    <3> QED
      BY <3>2
  <2> QED
    BY <2>1, <2>3, <2>4 DEF LengthAccounts
<1>4. length' \in 0..(Modulus - 1)
  <2>1. length + 1 \in Int
    BY QueueTypes
  <2> QED
    BY <2>1, QueueTypes, Remainder DEF CountSend
<1>5. QueueTypeOK'
  BY <1>4 DEF CountSend, QueueInv, TypeOK, QueueTypeOK, Slots
<1>6. HolderWorks' /\ OnlyTakersHold' /\ taken' \in [Takers -> Seq(Nat)] /\ channel' \in Seq(Nat)
  BY DEF CountSend, QueueInv, HolderWorks, OnlyTakersHold
<1> QED
  BY <1>1, <1>3, <1>5, <1>6

\* What the mutex guards, in one step of a taker that neither adds nor counts.
LEMMA RequestStep ==
  ASSUME QueueInv, NEW t \in Takers, NEW want, Request(t, want)
  PROVE  /\ QueueTypeOK' /\ channel' \in Seq(Nat) /\ IsFiniteSet(uncounted')
         /\ taken' \in [Takers -> Seq(Nat)]
         /\ HolderWorks' /\ OnlyTakersHold' /\ LengthAccounts'
<1>1. stage' \in [Takers -> Stages]
  BY DEF Request, QueueInv, TypeOK, QueueTypeOK, Stages
<1>2. QueueTypeOK'
  BY <1>1 DEF Request, QueueInv, TypeOK, QueueTypeOK, Slots
<1>3. HolderWorks'
  BY DEF Request, QueueInv, TypeOK, QueueTypeOK, HolderWorks
<1>4. OnlyTakersHold'
  BY DEF Request, QueueInv, TypeOK, QueueTypeOK, OnlyTakersHold
<1>5. LengthAccounts'
  BY DEF Request, QueueInv, LengthAccounts, Unsubtracted
<1> QED
  BY <1>2, <1>3, <1>4, <1>5 DEF Request, QueueInv

LEMMA LockStep ==
  ASSUME QueueInv, NEW t \in Takers, Lock(t)
  PROVE  /\ QueueTypeOK' /\ channel' \in Seq(Nat) /\ IsFiniteSet(uncounted')
         /\ taken' \in [Takers -> Seq(Nat)]
         /\ HolderWorks' /\ OnlyTakersHold' /\ LengthAccounts'
<1>1. stage' \in [Takers -> Stages]
  BY DEF Lock, QueueInv, TypeOK, QueueTypeOK, Stages
<1>2. QueueTypeOK'
  BY <1>1 DEF Lock, QueueInv, TypeOK, QueueTypeOK, Slots
<1>3. HolderWorks'
  BY QueueTypes DEF Lock, QueueInv, TypeOK, QueueTypeOK, HolderWorks
<1>4. taken[t] = <<>>
  BY DEF Lock, QueueInv, OnlyTakersHold
<1>5. OnlyTakersHold'
  BY <1>4 DEF Lock, QueueInv, TypeOK, QueueTypeOK, OnlyTakersHold
<1>6. Unsubtracted' = 0 /\ Unsubtracted = 0
  BY <1>4, QueueTypes DEF Lock, Unsubtracted
<1>7. LengthAccounts'
  BY <1>6 DEF Lock, QueueInv, LengthAccounts
<1> QED
  BY <1>2, <1>3, <1>5, <1>7 DEF Lock, QueueInv

\* A packet leaves the channel and is in the hands of the holder: what the
\* channel loses, the holder has yet to subtract.
LEMMA RemoveStep ==
  ASSUME QueueInv, NEW t \in Takers, Remove(t)
  PROVE  /\ QueueTypeOK' /\ channel' \in Seq(Nat) /\ IsFiniteSet(uncounted')
         /\ taken' \in [Takers -> Seq(Nat)]
         /\ HolderWorks' /\ OnlyTakersHold' /\ LengthAccounts'
<1>1. holder = t /\ t # NoOne
  BY QueueTypes DEF Remove, QueueInv, HolderWorks
<1>2. channel' \in Seq(Nat) /\ Len(channel') = Len(channel) - 1 /\ Head(channel) \in Nat
  BY DEF Remove, QueueInv
<1>3. stage' \in [Takers -> Stages]
  BY DEF Remove, QueueInv, TypeOK, QueueTypeOK, Stages
<1>4. QueueTypeOK'
  <2>1. Len(channel') \in 0..Slots
    BY <1>2, QueueTypes DEF QueueInv, TypeOK, QueueTypeOK, Remove
  <2> QED
    BY <1>3, <2>1 DEF Remove, QueueInv, TypeOK, QueueTypeOK, Slots
<1>5. /\ taken' \in [Takers -> Seq(Nat)]
      /\ taken'[t] = Append(taken[t], Head(channel))
      /\ Len(taken'[t]) = Len(taken[t]) + 1
  BY <1>2 DEF Remove, QueueInv
<1>6. HolderWorks'
  BY <1>1 DEF Remove, QueueInv, TypeOK, QueueTypeOK, HolderWorks
<1>7. OnlyTakersHold'
  <2> SUFFICES ASSUME NEW u \in Takers, stage'[u] \notin {"received", "draining"}
               PROVE  taken'[u] = <<>>
    BY DEF OnlyTakersHold
  <2>1. stage'[t] \in {"received", "draining"}
    BY DEF Remove, QueueInv, TypeOK, QueueTypeOK
  <2>2. u # t /\ stage'[u] = stage[u] /\ taken'[u] = taken[u]
    BY <2>1 DEF Remove, QueueInv, TypeOK, QueueTypeOK
  <2> QED
    BY <2>2 DEF QueueInv, OnlyTakersHold
<1>8. LengthAccounts'
  <2>1. Unsubtracted = Len(taken[t]) /\ Unsubtracted' = Len(taken'[t])
    BY <1>1 DEF Unsubtracted, Remove
  <2>2. Len(channel') - Cardinality(uncounted') + Unsubtracted'
          = Len(channel) - Cardinality(uncounted) + Unsubtracted
    <3>1. uncounted' = uncounted
      BY DEF Remove
    <3> QED
      BY <1>2, <1>5, <2>1, <3>1, QueueTypes
  <2> QED
    BY <2>2 DEF Remove, QueueInv, LengthAccounts
<1> QED
  BY <1>2, <1>4, <1>5, <1>6, <1>7, <1>8 DEF Remove, QueueInv

\* dequeue() and clear() end: what they hold is subtracted and the mutex free.
LEMMA SubtractStep ==
  ASSUME QueueInv, NEW t \in Takers, Subtract(t), stage[t] \in {"received", "draining"}
  PROVE  /\ QueueTypeOK' /\ channel' \in Seq(Nat) /\ IsFiniteSet(uncounted')
         /\ taken' \in [Takers -> Seq(Nat)]
         /\ HolderWorks' /\ OnlyTakersHold' /\ LengthAccounts'
<1>1. holder = t /\ t # NoOne
  BY QueueTypes DEF QueueInv, HolderWorks
<1>2. Len(taken[t]) \in Nat /\ Unsubtracted = Len(taken[t]) /\ Unsubtracted' = 0
  BY <1>1 DEF QueueInv, Unsubtracted, Subtract
<1>3. LengthAccounts'
  <2> DEFINE y == Len(channel) - Cardinality(uncounted) + Unsubtracted
             k == -Len(taken[t])
  <2>1. Len(channel') - Cardinality(uncounted') + Unsubtracted' = y + k
    BY <1>2, QueueTypes DEF Subtract
  <2>2. y \in Int /\ k \in Int
    BY <1>2, QueueTypes
  <2>3. length = y % Modulus
    BY DEF QueueInv, LengthAccounts
  <2>4. length' = (length - Len(taken[t])) % Modulus
    BY DEF Subtract
  <2>5. length - Len(taken[t]) = length + k
    BY <1>2, QueueTypes
  <2>6. ((y % Modulus) + k) % Modulus = (y + k) % Modulus
    BY <2>2, QueueTypes, WrappedSum
  <2> HIDE DEF y, k
  <2> QED
    BY <2>1, <2>3, <2>4, <2>5, <2>6 DEF LengthAccounts
<1>4. length' \in 0..(Modulus - 1)
  <2>1. length - Len(taken[t]) \in Int
    BY <1>2, QueueTypes
  <2> QED
    BY <2>1, QueueTypes, Remainder DEF Subtract
<1>5. stage' \in [Takers -> Stages]
  BY DEF Subtract, QueueInv, TypeOK, QueueTypeOK, Stages
<1>6. QueueTypeOK'
  BY <1>4, <1>5 DEF Subtract, QueueInv, TypeOK, QueueTypeOK, Slots
<1>7. HolderWorks'
  BY <1>1, QueueTypes DEF Subtract, QueueInv, TypeOK, QueueTypeOK, HolderWorks
<1>8. OnlyTakersHold' /\ taken' \in [Takers -> Seq(Nat)]
  BY DEF Subtract, QueueInv, TypeOK, QueueTypeOK, OnlyTakersHold
<1> QED
  BY <1>3, <1>6, <1>7, <1>8 DEF Subtract, QueueInv

\* A dequeue() that is dropped holds nothing, and gives the mutex back.
LEMMA CancelStep ==
  ASSUME QueueInv, NEW t \in Takers, Cancel(t)
  PROVE  /\ QueueTypeOK' /\ channel' \in Seq(Nat) /\ IsFiniteSet(uncounted')
         /\ taken' \in [Takers -> Seq(Nat)]
         /\ HolderWorks' /\ OnlyTakersHold' /\ LengthAccounts'
<1>1. taken[t] = <<>>
  BY DEF Cancel, QueueInv, OnlyTakersHold
<1>2. stage' \in [Takers -> Stages]
  BY DEF Cancel, QueueInv, TypeOK, QueueTypeOK, Stages
<1>3. QueueTypeOK'
  BY <1>2 DEF Cancel, QueueInv, TypeOK, QueueTypeOK, Slots
<1>4. HolderWorks'
  BY QueueTypes DEF Cancel, QueueInv, TypeOK, QueueTypeOK, HolderWorks
<1>5. OnlyTakersHold'
  BY <1>1 DEF Cancel, QueueInv, TypeOK, QueueTypeOK, OnlyTakersHold
<1>6. Unsubtracted' = Unsubtracted
  <2>1. CASE holder = t
    BY <1>1, <2>1, QueueTypes DEF Cancel, Unsubtracted
  <2>2. CASE holder # t
    BY <2>2 DEF Cancel, Unsubtracted
  <2> QED
    BY <2>1, <2>2
<1>7. LengthAccounts'
  BY <1>6 DEF Cancel, QueueInv, LengthAccounts
<1> QED
  BY <1>3, <1>4, <1>5, <1>7 DEF Cancel, QueueInv

-----------------------------------------------------------------------------
(* The queue with its clients *)

LEMMA QueueStep == QueueInv /\ [Next]_vars => QueueInv'
<1> SUFFICES ASSUME QueueInv, [Next]_vars PROVE QueueInv'
  OBVIOUS
<1>1. ASSUME NEW s \in Senders, Send(s) PROVE QueueInv'
  <2>1. accepted + 1 \in Nat /\ accepted' \in 0..MaxPackets /\ clears' = clears
    BY <1>1, ClientAssumption DEF ClientAssumption, Send, QueueInv, TypeOK
  <2> QED
    BY <1>1, <2>1, TrySendStep DEF Send, QueueInv, TypeOK
<1>2. ASSUME NEW s \in Senders, CountSend(s), UNCHANGED <<accepted, clears>>
      PROVE  QueueInv'
  BY <1>2, CountSendStep DEF QueueInv, TypeOK
<1>3. ASSUME NEW t \in Dequeuers, Dequeue(t) PROVE QueueInv'
  <2>1. t \in Takers
    BY ClientAssumption DEF ClientAssumption
  <2>2. UNCHANGED <<accepted, clears>>
    BY <1>3 DEF Dequeue
  <2>3. CASE Request(t, "wants packet")
    BY <2>1, <2>2, <2>3, RequestStep DEF QueueInv, TypeOK
  <2>4. CASE ReturnPacket(t)
    BY <2>1, <2>2, <2>4, SubtractStep DEF ReturnPacket, QueueInv, TypeOK
  <2>5. CASE Cancel(t)
    BY <2>1, <2>2, <2>5, CancelStep DEF QueueInv, TypeOK
  <2> QED
    BY <1>3, <2>3, <2>4, <2>5 DEF Dequeue
<1>4. ASSUME NEW t \in Takers, CallClear(t) PROVE QueueInv'
  <2>1. accepted' = accepted /\ clears' \in 0..MaxClears
    <3>1. clears \in 0..MaxClears /\ MaxClears \in Nat
      BY ClientAssumption DEF ClientAssumption, QueueInv, TypeOK
    <3>2. clears < MaxClears /\ clears' = clears + 1 /\ accepted' = accepted
      BY <1>4 DEF CallClear
    <3> QED
      BY <3>1, <3>2
  <2> QED
    BY <1>4, <2>1, RequestStep DEF CallClear, QueueInv, TypeOK
<1>5. ASSUME NEW t \in Takers, Clear(t) PROVE QueueInv'
  BY <1>5, SubtractStep DEF Clear, FinishClear, QueueInv, TypeOK
<1>6. ASSUME NEW t \in Takers, Work(t) PROVE QueueInv'
  <2>1. CASE Lock(t)
    BY <1>6, <2>1, LockStep DEF Work, QueueInv, TypeOK
  <2>2. CASE Remove(t)
    BY <1>6, <2>2, RemoveStep DEF Work, QueueInv, TypeOK
  <2> QED
    BY <1>6, <2>1, <2>2 DEF Work
<1>7. CASE UNCHANGED vars
  BY <1>7 DEF vars, queueVars, QueueInv, TypeOK, QueueTypeOK, Slots, HolderWorks,
     OnlyTakersHold, LengthAccounts, Unsubtracted
<1> QED
  BY <1>1, <1>2, <1>3, <1>4, <1>5, <1>6, <1>7 DEF Next

LEMMA StartsRight == Init => QueueInv
<1> SUFFICES ASSUME Init PROVE QueueInv
  OBVIOUS
<1>1. Modulus \in Nat \ {0} /\ NoOne \notin Takers /\ Slots \in Nat
  BY QueueAssumption DEF QueueAssumption, Slots
<1>2. Cardinality(uncounted) = 0 /\ IsFiniteSet(uncounted)
  BY FS_EmptySet DEF Init, QueueInit
<1>3. TypeOK
  BY <1>1, ClientAssumption DEF ClientAssumption, Init, QueueInit, TypeOK, QueueTypeOK, Stages
<1>4. LengthAccounts
  <2>1. Len(channel) - Cardinality(uncounted) + Unsubtracted = 0 /\ length = 0
    BY <1>2 DEF Init, QueueInit, Unsubtracted
  <2>2. 0 % Modulus = 0
    BY <1>1, Z3
  <2> QED
    BY <2>1, <2>2 DEF LengthAccounts
<1>5. HolderWorks /\ OnlyTakersHold
  BY <1>1 DEF Init, QueueInit, HolderWorks, OnlyTakersHold
<1> QED
  BY <1>2, <1>3, <1>4, <1>5 DEF Init, QueueInit, QueueInv

LEMMA QueueInvariant == Spec => []QueueInv
BY StartsRight, QueueStep, PTL DEF Spec

\* The receiver is worked on by the call that has the mutex and by no other,
\* also when a dequeue() that waits is dropped (queue.rs:83-101).
THEOREM HolderHasMutex == Spec => []HolderWorks
<1>1. QueueInv => HolderWorks
  BY DEF QueueInv
<1> QED
  BY <1>1, QueueInvariant, PTL

\* The length is the channel's, corrected by the calls that are between their
\* two steps, modulo the width of the counter (queue.rs:58-105).
THEOREM LengthIsExact == Spec => []LengthAccounts
<1>1. QueueInv => LengthAccounts
  BY DEF QueueInv
<1> QED
  BY <1>1, QueueInvariant, PTL

-----------------------------------------------------------------------------
(* Order *)

Rising(s) == \A i, j \in 1..Len(s) : i < j => s[i] < s[j]
Upto(s, n) == \A i \in 1..Len(s) : s[i] <= n
Precedes(s, r) == \A i \in 1..Len(s), j \in 1..Len(r) : s[i] < r[j]

\* The inductive invariant for the order: what was returned, what the holder
\* has removed and what is in the channel follow each other.
OrderInv ==
  /\ returned \in Seq(Nat)
  /\ Rising(returned) /\ Rising(channel)
  /\ Upto(returned, accepted) /\ Upto(channel, accepted)
  /\ Precedes(returned, channel)
  /\ \A t \in Takers :
       /\ Rising(taken[t]) /\ Upto(taken[t], accepted)
       /\ Precedes(returned, taken[t]) /\ Precedes(taken[t], channel)

\* A number above the last of a rising sequence may be appended to it.
LEMMA RisingAppend ==
  ASSUME NEW s \in Seq(Nat), NEW e \in Nat, Rising(s),
         \A i \in 1..Len(s) : s[i] < e
  PROVE  Rising(Append(s, e))
<1> DEFINE a == Append(s, e)
<1>1. /\ Len(a) = Len(s) + 1 /\ Len(s) \in Nat /\ a[Len(s) + 1] = e
      /\ \A i \in 1..Len(s) : a[i] = s[i]
  OBVIOUS
<1> HIDE DEF a
<1> SUFFICES ASSUME NEW i \in 1..Len(a), NEW j \in 1..Len(a), i < j
               PROVE  a[i] < a[j]
  BY DEF Rising, a
<1>3. i \in 1..Len(s) /\ (j \in 1..Len(s) \/ j = Len(s) + 1)
  BY <1>1
<1> QED
  BY <1>1, <1>3 DEF Rising

\* Numbers in sequences of numbers, and what Tail and Append do to them.
LEMMA TailElements ==
  ASSUME NEW s \in Seq(Nat), s # <<>>
  PROVE  /\ Tail(s) \in Seq(Nat) /\ Len(Tail(s)) = Len(s) - 1 /\ Len(s) \in Nat \ {0}
         /\ \A i \in 1..Len(Tail(s)) : Tail(s)[i] = s[i + 1] /\ i + 1 \in 1..Len(s)
         /\ Head(s) = s[1] /\ 1 \in 1..Len(s) /\ Head(s) \in Nat
OBVIOUS

LEMMA AppendElements ==
  ASSUME NEW s \in Seq(Nat), NEW e \in Nat
  PROVE  \A i \in 1..Len(Append(s, e)) :
           \/ i \in 1..Len(s) /\ Append(s, e)[i] = s[i]
           \/ Append(s, e)[i] = e
OBVIOUS

LEMMA ConcatElements ==
  ASSUME NEW s \in Seq(Nat), NEW r \in Seq(Nat)
  PROVE  /\ s \o r \in Seq(Nat) /\ Len(s) \in Nat /\ Len(r) \in Nat
         /\ Len(s \o r) = Len(s) + Len(r)
         /\ \A i \in 1..Len(s) : (s \o r)[i] = s[i]
         /\ \A i \in 1..Len(s \o r) : i > Len(s) =>
              (s \o r)[i] = r[i - Len(s)] /\ i - Len(s) \in 1..Len(r)
OBVIOUS

LEMMA RisingConcat ==
  ASSUME NEW s \in Seq(Nat), NEW r \in Seq(Nat),
         Rising(s), Rising(r), Precedes(s, r)
  PROVE  Rising(s \o r)
<1> DEFINE c == s \o r
<1>1. /\ Len(s) \in Nat /\ Len(r) \in Nat /\ Len(c) = Len(s) + Len(r)
      /\ \A i \in 1..Len(s) : c[i] = s[i]
      /\ \A i \in 1..Len(c) : i > Len(s) => c[i] = r[i - Len(s)] /\ i - Len(s) \in 1..Len(r)
  BY ConcatElements
<1> HIDE DEF c
<1> SUFFICES ASSUME NEW i \in 1..Len(c), NEW j \in 1..Len(c), i < j
               PROVE  c[i] < c[j]
  BY DEF Rising, c
<1>3. CASE j <= Len(s)
  <2>1. i \in 1..Len(s) /\ j \in 1..Len(s)
    BY <1>1, <1>3
  <2> QED
    BY <1>1, <2>1 DEF Rising
<1>4. CASE i > Len(s)
  <2>1. j > Len(s) /\ i - Len(s) < j - Len(s)
    BY <1>1, <1>4
  <2> QED
    BY <1>1, <1>4, <2>1 DEF Rising
<1>5. CASE i <= Len(s) /\ j > Len(s)
  <2>1. i \in 1..Len(s)
    BY <1>1, <1>5
  <2> QED
    BY <1>1, <1>5, <2>1 DEF Precedes
<1> QED
  BY <1>1, <1>3, <1>4, <1>5

LEMMA ElementIsNat ==
  ASSUME NEW s \in Seq(Nat), NEW i \in 1..Len(s)
  PROVE  s[i] \in Nat
BY ElementOfSeq

\* Accepting a packet: its number is above all others.
LEMMA SendOrder ==
  ASSUME QueueInv, OrderInv, NEW s \in Senders, Send(s)
  PROVE  OrderInv'
<1> DEFINE n == accepted + 1
<1>1. accepted \in Nat /\ n \in Nat /\ accepted' = n /\ accepted < n
  BY ClientAssumption DEF ClientAssumption, Send, QueueInv, TypeOK
<1>2. /\ channel' = Append(channel, n) /\ channel \in Seq(Nat)
      /\ returned' = returned /\ taken' = taken /\ returned \in Seq(Nat)
      /\ taken \in [Takers -> Seq(Nat)]
  BY DEF Send, TrySend, QueueInv, OrderInv
<1> HIDE DEF n
<1>3. ASSUME NEW q \in Seq(Nat), Upto(q, accepted)
      PROVE  Upto(q, n) /\ \A i \in 1..Len(q) : q[i] < n
  <2> SUFFICES ASSUME NEW i \in 1..Len(q) PROVE q[i] <= n /\ q[i] < n
    BY DEF Upto
  <2>1. q[i] \in Nat /\ q[i] <= accepted
    BY <1>3, ElementIsNat DEF Upto
  <2> QED
    BY <1>1, <2>1
<1>4. ASSUME NEW q \in Seq(Nat), Upto(q, accepted), Precedes(q, channel)
      PROVE  Precedes(q, channel')
  <2> SUFFICES ASSUME NEW i \in 1..Len(q), NEW j \in 1..Len(channel')
               PROVE  q[i] < channel'[j]
    BY DEF Precedes
  <2>1. CASE channel'[j] = n
    BY <1>3, <1>4, <2>1
  <2>2. CASE j \in 1..Len(channel) /\ channel'[j] = channel[j]
    BY <1>4, <2>2 DEF Precedes
  <2> QED
    BY <1>1, <1>2, <2>1, <2>2, AppendElements
<1>5. Rising(channel')
  BY <1>1, <1>2, <1>3, RisingAppend DEF OrderInv
<1>6. Upto(channel', n)
  <2>1. Upto(channel, n)
    BY <1>2, <1>3 DEF OrderInv
  <2> QED
    BY <1>1, <1>2, <2>1, AppendElements DEF Upto
<1>7. Precedes(returned, channel') /\ Upto(returned, n)
  BY <1>2, <1>3, <1>4 DEF OrderInv
<1>8. ASSUME NEW t \in Takers
      PROVE  /\ Rising(taken[t]) /\ Upto(taken[t], n)
             /\ Precedes(returned, taken[t]) /\ Precedes(taken[t], channel')
  <2>1. taken[t] \in Seq(Nat)
    BY <1>2
  <2> QED
    BY <1>3, <1>4, <2>1 DEF OrderInv
<1> QED
  BY <1>1, <1>2, <1>5, <1>6, <1>7, <1>8 DEF OrderInv

\* Removing a packet: it follows what the holder has, and precedes the rest.
LEMMA RemoveOrder ==
  ASSUME QueueInv, OrderInv, NEW t \in Takers, Work(t), Remove(t)
  PROVE  OrderInv'
<1> DEFINE h == Head(channel)
<1>1. /\ channel \in Seq(Nat) /\ channel # <<>> /\ taken \in [Takers -> Seq(Nat)]
      /\ channel' = Tail(channel) /\ returned' = returned /\ accepted' = accepted
      /\ taken' = [taken EXCEPT ![t] = Append(@, h)]
      /\ returned \in Seq(Nat) /\ taken[t] \in Seq(Nat)
  BY DEF Work, Remove, QueueInv, OrderInv
<1>2. h \in Nat /\ h = channel[1] /\ 1 \in 1..Len(channel)
  BY <1>1, TailElements
<1> HIDE DEF h
<1>3. Rising(channel') /\ Upto(channel', accepted)
  BY <1>1, TailElements DEF OrderInv, Rising, Upto
<1>4. ASSUME NEW q, Precedes(q, channel)
      PROVE  Precedes(q, channel') /\ \A i \in 1..Len(q) : q[i] < h
  BY <1>1, <1>2, <1>4, TailElements DEF Precedes
<1>5. Precedes(returned, channel')
  BY <1>4 DEF OrderInv
<1>6. \A j \in 1..Len(channel') : h < channel'[j]
  <2> SUFFICES ASSUME NEW j \in 1..Len(channel') PROVE h < channel'[j]
    OBVIOUS
  <2>1. channel'[j] = channel[j + 1] /\ j + 1 \in 1..Len(channel) /\ 1 < j + 1
    BY <1>1, TailElements
  <2> QED
    BY <1>2, <2>1 DEF OrderInv, Rising
<1>7. /\ Rising(taken'[t]) /\ Upto(taken'[t], accepted)
      /\ Precedes(returned, taken'[t]) /\ Precedes(taken'[t], channel')
  <2> DEFINE q == taken[t]
  <2>1. taken'[t] = Append(q, h) /\ q \in Seq(Nat)
    BY <1>1
  <2>2. /\ Rising(q) /\ Upto(q, accepted) /\ Precedes(returned, q)
        /\ Precedes(q, channel) /\ Precedes(returned, channel)
    BY DEF OrderInv
  <2> HIDE DEF q
  <2>3. Precedes(q, channel') /\ \A i \in 1..Len(q) : q[i] < h
    BY <1>4, <2>2
  <2>4. Rising(Append(q, h))
    BY <1>2, <2>1, <2>2, <2>3, RisingAppend
  <2>5. h <= accepted
    BY <1>2 DEF OrderInv, Upto
  <2>6. Upto(Append(q, h), accepted)
    BY <1>2, <2>1, <2>2, <2>5, AppendElements DEF Upto
  <2>7. Precedes(returned, Append(q, h))
    BY <1>2, <1>4, <2>1, <2>2, AppendElements DEF Precedes
  <2>8. Precedes(Append(q, h), channel')
    BY <1>2, <1>6, <2>1, <2>3, AppendElements DEF Precedes
  <2> QED
    BY <2>1, <2>4, <2>6, <2>7, <2>8
<1>8. ASSUME NEW u \in Takers, u # t
      PROVE  /\ Rising(taken'[u]) /\ Upto(taken'[u], accepted)
             /\ Precedes(returned, taken'[u]) /\ Precedes(taken'[u], channel')
  <2>1. taken'[u] = taken[u]
    BY <1>1, <1>8
  <2> QED
    BY <1>4, <2>1 DEF OrderInv
<1> QED
  BY <1>1, <1>3, <1>5, <1>7, <1>8 DEF OrderInv

\* A sequence that is emptied, or does not change, keeps its place.
LEMMA EmptyKeepsOrder ==
  /\ Rising(<<>>) /\ \A n : Upto(<<>>, n)
  /\ \A s : Precedes(<<>>, s) /\ Precedes(s, <<>>)
BY DEF Rising, Upto, Precedes

\* dequeue() returns its packet: only the holder has removed any, so what is
\* appended to the output precedes everything else.
LEMMA ReturnOrder ==
  ASSUME QueueInv, OrderInv, NEW t \in Takers, ReturnPacket(t), accepted' = accepted
  PROVE  OrderInv'
<1>1. /\ returned' = returned \o taken[t] /\ channel' = channel
      /\ taken' = [taken EXCEPT ![t] = <<>>] /\ taken \in [Takers -> Seq(Nat)]
      /\ taken[t] \in Seq(Nat) /\ returned \in Seq(Nat) /\ channel \in Seq(Nat)
  BY DEF ReturnPacket, Subtract, QueueInv, OrderInv
<1>2. ASSUME NEW u \in Takers PROVE taken'[u] = <<>>
  <2>1. CASE u = t
    BY <1>1, <2>1
  <2>2. CASE u # t
    <3>1. holder = t
      BY DEF ReturnPacket, QueueInv, HolderWorks
    <3>2. stage[u] \notin Busy
      BY <2>2, <3>1 DEF QueueInv, HolderWorks, Busy
    <3>3. taken[u] = <<>>
      BY <3>2 DEF QueueInv, OnlyTakersHold, Busy
    <3> QED
      BY <1>1, <2>2, <3>3
  <2> QED
    BY <2>1, <2>2
<1>3. /\ Rising(taken[t]) /\ Upto(taken[t], accepted) /\ Rising(returned)
      /\ Upto(returned, accepted) /\ Precedes(returned, channel)
      /\ Precedes(returned, taken[t]) /\ Precedes(taken[t], channel)
  BY DEF OrderInv
<1>4. Rising(returned') /\ returned' \in Seq(Nat)
  BY <1>1, <1>3, RisingConcat, ConcatElements
<1>5. ASSUME NEW i \in 1..Len(returned')
      PROVE  \/ i \in 1..Len(returned) /\ returned'[i] = returned[i]
             \/ \E k \in 1..Len(taken[t]) : returned'[i] = taken[t][k]
  <2>1. CASE i <= Len(returned)
    <3>1. i \in 1..Len(returned)
      BY <1>1, <2>1, ConcatElements
    <3> QED
      BY <1>1, <3>1, ConcatElements
  <2>2. CASE i > Len(returned)
    BY <1>1, <2>2, ConcatElements
  <2> QED
    BY <1>1, <2>1, <2>2, ConcatElements
<1>6. Upto(returned', accepted) /\ Precedes(returned', channel)
  BY <1>3, <1>5 DEF Upto, Precedes
<1> QED
  BY <1>1, <1>2, <1>4, <1>6, EmptyKeepsOrder DEF OrderInv

\* Calls that end or wait without returning a packet.
LEMMA OtherOrder ==
  ASSUME QueueInv, OrderInv, UNCHANGED <<channel, returned, accepted>>,
         \A t \in Takers : taken'[t] \in {taken[t], <<>>}
  PROVE  OrderInv'
<1>1. ASSUME NEW t \in Takers
      PROVE  /\ Rising(taken'[t]) /\ Upto(taken'[t], accepted)
             /\ Precedes(returned, taken'[t]) /\ Precedes(taken'[t], channel)
  <2>1. CASE taken'[t] = taken[t]
    BY <2>1 DEF OrderInv
  <2>2. CASE taken'[t] = <<>>
    BY <2>2, EmptyKeepsOrder
  <2> QED
    BY <2>1, <2>2
<1> QED
  BY <1>1 DEF OrderInv

LEMMA OrderStep == QueueInv /\ OrderInv /\ [Next]_vars => OrderInv'
<1> SUFFICES ASSUME QueueInv, OrderInv, [Next]_vars PROVE OrderInv'
  OBVIOUS
<1>1. ASSUME NEW s \in Senders, Send(s) PROVE OrderInv'
  BY <1>1, SendOrder
<1>2. ASSUME NEW s \in Senders, CountSend(s), UNCHANGED <<accepted, clears>>
      PROVE  OrderInv'
  BY <1>2, OtherOrder DEF CountSend
<1>3. ASSUME NEW t \in Dequeuers, Dequeue(t) PROVE OrderInv'
  <2>1. t \in Takers /\ accepted' = accepted
    BY <1>3, ClientAssumption DEF ClientAssumption, Dequeue
  <2>2. CASE ReturnPacket(t)
    BY <2>1, <2>2, ReturnOrder
  <2>3. CASE Request(t, "wants packet") \/ Cancel(t)
    BY <2>1, <2>3, OtherOrder DEF Request, Cancel
  <2> QED
    BY <1>3, <2>2, <2>3 DEF Dequeue
<1>4. ASSUME NEW t \in Takers, CallClear(t) PROVE OrderInv'
  BY <1>4, OtherOrder DEF CallClear, Request
<1>5. ASSUME NEW t \in Takers, Clear(t) PROVE OrderInv'
  <2>1. taken' = [taken EXCEPT ![t] = <<>>] /\ taken \in [Takers -> Seq(Nat)]
    BY <1>5 DEF Clear, FinishClear, Subtract, QueueInv
  <2>2. \A u \in Takers : taken'[u] \in {taken[u], <<>>}
    BY <2>1
  <2> QED
    BY <1>5, <2>2, OtherOrder DEF Clear, FinishClear, Subtract
<1>6. ASSUME NEW t \in Takers, Work(t) PROVE OrderInv'
  <2>1. CASE Lock(t)
    BY <1>6, <2>1, OtherOrder DEF Work, Lock
  <2>2. CASE Remove(t)
    BY <1>6, <2>2, RemoveOrder
  <2> QED
    BY <1>6, <2>1, <2>2 DEF Work
<1>7. CASE UNCHANGED vars
  BY <1>7, OtherOrder DEF vars, queueVars
<1> QED
  BY <1>1, <1>2, <1>3, <1>4, <1>5, <1>6, <1>7 DEF Next

\* Packets are returned in the order in which they were accepted, whoever calls
\* dequeue(), whatever is dropped or cleared in between (queue.rs:52-105).
THEOREM ReturnedAsAccepted == Spec => []ReturnedInOrder
<1>1. Init => OrderInv
  <2> SUFFICES ASSUME Init PROVE OrderInv
    OBVIOUS
  <2>1. /\ returned = <<>> /\ channel = <<>>
        /\ \A t \in Takers : taken[t] = <<>>
    BY DEF Init, QueueInit
  <2> QED
    BY <2>1, EmptyKeepsOrder DEF OrderInv
<1>2. OrderInv => ReturnedInOrder
  BY DEF OrderInv, Rising, ReturnedInOrder
<1> QED
  BY <1>1, <1>2, OrderStep, QueueInvariant, PTL DEF Spec

-----------------------------------------------------------------------------
(* Every packet in one place *)

\* What has been removed and not subtracted, in the hands of the holder.
Kept == IF holder = NoOne THEN <<>> ELSE taken[holder]

LEMMA KeptIsHeld ==
  ASSUME QueueInv
  PROVE  /\ Kept \in Seq(Nat) /\ Unsubtracted = Len(Kept)
         /\ UNION {Elements(taken[t]) : t \in Takers} = Elements(Kept)
<1>1. /\ holder \in Takers \cup {NoOne} /\ NoOne \notin Takers
      /\ taken \in [Takers -> Seq(Nat)]
      /\ \A t \in Takers : t # holder => taken[t] = <<>>
  BY QueueAssumption DEF QueueAssumption, QueueInv, TypeOK, QueueTypeOK, HolderWorks,
     OnlyTakersHold
<1>2. Elements(<<>>) = {}
  BY DEF Elements
<1>3. CASE holder = NoOne
  BY <1>1, <1>2, <1>3 DEF Kept, Unsubtracted
<1>4. CASE holder \in Takers
  BY <1>1, <1>2, <1>4 DEF Kept, Unsubtracted
<1> QED
  BY <1>1, <1>3, <1>4

\* A rising sequence has as many elements as it is long.
LEMMA RisingCounts ==
  ASSUME NEW s \in Seq(Nat), Rising(s)
  PROVE  IsFiniteSet(Elements(s)) /\ Cardinality(Elements(s)) = Len(s)
<1>1. Len(s) \in Nat /\ DOMAIN s = 1..Len(s) /\ s \in [1..Len(s) -> Elements(s)]
  BY DEF Elements
<1>2. \A i, j \in 1..Len(s) : s[i] = s[j] => i = j
  <2> SUFFICES ASSUME NEW i \in 1..Len(s), NEW j \in 1..Len(s), i < j PROVE s[i] # s[j]
    BY <1>1
  <2> QED
    BY ElementIsNat DEF Rising
<1>3. s \in Bijection(1..Len(s), Elements(s))
  BY <1>1, <1>2 DEF Bijection, Injection, Surjection, IsInjective, Elements
<1>4. ExistsBijection(1..Len(s), Elements(s))
  BY <1>3 DEF ExistsBijection
<1>5. IsFiniteSet(1..Len(s)) /\ Cardinality(1..Len(s)) = Len(s)
  <2> DEFINE n == Len(s)
  <2>1. n \in Nat /\ n \in Int /\ 1 \in Int
    BY <1>1
  <2> HIDE DEF n
  <2>2. IsFiniteSet(1..n) /\ Cardinality(1..n) = IF 1 > n THEN 0 ELSE n - 1 + 1
    BY <2>1, FS_Interval, Zenon
  <2>3. Cardinality(1..n) = n
    BY <2>1, <2>2
  <2> QED
    BY <2>2, <2>3 DEF n
<1> QED
  BY <1>4, <1>5, FS_Bijection

\* Each step moves packets from one place to the next, or none.
LEMMA PacketsMove ==
  ASSUME QueueInv, [Next]_vars
  PROVE  \/ /\ channel' = Append(channel, accepted + 1) /\ accepted' = accepted + 1
            /\ UNCHANGED <<Kept, returned, cleared>>
         \/ /\ channel # <<>> /\ channel' = Tail(channel)
            /\ Kept' = Append(Kept, Head(channel))
            /\ UNCHANGED <<returned, cleared, accepted>>
         \/ /\ returned' = returned \o Kept /\ Kept' = <<>>
            /\ UNCHANGED <<channel, cleared, accepted>>
         \/ /\ cleared' = cleared \cup Elements(Kept) /\ Kept' = <<>>
            /\ UNCHANGED <<channel, returned, accepted>>
         \/ UNCHANGED <<channel, Kept, returned, cleared, accepted>>
<1>1. /\ holder \in Takers \cup {NoOne} /\ NoOne \notin Takers
      /\ taken \in [Takers -> Seq(Nat)]
      /\ \A t \in Takers : t # holder => taken[t] = <<>>
      /\ \A t \in Takers : stage[t] \in Busy <=> holder = t
  BY QueueAssumption DEF QueueAssumption, QueueInv, TypeOK, QueueTypeOK, HolderWorks,
     OnlyTakersHold, Busy
<1>2. ASSUME NEW s \in Senders, Send(s)
      PROVE  /\ channel' = Append(channel, accepted + 1) /\ accepted' = accepted + 1
             /\ UNCHANGED <<Kept, returned, cleared>>
  BY <1>2 DEF Send, TrySend, Kept
<1>3. ASSUME UNCHANGED <<holder, taken, channel, returned, cleared, accepted>>
      PROVE  UNCHANGED <<channel, Kept, returned, cleared, accepted>>
  BY <1>3 DEF Kept
<1>4. ASSUME NEW t \in Takers, Lock(t) \/ Cancel(t), UNCHANGED accepted
      PROVE  UNCHANGED <<channel, Kept, returned, cleared, accepted>>
  BY <1>1, <1>4 DEF Lock, Cancel, Kept, QueueInv, OnlyTakersHold, Busy
<1>5. ASSUME NEW t \in Takers, Remove(t)
      PROVE  /\ channel # <<>> /\ channel' = Tail(channel)
             /\ Kept' = Append(Kept, Head(channel))
             /\ UNCHANGED <<returned, cleared>>
  <2>1. holder = t /\ holder' = t
    BY <1>1, <1>5 DEF Remove, Busy
  <2> QED
    BY <1>1, <1>5, <2>1 DEF Remove, Kept
<1>6. ASSUME NEW t \in Takers, Subtract(t), stage[t] \in Busy
      PROVE  Kept = taken[t] /\ Kept' = <<>> /\ channel' = channel
  BY <1>1, <1>6 DEF Subtract, Kept
<1>7. ASSUME NEW t \in Takers, ReturnPacket(t)
      PROVE  returned' = returned \o Kept /\ Kept' = <<>> /\ UNCHANGED <<channel, cleared>>
  BY <1>6, <1>7 DEF ReturnPacket, Busy
<1>8. ASSUME NEW t \in Takers, FinishClear(t)
      PROVE  /\ cleared' = cleared \cup Elements(Kept) /\ Kept' = <<>>
             /\ UNCHANGED <<channel, returned>>
  <2>1. Kept = taken[t] /\ Kept' = <<>> /\ channel' = channel
    BY <1>6, <1>8 DEF FinishClear, Busy
  <2>2. DOMAIN taken[t] = 1..Len(taken[t])
    BY <1>1
  <2> QED
    BY <1>8, <2>1, <2>2 DEF FinishClear, Elements
<1>9. CASE \E s \in Senders : Send(s) \/ (CountSend(s) /\ UNCHANGED <<accepted, clears>>)
  BY <1>2, <1>3, <1>9 DEF CountSend
<1>10. CASE \E t \in Dequeuers : Dequeue(t)
  BY <1>3, <1>4, <1>7, <1>10, ClientAssumption DEF ClientAssumption, Dequeue, Request
<1>11. CASE \E t \in Takers \ Dequeuers : CallClear(t) \/ Clear(t)
  BY <1>3, <1>8, <1>11 DEF CallClear, Clear, Request
<1>12. CASE \E t \in Takers : Work(t)
  BY <1>4, <1>5, <1>12 DEF Work
<1>13. CASE UNCHANGED vars
  BY <1>3, <1>13 DEF vars, queueVars
<1> QED
  BY <1>9, <1>10, <1>11, <1>12, <1>13 DEF Next

\* The inductive invariant: nothing cleared is still on its way.
PlaceInv ==
  /\ Elements(channel) \cup Elements(Kept) \cup Elements(returned) \cup cleared
       = 1..accepted
  /\ cleared \cap (Elements(channel) \cup Elements(Kept)) = {}
  /\ Len(channel) + Len(Kept) + Len(returned) + Cardinality(cleared) = accepted

\* The elements of a sequence that grows, shrinks or is appended.
LEMMA ElementsMove ==
  ASSUME NEW s \in Seq(Nat), NEW r \in Seq(Nat), NEW e \in Nat
  PROVE  /\ Elements(Append(s, e)) = Elements(s) \cup {e}
         /\ Elements(s \o r) = Elements(s) \cup Elements(r)
         /\ s # <<>> => Elements(s) = {Head(s)} \cup Elements(Tail(s))
<1>0. \A p, q \in Seq(Nat) : Range(p \o q) = Range(p) \cup Range(q)
  BY RangeConcatenation
<1>1. ASSUME NEW q \in Seq(Nat) PROVE Elements(q) = Range(q)
  BY DEF Elements, Range
<1>2. /\ <<e>> \in Seq(Nat) /\ Append(s, e) = s \o <<e>> /\ Append(s, e) \in Seq(Nat)
      /\ s \o r \in Seq(Nat) /\ Range(<<e>>) = {e}
  BY DEF Range
<1>3. /\ Elements(Append(s, e)) = Elements(s) \cup {e}
      /\ Elements(s \o r) = Elements(s) \cup Elements(r)
  <2>1. Range(s \o <<e>>) = Range(s) \cup Range(<<e>>)
    BY <1>0, <1>2
  <2>2. Range(s \o r) = Range(s) \cup Range(r)
    BY <1>0
  <2> QED
    BY <1>1, <1>2, <2>1, <2>2
<1>4. ASSUME s # <<>> PROVE Elements(s) = {Head(s)} \cup Elements(Tail(s))
  <2>1. /\ <<Head(s)>> \in Seq(Nat) /\ Tail(s) \in Seq(Nat) /\ s = <<Head(s)>> \o Tail(s)
        /\ Range(<<Head(s)>>) = {Head(s)}
    BY <1>4 DEF Range
  <2>2. Range(<<Head(s)>> \o Tail(s)) = Range(<<Head(s)>>) \cup Range(Tail(s))
    BY <1>0, <2>1
  <2> QED
    BY <1>1, <2>1, <2>2
<1> QED
  BY <1>3, <1>4

LEMMA NoElements == Elements(<<>>) = {} /\ Len(<<>>) = 0
BY DEF Elements

LEMMA PlaceStep == QueueInv /\ OrderInv /\ PlaceInv /\ [Next]_vars => PlaceInv'
<1> SUFFICES ASSUME QueueInv, OrderInv, PlaceInv, [Next]_vars PROVE PlaceInv'
  OBVIOUS
<1> DEFINE c == Elements(channel)
           k == Elements(Kept)
           r == Elements(returned)
<1>1. /\ channel \in Seq(Nat) /\ Kept \in Seq(Nat) /\ returned \in Seq(Nat)
      /\ accepted \in Nat
      /\ Len(channel) \in Nat /\ Len(Kept) \in Nat /\ Len(returned) \in Nat
  BY KeptIsHeld, ClientAssumption DEF ClientAssumption, QueueInv, OrderInv, TypeOK
<1>2. IsFiniteSet(cleared) /\ Cardinality(cleared) \in Nat
  <2>1. cleared \in SUBSET (1..accepted)
    BY DEF PlaceInv
  <2> QED
    <3>1. IsFiniteSet(1..accepted)
      BY <1>1, FS_Interval
    <3> QED
      BY <2>1, <3>1, FS_Subset, FS_CardinalityType
<1>3. CASE /\ channel' = Append(channel, accepted + 1) /\ accepted' = accepted + 1
           /\ UNCHANGED <<Kept, returned, cleared>>
  <2>1. Elements(channel') = c \cup {accepted + 1} /\ Len(channel') = Len(channel) + 1
    BY <1>1, <1>3, ElementsMove
  <2>2. 1..accepted' = (1..accepted) \cup {accepted + 1} /\ accepted + 1 \notin 1..accepted
    BY <1>1, <1>3
  <2>3. /\ Elements(channel') \cup k \cup r \cup cleared = 1..accepted'
        /\ cleared \cap (Elements(channel') \cup k) = {}
    BY <2>1, <2>2 DEF PlaceInv
  <2>4. Len(channel') + Len(Kept) + Len(returned) + Cardinality(cleared) = accepted'
    <3>1. Len(channel) + Len(Kept) + Len(returned) + Cardinality(cleared) = accepted
      BY DEF PlaceInv
    <3> QED
      BY <1>1, <1>2, <1>3, <2>1, <3>1
  <2> QED
    BY <1>3, <2>3, <2>4 DEF PlaceInv
<1>4. CASE /\ channel # <<>> /\ channel' = Tail(channel)
           /\ Kept' = Append(Kept, Head(channel))
           /\ UNCHANGED <<returned, cleared, accepted>>
  <2>1. Head(channel) \in Nat /\ Len(channel') = Len(channel) - 1
    BY <1>1, <1>4
  <2>2. Elements(Kept') = k \cup {Head(channel)} /\ Len(Kept') = Len(Kept) + 1
    BY <1>1, <1>4, <2>1, ElementsMove
  <2>3. c = {Head(channel)} \cup Elements(channel')
    BY <1>1, <1>4, ElementsMove
  <2>4. Elements(channel') \cup Elements(Kept') = c \cup k
    BY <2>2, <2>3
  <2> QED
    BY <1>1, <1>2, <1>4, <2>1, <2>2, <2>4 DEF PlaceInv
<1>5. CASE /\ returned' = returned \o Kept /\ Kept' = <<>>
           /\ UNCHANGED <<channel, cleared, accepted>>
  <2>1. /\ Elements(returned') = r \cup k /\ Elements(Kept') = {} /\ Len(Kept') = 0
        /\ Len(returned') = Len(returned) + Len(Kept)
    BY <1>1, <1>5, ElementsMove, NoElements
  <2> QED
    BY <1>1, <1>2, <1>5, <2>1 DEF PlaceInv
<1>6. CASE /\ cleared' = cleared \cup Elements(Kept) /\ Kept' = <<>>
           /\ UNCHANGED <<channel, returned, accepted>>
  <2>1. Elements(Kept') = {} /\ Len(Kept') = 0
    BY <1>6, NoElements
  <2>2. Rising(Kept) /\ Precedes(Kept, channel)
    BY EmptyKeepsOrder, QueueAssumption DEF QueueAssumption, OrderInv, Kept, QueueInv,
       TypeOK, QueueTypeOK
  <2>3. IsFiniteSet(k) /\ Cardinality(k) = Len(Kept)
    BY <1>1, <2>2, RisingCounts
  <2>4. Cardinality(cleared') = Cardinality(cleared) + Len(Kept)
    <3>1. cleared \cap k = {}
      BY DEF PlaceInv
    <3>2. Cardinality(cleared \cap k) = 0
      BY <3>1, FS_EmptySet
    <3>3. Cardinality(cleared \cup k)
            = Cardinality(cleared) + Cardinality(k) - Cardinality(cleared \cap k)
      BY <1>2, <2>3, FS_Union
    <3> QED
      BY <1>1, <1>2, <1>6, <2>3, <3>2, <3>3
  <2>5. k \cap c = {}
    <3> SUFFICES ASSUME NEW i \in DOMAIN Kept, NEW j \in DOMAIN channel
                 PROVE  Kept[i] # channel[j]
      BY DEF Elements
    <3>1. i \in 1..Len(Kept) /\ j \in 1..Len(channel)
      BY <1>1
    <3>2. Kept[i] \in Nat /\ channel[j] \in Nat /\ Kept[i] < channel[j]
      BY <1>1, <2>2, <3>1, ElementIsNat DEF Precedes
    <3> QED
      BY <3>2
  <2> QED
    BY <1>1, <1>2, <1>6, <2>1, <2>4, <2>5 DEF PlaceInv
<1>7. CASE UNCHANGED <<channel, Kept, returned, cleared, accepted>>
  BY <1>7 DEF PlaceInv
<1> QED
  BY <1>3, <1>4, <1>5, <1>6, <1>7, PacketsMove

LEMMA StartsEmpty == Init => OrderInv /\ PlaceInv
<1> SUFFICES ASSUME Init PROVE OrderInv /\ PlaceInv
  OBVIOUS
<1>1. /\ returned = <<>> /\ channel = <<>> /\ holder = NoOne /\ accepted = 0
      /\ cleared = {} /\ \A t \in Takers : taken[t] = <<>>
  BY DEF Init, QueueInit
<1>2. Kept = <<>> /\ Elements(<<>>) = {} /\ Cardinality(cleared) = 0 /\ 1..accepted = {}
  BY <1>1, FS_EmptySet DEF Kept, Elements
<1> QED
  BY <1>1, <1>2, EmptyKeepsOrder DEF OrderInv, PlaceInv

\* No packet is lost or seen twice, for any number of callers and whichever calls
\* of dequeue() are dropped (queue.rs:77-79).
THEOREM NothingLost == Spec => []EveryPacketInOnePlace
<1>1. QueueInv /\ PlaceInv => EveryPacketInOnePlace
  BY KeptIsHeld DEF PlaceInv, EveryPacketInOnePlace
<1> QED
  BY <1>1, StartsEmpty, OrderStep, PlaceStep, QueueInvariant, PTL DEF Spec

-----------------------------------------------------------------------------
(* Refinement *)

\* A dequeue() that has received holds one packet, and one that still waits or a
\* call of clear() that has found nothing yet holds none.
OneReceived ==
  \A t \in Takers : stage[t] = "received" => Len(taken[t]) = 1

FifoInv == QueueInv /\ OrderInv /\ OneReceived

FifoVars == <<channel, LastTaken>>

LEMMA OneReceivedStep ==
  QueueInv /\ OneReceived /\ [Next]_vars => OneReceived'
<1> SUFFICES ASSUME QueueInv, OneReceived, [Next]_vars,
                    NEW u \in Takers, stage'[u] = "received"
             PROVE  Len(taken'[u]) = 1
  BY DEF OneReceived
<1>1. taken \in [Takers -> Seq(Nat)] /\ stage \in [Takers -> Stages] /\ channel \in Seq(Nat)
  BY DEF QueueInv, TypeOK, QueueTypeOK
<1>2. CASE stage[u] = "received" /\ taken'[u] = taken[u]
  BY <1>2 DEF OneReceived
<1>3. CASE UNCHANGED <<stage, taken>>
  BY <1>2, <1>3
<1>4. ASSUME NEW s \in Senders, Send(s) \/ CountSend(s) PROVE Len(taken'[u]) = 1
  BY <1>3, <1>4 DEF Send, TrySend, CountSend
<1>5. ASSUME NEW t \in Dequeuers, Dequeue(t) PROVE Len(taken'[u]) = 1
  <2>1. t \in Takers
    BY ClientAssumption DEF ClientAssumption
  <2>2. CASE Request(t, "wants packet") \/ Cancel(t)
    BY <1>1, <1>2, <2>1, <2>2 DEF Request, Cancel
  <2>3. CASE ReturnPacket(t)
    BY <1>1, <1>2, <2>1, <2>3 DEF ReturnPacket, Subtract
  <2> QED
    BY <1>5, <2>2, <2>3 DEF Dequeue
<1>6. ASSUME NEW t \in Takers, CallClear(t) PROVE Len(taken'[u]) = 1
  BY <1>1, <1>2, <1>6 DEF CallClear, Request
<1>7. ASSUME NEW t \in Takers, Clear(t) PROVE Len(taken'[u]) = 1
  BY <1>1, <1>2, <1>7 DEF Clear, FinishClear, Subtract
<1>8. ASSUME NEW t \in Takers, Work(t) PROVE Len(taken'[u]) = 1
  <2>1. CASE Lock(t)
    BY <1>1, <1>2, <2>1 DEF Lock
  <2>2. CASE Remove(t) /\ u # t
    BY <1>1, <1>2, <2>2 DEF Remove
  <2>3. CASE Remove(t) /\ u = t
    <3>1. stage[t] = "receiving"
      BY <1>1, <2>3 DEF Remove
    <3>2. taken[t] = <<>>
      BY <3>1 DEF QueueInv, OnlyTakersHold
    <3>3. taken'[t] = Append(<<>>, Head(channel))
      BY <1>1, <2>3, <3>2 DEF Remove
    <3> QED
      BY <2>3, <3>3
  <2> QED
    BY <1>8, <2>1, <2>2, <2>3 DEF Work
<1>9. CASE UNCHANGED vars
  BY <1>3, <1>9 DEF vars, queueVars
<1> QED
  BY <1>4, <1>5, <1>6, <1>7, <1>8, <1>9 DEF Next

\* What the queue has handed out last depends on these alone.
LEMMA SameHanded ==
  ASSUME UNCHANGED <<holder, stage, taken, returned>>
  PROVE  LastTaken' = LastTaken
BY DEF LastTaken

\* While nobody has a packet in hand, it is the last one returned.
LEMMA NobodyReceived ==
  ASSUME holder # NoOne => stage[holder] # "received"
  PROVE  LastTaken = IF returned = <<>> THEN 0 ELSE returned[Len(returned)]
BY DEF LastTaken

\* Locking, calling and giving up do not change it.
LEMMA WaitingHandsNothing ==
  ASSUME QueueInv, UNCHANGED returned, NEW t \in Takers,
         \/ Lock(t) \/ Cancel(t)
         \/ \E want : Request(t, want)
  PROVE  LastTaken' = LastTaken
<1>1. /\ holder \in Takers \cup {NoOne} /\ NoOne \notin Takers
      /\ stage \in [Takers -> Stages]
      /\ \A u \in Takers : stage[u] \in Busy <=> holder = u
  BY QueueAssumption DEF QueueAssumption, QueueInv, TypeOK, QueueTypeOK, HolderWorks, Busy
<1>2. CASE Lock(t)
  <2>1. holder = NoOne /\ holder' = t /\ stage'[t] # "received"
    BY <1>1, <1>2 DEF Lock
  <2> QED
    BY <2>1 DEF LastTaken
<1>3. CASE Cancel(t)
  <2>1. CASE holder = t
    <3>1. stage[holder] # "received" /\ holder' = NoOne
      BY <1>3, <2>1 DEF Cancel
    <3> QED
      BY <3>1 DEF LastTaken
  <2>2. CASE holder # t
    <3>1. holder' = holder /\ taken' = taken
      BY <1>3, <2>2 DEF Cancel
    <3>2. holder # NoOne => stage'[holder] = stage[holder]
      BY <1>1, <1>3, <2>2 DEF Cancel
    <3> QED
      BY <3>1, <3>2 DEF LastTaken
  <2> QED
    BY <2>1, <2>2
<1>4. CASE \E want : Request(t, want)
  <2>1. stage[t] = "idle" /\ holder' = holder /\ taken' = taken
    BY <1>4 DEF Request
  <2>2. holder # t
    BY <1>1, <2>1 DEF Busy
  <2>3. holder # NoOne => stage'[holder] = stage[holder]
    BY <1>1, <1>4, <2>2 DEF Request
  <2> QED
    BY <2>1, <2>3 DEF LastTaken
<1> QED
  BY <1>2, <1>3, <1>4

\* A packet taken off the channel is handed out by dequeue(), discarded by clear().
LEMMA RemoveIsTakeOrDiscard ==
  ASSUME QueueInv, NEW t \in Takers, Remove(t)
  PROVE  Fifo!Take \/ Fifo!Discard
<1>1. /\ stage \in [Takers -> Stages] /\ taken \in [Takers -> Seq(Nat)]
      /\ NoOne \notin Takers /\ channel \in Seq(Nat)
  BY QueueAssumption DEF QueueAssumption, QueueInv, TypeOK, QueueTypeOK
<1>2. /\ holder = t /\ holder' = t /\ holder # NoOne /\ channel # <<>>
      /\ channel' = Tail(channel) /\ returned' = returned
  BY <1>1 DEF Remove, QueueInv, HolderWorks
<1>3. CASE stage[t] = "receiving"
  <2>1. taken[t] = <<>>
    BY <1>3 DEF QueueInv, OnlyTakersHold
  <2>2. stage'[t] = "received" /\ taken'[t] = Append(<<>>, Head(channel))
    BY <1>1, <1>3, <2>1 DEF Remove
  <2>3. LastTaken' = Head(channel)
    BY <1>2, <2>2 DEF LastTaken
  <2> QED
    BY <1>2, <2>3 DEF Fifo!Take
<1>4. CASE stage[t] = "draining"
  <2>1. stage'[t] = "draining"
    BY <1>1, <1>4 DEF Remove
  <2>2. LastTaken' = LastTaken
    BY <1>2, <1>4, <2>1 DEF LastTaken
  <2> QED
    BY <1>2, <2>2 DEF Fifo!Discard
<1> QED
  BY <1>3, <1>4 DEF Remove

\* The packet a dequeue() returns was handed out when it was taken.
LEMMA ReturnHandsNothing ==
  ASSUME FifoInv, NEW t \in Takers, ReturnPacket(t)
  PROVE  LastTaken' = LastTaken /\ channel' = channel
<1>1. /\ taken[t] \in Seq(Nat) /\ Len(taken[t]) = 1 /\ returned \in Seq(Nat)
      /\ holder = t /\ NoOne \notin Takers /\ stage[t] = "received"
  BY QueueAssumption DEF QueueAssumption, FifoInv, QueueInv, OrderInv, HolderWorks,
     OneReceived, ReturnPacket
<1>2. holder' = NoOne /\ channel' = channel /\ returned' = returned \o taken[t]
  BY DEF ReturnPacket, Subtract
<1>3. LastTaken = taken[t][1]
  BY <1>1 DEF LastTaken
<1>4. returned' # <<>> /\ returned'[Len(returned')] = taken[t][1]
  <2> DEFINE r == taken[t]
             c == returned \o r
  <2>1. r \in Seq(Nat) /\ Len(r) = 1 /\ returned \in Seq(Nat)
    BY <1>1
  <2> HIDE DEF r
  <2>2. /\ Len(c) = Len(returned) + Len(r) /\ Len(returned) \in Nat
        /\ \A i \in 1..Len(c) : i > Len(returned) => c[i] = r[i - Len(returned)]
    BY <2>1, ConcatElements
  <2> HIDE DEF c
  <2>3. /\ Len(c) \in 1..Len(c) /\ Len(c) > Len(returned)
        /\ Len(c) - Len(returned) = 1
    BY <2>1, <2>2
  <2>4. c[Len(c)] = r[1]
    BY <2>2, <2>3
  <2>5. c # <<>>
    BY <2>3
  <2> QED
    BY <1>2, <2>4, <2>5 DEF c, r
<1> QED
  BY <1>2, <1>3, <1>4 DEF LastTaken

\* Each step of the queue is one of BoundedFifo, or a stutter.
LEMMA FifoStep == FifoInv /\ [Next]_vars => [Fifo!Next]_FifoVars
<1> SUFFICES ASSUME FifoInv, [Next]_vars
             PROVE  Fifo!Next \/ (channel' = channel /\ LastTaken' = LastTaken)
  BY DEF FifoVars
<1>1. ASSUME NEW s \in Senders, Send(s) PROVE Fifo!Next
  <2>1. accepted \in Nat /\ accepted < MaxPackets /\ MaxPackets \in Nat
    BY <1>1, ClientAssumption DEF ClientAssumption, Send, FifoInv, QueueInv, TypeOK
  <2>2. accepted + 1 \in 1..MaxPackets
    BY <2>1
  <2>3. /\ Len(channel) \in Nat /\ Slots \in Nat /\ ~(Len(channel) >= Slots)
        /\ channel' = Append(channel, accepted + 1)
    BY <1>1, QueueAssumption
       DEF QueueAssumption, Slots, Send, TrySend, IsFull, FifoInv, QueueInv
  <2>4. LastTaken' = LastTaken
    BY <1>1, SameHanded DEF Send, TrySend
  <2>5. Fifo!Accept(accepted + 1)
    BY <2>3, <2>4 DEF Fifo!Accept
  <2> QED
    BY <2>2, <2>5 DEF Fifo!Next
<1>2. ASSUME NEW s \in Senders, CountSend(s)
      PROVE  channel' = channel /\ LastTaken' = LastTaken
  BY <1>2, SameHanded DEF CountSend
<1>3. ASSUME NEW t \in Dequeuers, Dequeue(t)
      PROVE  channel' = channel /\ LastTaken' = LastTaken
  <2>1. t \in Takers
    BY ClientAssumption DEF ClientAssumption
  <2>2. CASE ReturnPacket(t)
    BY <2>1, <2>2, ReturnHandsNothing
  <2>3. CASE Request(t, "wants packet") \/ Cancel(t)
    BY <2>1, <2>3, WaitingHandsNothing DEF FifoInv, Request, Cancel
  <2> QED
    BY <1>3, <2>2, <2>3 DEF Dequeue
<1>4. ASSUME NEW t \in Takers, CallClear(t)
      PROVE  channel' = channel /\ LastTaken' = LastTaken
  BY <1>4, WaitingHandsNothing DEF FifoInv, CallClear, Request
<1>5. ASSUME NEW t \in Takers, Clear(t)
      PROVE  channel' = channel /\ LastTaken' = LastTaken
  <2>1. stage[t] = "draining" /\ holder' = NoOne /\ UNCHANGED <<channel, returned>>
    BY <1>5 DEF Clear, FinishClear, Subtract
  <2>2. holder = t
    BY <2>1 DEF FifoInv, QueueInv, HolderWorks
  <2> QED
    BY <2>1, <2>2 DEF LastTaken
<1>6. ASSUME NEW t \in Takers, Work(t)
      PROVE  Fifo!Next \/ (channel' = channel /\ LastTaken' = LastTaken)
  <2>1. CASE Lock(t)
    BY <2>1, WaitingHandsNothing DEF FifoInv, Lock
  <2>2. CASE Remove(t)
    BY <2>2, RemoveIsTakeOrDiscard DEF FifoInv, Fifo!Next
  <2> QED
    BY <1>6, <2>1, <2>2 DEF Work
<1>7. CASE UNCHANGED vars
  BY <1>7, SameHanded DEF vars, queueVars
<1> QED
  BY <1>1, <1>2, <1>3, <1>4, <1>5, <1>6, <1>7 DEF Next

\* For any number of senders and callers the queue is a bounded FIFO: a mutex, a
\* counter, calls that wait, are dropped or clear it change nothing of that
\* (queue.rs:52-105).
THEOREM QueueIsFifo == Spec => ImplementsFifo
<1>1. Init => OrderInv /\ OneReceived /\ Fifo!Init
  <2> SUFFICES ASSUME Init PROVE OrderInv /\ OneReceived /\ Fifo!Init
    OBVIOUS
  <2>1. /\ returned = <<>> /\ channel = <<>> /\ holder = NoOne
        /\ \A t \in Takers : taken[t] = <<>> /\ stage[t] = "idle"
    BY DEF Init, QueueInit
  <2>2. LastTaken = 0
    BY <2>1 DEF LastTaken
  <2> QED
    BY <2>1, <2>2, EmptyKeepsOrder DEF OrderInv, OneReceived, Fifo!Init
<1>2. QueueInv /\ OrderInv /\ OneReceived => FifoInv
  BY DEF FifoInv
<1>3. [Fifo!Next]_FifoVars => [Fifo!Next]_<<channel, LastTaken>>
  BY DEF FifoVars
<1> QED
  BY <1>1, <1>2, <1>3, OrderStep, OneReceivedStep, FifoStep, QueueInvariant, PTL
     DEF Spec, ImplementsFifo, Fifo!Spec

=============================================================================
