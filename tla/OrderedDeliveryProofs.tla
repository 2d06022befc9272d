------------------------ MODULE OrderedDeliveryProofs ------------------------
(***************************************************************************)
(* What every implementation of OrderedDelivery inherits.                  *)
(***************************************************************************)
EXTENDS OrderedDelivery, SequenceTheorems, TLAPS

\* The order of the output is inductive only with the floor between what was
\* handed out and what may still be.
PromiseInv ==
  /\ TypeOK
  /\ StrictlyIncreasing
  /\ FloorSeparates

LEMMA OutputElement ==
  ASSUME MaxSeq \in Nat, out \in Seq(SeqNum), NEW i \in 1..Len(out)
  PROVE  out[i] \in Int
BY ElementOfSeq DEF SeqNum

\* Handing over the lowest packet of those that are kept keeps the order.
LEMMA DeliverStep ==
  ASSUME MaxSeq \in Nat, PromiseInv,
         NEW s \in pending, NEW dropped \in SUBSET pending, Deliver(s, dropped)
  PROVE  PromiseInv'
<1>1. s \in SeqNum /\ s \in Int /\ s >= floor /\ floor' = s + 1
      /\ floor' \in 0..(MaxSeq + 1)
  BY DEF PromiseInv, TypeOK, FloorSeparates, Deliver, SeqNum
<1>2. /\ out' \in Seq(SeqNum) /\ Len(out') = Len(out) + 1 /\ Len(out) \in Nat
      /\ out'[Len(out) + 1] = s
      /\ \A i \in 1..Len(out) : out'[i] = out[i]
  BY <1>1 DEF PromiseInv, TypeOK, Deliver
<1>3. \A i \in 1..Len(out) : out[i] \in Int /\ out[i] < s
  <2> SUFFICES ASSUME NEW i \in 1..Len(out) PROVE out[i] \in Int /\ out[i] < s
    OBVIOUS
  <2>1. out[i] \in Int
    BY OutputElement DEF PromiseInv, TypeOK
  <2>2. out[i] < floor /\ floor \in Int
    BY DEF PromiseInv, TypeOK, FloorSeparates
  <2> QED
    BY <1>1, <2>1, <2>2
<1>4. StrictlyIncreasing'
  <2> SUFFICES ASSUME NEW i \in 1..Len(out'), NEW j \in 1..Len(out'), i < j
               PROVE  out'[i] < out'[j]
    BY DEF StrictlyIncreasing
  <2>1. CASE j = Len(out) + 1
    BY <1>2, <1>3, <2>1
  <2>2. CASE j # Len(out) + 1
    <3>1. i \in 1..Len(out) /\ j \in 1..Len(out)
      BY <1>2, <2>2
    <3>2. out[i] < out[j]
      BY <3>1 DEF PromiseInv, TypeOK, StrictlyIncreasing
    <3> QED
      BY <1>2, <3>1, <3>2
  <2> QED
    BY <2>1, <2>2
<1>5. FloorSeparates'
  <2>1. \A i \in 1..Len(out') : out'[i] < floor'
    <3> SUFFICES ASSUME NEW i \in 1..Len(out') PROVE out'[i] < floor'
      OBVIOUS
    <3>1. i = Len(out) + 1 \/ i \in 1..Len(out)
      BY <1>2
    <3> QED
      BY <1>1, <1>2, <1>3, <3>1
  <2>2. \A r \in pending' : r >= floor'
    <3> SUFFICES ASSUME NEW r \in pending' PROVE r >= floor'
      OBVIOUS
    <3>1. r \in pending \ dropped /\ r # s /\ r \in Int
      BY DEF Deliver, PromiseInv, TypeOK, SeqNum
    <3>2. s <= r
      BY <3>1 DEF Deliver, IsLowest
    <3> QED
      BY <1>1, <3>1, <3>2
  <2> QED
    BY <2>1, <2>2 DEF FloorSeparates
<1> QED
  BY <1>1, <1>2, <1>4, <1>5 DEF PromiseInv, TypeOK, Deliver

\* Discarding the lowest packet unseen moves the floor above it.
LEMMA SkipStep ==
  ASSUME MaxSeq \in Nat, PromiseInv, NEW s \in pending, Skip(s)
  PROVE  PromiseInv'
<1>1. s \in Int /\ s >= floor /\ floor \in Int /\ floor' = s + 1 /\ out' = out
      /\ floor' \in 0..(MaxSeq + 1)
  BY DEF PromiseInv, TypeOK, FloorSeparates, Skip, SeqNum
<1>2. \A i \in 1..Len(out') : out'[i] < floor'
  <2> SUFFICES ASSUME NEW i \in 1..Len(out) PROVE out[i] < s + 1
    BY <1>1
  <2>1. out[i] \in Int /\ out[i] < floor
    BY OutputElement DEF PromiseInv, TypeOK, FloorSeparates
  <2> QED
    BY <1>1, <2>1
<1>3. \A r \in pending' : r >= floor'
  <2> SUFFICES ASSUME NEW r \in pending' PROVE r >= floor'
    OBVIOUS
  <2>1. r \in pending /\ r # s /\ r \in Int
    BY DEF Skip, PromiseInv, TypeOK, SeqNum
  <2>2. s <= r
    BY <2>1 DEF Skip, IsLowest
  <2> QED
    BY <1>1, <2>1, <2>2
<1> QED
  BY <1>1, <1>2, <1>3 DEF PromiseInv, TypeOK, StrictlyIncreasing, FloorSeparates, Skip

LEMMA PromiseStep ==
  ASSUME MaxSeq \in Nat
  PROVE  PromiseInv /\ [Next]_vars => PromiseInv'
<1> SUFFICES ASSUME PromiseInv, [Next]_vars PROVE PromiseInv'
  OBVIOUS
<1>1. ASSUME NEW s \in SeqNum, NEW dropped \in SUBSET pending, Accept(s, dropped)
      PROVE  PromiseInv'
  BY <1>1 DEF Accept, PromiseInv, TypeOK, StrictlyIncreasing, FloorSeparates
<1>2. ASSUME NEW dropped \in SUBSET pending, NEW s \in pending, Deliver(s, dropped)
      PROVE  PromiseInv'
  BY <1>2, DeliverStep
<1>3. ASSUME NEW s \in pending, Skip(s) PROVE PromiseInv'
  BY <1>3, SkipStep
<1>4. ASSUME NEW dropped \in SUBSET pending, Drop(dropped) PROVE PromiseInv'
  BY <1>4 DEF Drop, PromiseInv, TypeOK, StrictlyIncreasing, FloorSeparates
<1>5. CASE Restart
  BY <1>5 DEF Restart, PromiseInv, TypeOK, StrictlyIncreasing, FloorSeparates
<1>6. CASE UNCHANGED vars
  BY <1>6 DEF vars, PromiseInv, TypeOK, StrictlyIncreasing, FloorSeparates
<1> QED
  BY <1>1, <1>2, <1>3, <1>4, <1>5, <1>6 DEF Next

\* Whatever implements OrderedDelivery hands sequence numbers to its consumer in
\* strictly increasing order, and what is pending lies above all of them; the
\* jitter buffer does (jitter_buffer.rs:107-285).
THEOREM PromiseKept ==
  ASSUME MaxSeq \in Nat
  PROVE  Spec => [](StrictlyIncreasing /\ FloorSeparates)
<1>1. Init => PromiseInv
  BY DEF Init, PromiseInv, TypeOK, StrictlyIncreasing, FloorSeparates
<1>2. PromiseInv /\ [Next]_vars => PromiseInv'
  BY PromiseStep
<1>3. PromiseInv => StrictlyIncreasing /\ FloorSeparates
  BY DEF PromiseInv
<1> QED
  BY <1>1, <1>2, <1>3, PTL DEF Spec

=============================================================================
