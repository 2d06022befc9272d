----------------------------- MODULE EngineProofs -----------------------------
(***************************************************************************)
(* Proofs about StreamingEngine, for any number of workers, callers and    *)
(* packets, any capacities and retries, and any transport.                 *)
(*                                                                         *)
(* The engine is a client of its outbound queue, as MCPacketQueue allows   *)
(* them: what was proved of the queue there holds here.                    *)
(***************************************************************************)
EXTENDS StreamingEngine, FiniteSetTheorems, SequenceTheorems, TLAPS

Queue == INSTANCE PacketQueueProofs WITH
  Senders <- Producers, Takers <- Takers, Capacity <- QueueCapacity,
  Dequeuers <- Workers

\* What is known of the queue.
QueueKnown == Queue!FifoInv /\ Queue!PlaceInv

\* Every packet offered was refused, or accepted, or has yet to be.
OfferInv ==
  /\ offered \in Nat /\ accepted \in Nat /\ overflowed \in Nat
  /\ producing \subseteq Producers /\ IsFiniteSet(producing)
  /\ offered = accepted + overflowed + Cardinality(producing)
  /\ offered <= MaxPackets

-----------------------------------------------------------------------------
(* Tasks *)

Delivering == {"send", "backoff"}

\* A task holds a packet while it delivers one, and a worker has a call of
\* dequeue() only in its select!.
TaskInv ==
  /\ state \in {"Stopped", "Running", "Paused"}
  /\ pc \in [Tasks -> {"ended", "top", "paused", "select"} \cup Delivering]
  /\ hand \in [Tasks -> Nat \cup Directs \cup {NoOne}]
  /\ \A t \in Tasks : pc[t] \in Delivering <=> hand[t] # NoOne
  /\ \A w \in Workers :
       /\ hand[w] \notin Directs
       /\ stage[w] \in {"idle", "wants packet", "receiving", "received"}
       /\ stage[w] # "idle" => pc[w] = "select"
  /\ \A d \in Directs : hand[d] \in {d, NoOne} /\ pc[d] \in {"ended"} \cup Delivering

-----------------------------------------------------------------------------
(* Lifecycle *)

\* While the engine is stopped, workers that have more to do than to look at the
\* state are awaited, or about to be.
LifeInv ==
  /\ call \in [Callers -> {"idle", "start", "spawn", "stop", "lock", "join",
                           "pause", "resume"}]
  /\ Alive \subseteq handles
  /\ state = "Stopped" /\ (\E w \in Workers : pc[w] \notin {"ended", "top"}) =>
       \E c \in Callers : call[c] \in {"lock", "join"}

\* A worker that forwarded a packet after the engine left Running takes no other.
LeakInv ==
  \A w \in leaked : /\ state # "Running" /\ w \in Workers
                    /\ pc[w] \in {"top", "ended", "paused"}

-----------------------------------------------------------------------------
(* Deliveries *)

Returned == Elements(returned)
Sent == Directs \cap (InHand \cup failed \cup Handed)

\* What the queue has returned or send_packet() was given is in hand, handed over
\* or given up; in hand only once, and not given up then.
DeliveryInv ==
  /\ handed \in Seq([by : Tasks, packet : Nat \cup Directs])
  /\ IsFiniteSet(failed) /\ IsFiniteSet(InHand) /\ IsFiniteSet(Sent)
  /\ \A t, u \in Tasks : hand[t] = hand[u] => t = u \/ hand[t] = NoOne
  /\ InHand \cap failed = {}
  /\ InHand \cup Handed \cup failed = Returned \cup Sent
  /\ Cardinality(InHand) + Len(handed) + Cardinality(failed)
       = Len(returned) + Cardinality(Sent)

\* What a worker has in hand comes after all that it has handed over.
OrderInv ==
  /\ \A i \in DOMAIN handed : handed[i].by \in Directs => handed[i].packet = handed[i].by
  /\ \A i \in DOMAIN handed : handed[i].by \in Workers => handed[i].packet \in Returned
  /\ \A i \in DOMAIN handed : \A w \in Workers :
       handed[i].by = w /\ hand[w] # NoOne => handed[i].packet < hand[w]
  /\ \A d \in Directs : hand[d] # NoOne => d \notin Handed
  /\ EachWorkerInOrder

-----------------------------------------------------------------------------
(* The engine as a client of its queue *)

LEMMA QueueAssumptions ==
  /\ Queue!QueueAssumption /\ Queue!ClientAssumption
  /\ \A w \in Workers : w \in Takers
  /\ \A c \in Clearers : c \in Takers \ Workers
BY EngineAssumption, NamesAssumption
   DEF EngineAssumption, NamesAssumption, Queue!QueueAssumption,
       Queue!ClientAssumption, Takers

\* Lifecycle calls, deliveries and the transport leave the queue alone.
LEMMA QueueAlone ==
  ASSUME \/ \E c \in Callers : (\E op \in Ops : Begin(c, op)) \/ LifecycleStep(c)
         \/ \E t \in Tasks : DeliveryStep(t)
         \/ \E w \in Workers : Look(w)
         \/ \E d \in Directs : SendPacket(d)
         \/ \E p \in Producers : BeginEnqueue(p)
         \/ TransportTakes \/ TransportCloses
         \/ UNCHANGED vars
  PROVE  UNCHANGED <<queueVars, accepted, clears>>
<1>1. ASSUME NEW c \in Callers, (\E op \in Ops : Begin(c, op)) \/ LifecycleStep(c)
      PROVE  UNCHANGED <<queueVars, accepted, clears>>
  BY <1>1 DEF Begin, LifecycleStep, SendState, Send, Spawn, LockHandles, FinishStop, Join,
     offerVars
<1>2. ASSUME NEW t \in Tasks, DeliveryStep(t)
      PROVE  UNCHANGED <<queueVars, accepted, clears>>
  BY <1>2 DEF DeliveryStep, Hand, Unavailable, TimeOut, Retry, offerVars
<1>3. CASE \/ \E w \in Workers : Look(w)
           \/ \E d \in Directs : SendPacket(d)
           \/ \E p \in Producers : BeginEnqueue(p)
  BY <1>3 DEF Look, SendPacket, BeginEnqueue, offerVars
<1>4. CASE TransportTakes \/ TransportCloses \/ UNCHANGED vars
  BY <1>4 DEF TransportTakes, TransportCloses, vars, offerVars
<1> QED
  BY <1>1, <1>2, <1>3, <1>4

\* Every step of the engine is one that MCPacketQueue allows a client, or leaves the
\* queue alone.
LEMMA EngineUsesQueue == OfferInv /\ [Next]_vars => [Queue!Next]_(Queue!vars)
<1> SUFFICES ASSUME OfferInv, [Next]_vars
             PROVE  Queue!Next \/ UNCHANGED Queue!vars
  OBVIOUS
<1>1. ASSUME UNCHANGED <<queueVars, accepted, clears>> PROVE UNCHANGED Queue!vars
  BY <1>1 DEF queueVars, Queue!vars, Queue!queueVars
<1>2. ASSUME NEW p \in Producers, Enqueue(p) PROVE Queue!Next \/ UNCHANGED Queue!vars
  <2>1. CASE Outbound!IsFull
    BY <1>1, <1>2, <2>1 DEF Enqueue
  <2>2. CASE ~Outbound!IsFull
    <3>1. p \in producing /\ IsFiniteSet(producing)
      BY <1>2 DEF Enqueue, OfferInv
    <3>2. Cardinality(producing) \in Nat /\ Cardinality(producing) # 0
      BY <3>1, FS_CardinalityType, FS_EmptySet
    <3>3. accepted < MaxPackets
      BY <3>2, EngineAssumption DEF EngineAssumption, OfferInv
    <3>4. Queue!Send(p)
      BY <1>2, <2>2, <3>3 DEF Enqueue, Queue!Send, Outbound!TrySend, Queue!TrySend,
         Outbound!IsFull, Queue!IsFull, Outbound!Slots, Queue!Slots
    <3> QED
      BY <3>4 DEF Queue!Next
  <2> QED
    BY <2>1, <2>2
<1>3. ASSUME NEW p \in Producers, Count(p) PROVE Queue!Next
  BY <1>3 DEF Count, Outbound!CountSend, Queue!CountSend, offerVars, Queue!Next
<1>4. ASSUME NEW c \in Clearers, BeginClear(c) \/ Clear(c) PROVE Queue!Next
  <2>1. c \in Takers \ Workers
    BY QueueAssumptions
  <2>2. CASE BeginClear(c)
    BY <2>1, <2>2 DEF BeginClear, Outbound!Request, offerVars, Queue!CallClear,
       Queue!Request, Queue!Next
  <2>3. CASE Outbound!FinishClear(c) /\ UNCHANGED <<offerVars, clears>>
    BY <2>1, <2>3 DEF Outbound!FinishClear, Outbound!Subtract, offerVars, Queue!Clear,
       Queue!FinishClear, Queue!Subtract, Queue!Next
  <2>4. CASE (Outbound!Lock(c) \/ Outbound!Remove(c)) /\ UNCHANGED <<offerVars, clears>>
    BY <2>1, <2>4 DEF Outbound!Lock, Outbound!Remove, offerVars, Queue!Work,
       Queue!Lock, Queue!Remove, Queue!Next
  <2> QED
    BY <1>4, <2>2, <2>3, <2>4 DEF Clear
<1>5. ASSUME NEW w \in Workers, Changed(w) \/ Dequeue(w) \/ TakePacket(w)
      PROVE  Queue!Next \/ UNCHANGED Queue!vars
  <2>1. w \in Takers /\ UNCHANGED <<accepted, clears>>
    BY <1>5, QueueAssumptions DEF Changed, Dequeue, TakePacket, offerVars
  <2>2. CASE UNCHANGED queueVars
    BY <1>1, <2>1, <2>2
  <2>3. CASE Outbound!Cancel(w) \/ Outbound!Request(w, "wants packet")
    BY <2>1, <2>3 DEF Outbound!Cancel, Outbound!Request, Queue!Cancel, Queue!Request,
       Queue!Dequeue, Queue!Next
  <2>4. CASE Outbound!ReturnPacket(w)
    BY <2>1, <2>4 DEF Outbound!ReturnPacket, Outbound!Subtract, Queue!ReturnPacket,
       Queue!Subtract, Queue!Dequeue, Queue!Next
  <2>5. CASE Outbound!Lock(w) \/ Outbound!Remove(w)
    BY <2>1, <2>5 DEF Outbound!Lock, Outbound!Remove, Queue!Work, Queue!Lock,
       Queue!Remove, Queue!Next
  <2> QED
    BY <1>5, <2>2, <2>3, <2>4, <2>5 DEF Changed, Dequeue, TakePacket
<1> QED
  BY <1>1, <1>2, <1>3, <1>4, <1>5, QueueAlone DEF Next, WorkerStep, Tasks

LEMMA QueueStep == QueueKnown /\ OfferInv /\ [Next]_vars => QueueKnown'
<1> SUFFICES ASSUME QueueKnown, OfferInv, [Next]_vars PROVE QueueKnown'
  OBVIOUS
<1>1. [Queue!Next]_(Queue!vars)
  BY EngineUsesQueue
<1>2. Queue!QueueAssumption /\ Queue!ClientAssumption
  BY QueueAssumptions
<1>3. Queue!QueueInv /\ Queue!OrderInv /\ Queue!OneReceived /\ Queue!PlaceInv
  BY DEF QueueKnown, Queue!FifoInv
<1>4. Queue!QueueInv'
  BY <1>1, <1>2, <1>3, Queue!QueueStep
<1>5. Queue!OrderInv'
  BY <1>1, <1>2, <1>3, Queue!OrderStep
<1>6. Queue!OneReceived'
  BY <1>1, <1>2, <1>3, Queue!OneReceivedStep
<1>7. Queue!PlaceInv'
  BY <1>1, <1>2, <1>3, Queue!PlaceStep
<1> QED
  BY <1>4, <1>5, <1>6, <1>7 DEF QueueKnown, Queue!FifoInv

\* enqueue() accounts for what it is offered.
LEMMA OfferStep == OfferInv /\ [Next]_vars => OfferInv'
<1> SUFFICES ASSUME OfferInv, [Next]_vars PROVE OfferInv'
  OBVIOUS
<1>1. CASE UNCHANGED offerVars
  BY <1>1 DEF offerVars, OfferInv
<1>2. Cardinality(producing) \in Nat /\ IsFiniteSet(producing)
  BY FS_CardinalityType DEF OfferInv
<1>3. ASSUME NEW p \in Producers, BeginEnqueue(p) PROVE OfferInv'
  <2>1. /\ producing' = producing \cup {p} /\ p \notin producing
        /\ offered' = offered + 1 /\ offered < MaxPackets
        /\ UNCHANGED <<accepted, overflowed>>
    BY <1>3 DEF BeginEnqueue
  <2>2. IsFiniteSet(producing') /\ Cardinality(producing') = Cardinality(producing) + 1
    BY <1>2, <2>1, FS_AddElement
  <2> QED
    BY <1>2, <2>1, <2>2, EngineAssumption DEF EngineAssumption, OfferInv
<1>4. ASSUME NEW p \in Producers, Enqueue(p) PROVE OfferInv'
  <2>1. /\ producing' = producing \ {p} /\ p \in producing /\ offered' = offered
        /\ \/ overflowed' = overflowed + 1 /\ accepted' = accepted
           \/ accepted' = accepted + 1 /\ overflowed' = overflowed
    BY <1>4 DEF Enqueue
  <2>2. IsFiniteSet(producing') /\ Cardinality(producing') = Cardinality(producing) - 1
    BY <1>2, <2>1, FS_RemoveElement
  <2> QED
    BY <1>2, <2>1, <2>2 DEF OfferInv
<1>5. CASE \E c \in Callers : (\E op \in Ops : Begin(c, op)) \/ LifecycleStep(c)
  BY <1>1, <1>5 DEF Begin, LifecycleStep, SendState, Send, Spawn, LockHandles, FinishStop,
     Join
<1>6. ASSUME NEW t \in Tasks, DeliveryStep(t) PROVE OfferInv'
  BY <1>1, <1>6 DEF DeliveryStep, Hand, Unavailable, TimeOut, Retry
<1>7. ASSUME NEW w \in Workers, Look(w) \/ Changed(w) \/ Dequeue(w) \/ TakePacket(w)
      PROVE  OfferInv'
  BY <1>1, <1>7 DEF Look, Changed, Dequeue, TakePacket
<1>8. CASE \/ \E d \in Directs : SendPacket(d)
           \/ \E p \in Producers : Count(p)
           \/ \E c \in Clearers : BeginClear(c) \/ Clear(c)
           \/ TransportTakes \/ TransportCloses \/ UNCHANGED vars
  BY <1>1, <1>8 DEF SendPacket, Count, BeginClear, Clear, TransportTakes, TransportCloses,
     vars
<1> QED
  BY <1>3, <1>4, <1>5, <1>6, <1>7, <1>8 DEF Next, WorkerStep, Tasks

-----------------------------------------------------------------------------
(* Tasks, step by step *)

LEMMA StageTypes ==
  ASSUME QueueKnown
  PROVE  /\ stage \in [Takers -> Queue!Stages] /\ taken \in [Takers -> Seq(Nat)]
         /\ holder \in Takers \cup {NoOne}
         /\ \A t \in Takers : stage[t] \in {"receiving", "received", "draining"} <=> holder = t
         /\ \A t \in Takers : stage[t] \notin {"received", "draining"} => taken[t] = <<>>
         /\ \A t \in Takers : stage[t] = "received" => Len(taken[t]) = 1
BY DEF QueueKnown, Queue!FifoInv, Queue!QueueInv, Queue!TypeOK, Queue!QueueTypeOK,
   Queue!HolderWorks, Queue!OnlyTakersHold, Queue!OneReceived

LEMMA Names ==
  /\ \A w \in Workers : w \in Tasks /\ w \in Takers /\ w \notin Directs /\ w # NoOne
  /\ \A d \in Directs : d \in Tasks /\ d \notin Workers /\ d \notin Nat /\ d # NoOne
  /\ \A c \in Clearers : c \in Takers /\ c \notin Workers
  /\ NoOne \notin Nat /\ NoOne \notin Directs
BY NamesAssumption DEF NamesAssumption, Tasks, Takers

\* Steps that only send a state, or no task has a part in.
LEMMA TasksAlone ==
  ASSUME TaskInv, UNCHANGED <<pc, hand>>,
         state' \in {"Stopped", "Running", "Paused"},
         \A w \in Workers : stage'[w] = stage[w]
  PROVE  TaskInv'
BY DEF TaskInv

\* A step of one task.
LEMMA OneTaskMoves ==
  ASSUME TaskInv, NEW t \in Tasks, state' = state,
         NEW x \in {"ended", "top", "paused", "select"} \cup Delivering,
         NEW h \in Nat \cup Directs \cup {NoOne},
         pc' = [pc EXCEPT ![t] = x], hand' = [hand EXCEPT ![t] = h],
         x \in Delivering <=> h # NoOne,
         t \in Workers => h \notin Directs,
         t \in Directs => h \in {t, NoOne} /\ x \in {"ended"} \cup Delivering,
         \A w \in Workers :
           /\ stage'[w] \in {"idle", "wants packet", "receiving", "received"}
           /\ stage'[w] # "idle" => pc'[w] = "select"
  PROVE  TaskInv'
<1>1. /\ pc' \in [Tasks -> {"ended", "top", "paused", "select"} \cup Delivering]
      /\ hand' \in [Tasks -> Nat \cup Directs \cup {NoOne}]
  BY DEF TaskInv
<1>2. \A u \in Tasks : /\ pc'[u] = IF u = t THEN x ELSE pc[u]
                       /\ hand'[u] = IF u = t THEN h ELSE hand[u]
  BY DEF TaskInv
<1>3. \A u \in Tasks : pc'[u] \in Delivering <=> hand'[u] # NoOne
  BY <1>2 DEF TaskInv
<1>4. \A w \in Workers : hand'[w] \notin Directs
  <2>1. \A w \in Workers : w \in Tasks /\ hand[w] \notin Directs
    BY Names DEF TaskInv
  <2> QED
    BY <1>2, <2>1
<1>5. \A d \in Directs : hand'[d] \in {d, NoOne} /\ pc'[d] \in {"ended"} \cup Delivering
  BY <1>2, Names DEF TaskInv
<1>6. state' \in {"Stopped", "Running", "Paused"}
  BY DEF TaskInv
<1> QED
  BY <1>1, <1>3, <1>4, <1>5, <1>6 DEF TaskInv

LEMMA SpawnTasks ==
  ASSUME TaskInv, NEW c \in Callers, Spawn(c)
  PROVE  TaskInv'
<1>1. PICK born \in SUBSET {w \in Workers \ handles : pc[w] = "ended"} :
        pc' = [t \in Tasks |-> IF t \in born THEN "top" ELSE pc[t]]
  BY DEF Spawn, kSubset
<1>2. UNCHANGED <<state, hand, stage>>
  BY DEF Spawn, queueVars
<1>3. \A w \in born : w \in Workers /\ w \in Tasks /\ w \notin Directs /\ pc[w] = "ended"
  BY Names
<1>4. pc' \in [Tasks -> {"ended", "top", "paused", "select"} \cup Delivering]
  BY <1>1 DEF TaskInv
<1>5. \A t \in Tasks : pc'[t] \in Delivering <=> pc[t] \in Delivering
  BY <1>1, <1>3 DEF Delivering
<1>6. \A w \in Workers : pc[w] = "select" => pc'[w] = "select"
  BY <1>1, <1>3, Names
<1>7. \A d \in Directs : pc'[d] = pc[d]
  BY <1>1, <1>3, Names
<1> QED
  BY <1>2, <1>4, <1>5, <1>6, <1>7, Names DEF TaskInv

\* A worker between two deliveries.
LEMMA WorkerTasks ==
  ASSUME QueueKnown, TaskInv, NEW w \in Workers,
         Look(w) \/ Changed(w) \/ Dequeue(w) \/ TakePacket(w)
  PROVE  TaskInv'
<1>1. w \in Tasks /\ w \in Takers /\ w \notin Directs
  BY Names
<1>2. state' = state
  BY DEF Look, Changed, Dequeue, TakePacket, lifeVars
<1>3. CASE Look(w)
  <2>1. /\ pc[w] = "top" /\ UNCHANGED <<hand, stage>>
        /\ \E x \in {"select", "ended", "paused"} : pc' = [pc EXCEPT ![w] = x]
    BY <1>3 DEF Look, TaskInv, queueVars
  <2>2. PICK x \in {"select", "ended", "paused"} : pc' = [pc EXCEPT ![w] = x]
    BY <2>1
  <2>3. hand[w] = NoOne /\ hand' = [hand EXCEPT ![w] = NoOne] /\ x \notin Delivering
    BY <1>1, <2>1 DEF TaskInv, Delivering
  <2>4. \A v \in Workers :
          /\ stage'[v] \in {"idle", "wants packet", "receiving", "received"}
          /\ stage'[v] # "idle" => pc'[v] = "select"
    BY <1>1, <2>1, <2>2, Names DEF TaskInv
  <2>5. x \in {"ended", "top", "paused", "select"} \cup Delivering
    OBVIOUS
  <2> QED
    BY <1>1, <1>2, <2>1, <2>2, <2>3, <2>4, <2>5, OneTaskMoves, Names
<1>4. CASE Changed(w)
  <2>1. /\ pc[w] \in {"paused", "select"} /\ hand' = hand
        /\ pc' = [pc EXCEPT ![w] = "top"]
    BY <1>4 DEF Changed
  <2>2. \A v \in Workers : stage'[v] = IF v = w THEN "idle" ELSE stage[v]
    <3>1. CASE pc[w] = "paused"
      BY <1>4, <3>1 DEF Changed, queueVars, TaskInv
    <3>2. CASE stage[w] = "idle" /\ UNCHANGED queueVars
      BY <3>2 DEF queueVars
    <3>3. CASE Outbound!Cancel(w)
      BY <1>1, <3>3, StageTypes, Names DEF Outbound!Cancel
    <3> QED
      BY <1>4, <3>1, <3>2, <3>3 DEF Changed
  <2> QED
    BY <1>1, <1>2, <2>1, <2>2, Names DEF TaskInv, Delivering
<1>5. CASE Dequeue(w)
  <2>1. pc[w] = "select" /\ UNCHANGED <<pc, hand>>
    BY <1>5 DEF Dequeue, taskVars
  <2>2. /\ stage'[w] \in {"wants packet", "receiving", "received"}
        /\ \A v \in Workers : v # w => stage'[v] = stage[v]
    BY <1>1, <1>5, StageTypes, Names
       DEF Dequeue, TaskInv, Outbound!Request, Outbound!Lock, Outbound!Remove
  <2> QED
    BY <1>1, <1>2, <2>1, <2>2, Names DEF TaskInv
<1>6. CASE TakePacket(w)
  <2>1. /\ stage[w] = "received" /\ pc[w] = "select"
        /\ stage' = [stage EXCEPT ![w] = "idle"]
        /\ pc' = [pc EXCEPT ![w] = "send"]
        /\ hand' = [hand EXCEPT ![w] = Head(taken[w])]
    BY <1>6 DEF TakePacket, StartDelivery, Outbound!ReturnPacket, Outbound!Subtract
  <2>2. Head(taken[w]) \in Nat
    BY <1>1, <2>1, StageTypes
  <2>3. \A v \in Workers : stage'[v] = IF v = w THEN "idle" ELSE stage[v]
    BY <1>1, <2>1, StageTypes, Names
  <2>4. \A v \in Workers :
          /\ stage'[v] \in {"idle", "wants packet", "receiving", "received"}
          /\ stage'[v] # "idle" => pc'[v] = "select"
    BY <1>1, <2>1, <2>3, Names DEF TaskInv
  <2>5. "send" \in Delivering /\ Head(taken[w]) # NoOne /\ Head(taken[w]) \notin Directs
    BY <2>2, Names DEF Delivering
  <2> QED
    BY <1>1, <1>2, <2>1, <2>2, <2>4, <2>5, OneTaskMoves, Names
<1> QED
  BY <1>3, <1>4, <1>5, <1>6

\* A delivery begins, is tried again, or ends.
LEMMA DeliveryTasks ==
  ASSUME TaskInv,
         (\E d \in Directs : SendPacket(d)) \/ (\E t \in Tasks : DeliveryStep(t))
  PROVE  TaskInv'
<1>1. UNCHANGED <<state, stage>>
  BY DEF SendPacket, DeliveryStep, Hand, Unavailable, TimeOut, Retry, lifeVars, queueVars
<1>a. \A w \in Workers :
        /\ stage'[w] \in {"idle", "wants packet", "receiving", "received"}
        /\ stage'[w] # "idle" => pc[w] = "select"
  BY <1>1 DEF TaskInv
<1>2. ASSUME NEW d \in Directs, SendPacket(d) PROVE TaskInv'
  <2>1. /\ pc[d] = "ended" /\ pc' = [pc EXCEPT ![d] = "send"]
        /\ hand' = [hand EXCEPT ![d] = d] /\ d \in Tasks /\ d # NoOne /\ d \notin Workers
    BY <1>2, Names DEF SendPacket, StartDelivery
  <2>2. \A w \in Workers : pc'[w] = pc[w]
    BY <2>1, Names DEF TaskInv
  <2> QED
    BY <1>a, <1>1, <2>1, <2>2, OneTaskMoves DEF Delivering
<1>3. ASSUME NEW t \in Tasks, EndDelivery(t), pc[t] = "send" PROVE TaskInv'
  <2> DEFINE x == IF t \in Workers THEN "top" ELSE "ended"
  <2>1. pc' = [pc EXCEPT ![t] = x] /\ hand' = [hand EXCEPT ![t] = NoOne]
    BY <1>3 DEF EndDelivery
  <2>2. /\ x \in {"ended", "top"} /\ x \notin Delivering
        /\ t \in Directs => x = "ended"
    BY Names DEF Delivering
  <2> HIDE DEF x
  <2>3. \A w \in Workers : pc[w] = "select" => pc'[w] = "select"
    BY <1>3, <2>1, Names DEF TaskInv
  <2> QED
    BY <1>a, <1>1, <2>1, <2>2, <2>3, OneTaskMoves, Names
<1>4. ASSUME NEW t \in Tasks, pc[t] \in Delivering, hand' = hand,
             NEW x \in Delivering, pc' = [pc EXCEPT ![t] = x]
      PROVE  TaskInv'
  BY <1>1, <1>4, Names DEF TaskInv, Delivering
<1>5. ASSUME NEW t \in Tasks, DeliveryStep(t) PROVE TaskInv'
  BY <1>3, <1>4, <1>5 DEF DeliveryStep, Hand, Unavailable, TimeOut, GiveUp, Retry, Delivering
<1> QED
  BY <1>2, <1>5

LEMMA TaskStep == QueueKnown /\ TaskInv /\ [Next]_vars => TaskInv'
<1> SUFFICES ASSUME QueueKnown, TaskInv, [Next]_vars PROVE TaskInv'
  OBVIOUS
<1>1. state \in {"Stopped", "Running", "Paused"}
  BY DEF TaskInv
<1>2. ASSUME NEW c \in Callers, (\E op \in Ops : Begin(c, op)) \/ LifecycleStep(c)
      PROVE  TaskInv'
  <2>1. CASE \/ \E op \in Ops : Begin(c, op)
             \/ SendState(c) \/ LockHandles(c) \/ FinishStop(c)
             \/ \E w \in Workers : Join(c, w)
    <3>1. UNCHANGED <<pc, hand, stage>>
      BY <2>1 DEF Begin, SendState, Send, LockHandles, FinishStop, Join, taskVars, queueVars
    <3>2. state' \in {"Stopped", "Running", "Paused"}
      BY <1>1, <2>1
         DEF Begin, SendState, Send, Broadcast, LockHandles, FinishStop, Join
    <3> QED
      BY <3>1, <3>2, TasksAlone
  <2> QED
    BY <1>2, <2>1, SpawnTasks DEF LifecycleStep
<1>3. ASSUME NEW p \in Producers, BeginEnqueue(p) \/ Enqueue(p) \/ Count(p)
      PROVE  TaskInv'
  <2>1. UNCHANGED <<pc, hand, state, stage>>
    BY <1>3 DEF BeginEnqueue, Enqueue, Count, taskVars, lifeVars, queueVars,
       Outbound!TrySend, Outbound!CountSend
  <2> QED
    BY <1>1, <2>1, TasksAlone
<1>4. ASSUME NEW c \in Clearers, BeginClear(c) \/ Clear(c) PROVE TaskInv'
  <2>1. UNCHANGED <<pc, hand, state>>
    BY <1>4 DEF BeginClear, Clear, taskVars, lifeVars
  <2>2. \E x : stage' = [stage EXCEPT ![c] = x]
    BY <1>4 DEF BeginClear, Clear, Outbound!Request, Outbound!Lock, Outbound!Remove,
       Outbound!FinishClear, Outbound!Subtract
  <2>3. \A w \in Workers : stage'[w] = stage[w]
    BY <2>2, StageTypes, Names
  <2> QED
    BY <1>1, <2>1, <2>3, TasksAlone
<1>5. ASSUME NEW w \in Workers, WorkerStep(w) PROVE TaskInv'
  BY <1>5, WorkerTasks, DeliveryTasks, Names DEF WorkerStep
<1>6. ASSUME NEW d \in Directs, SendPacket(d) \/ DeliveryStep(d) PROVE TaskInv'
  BY <1>6, DeliveryTasks, Names
<1>7. CASE TransportTakes \/ TransportCloses \/ UNCHANGED vars
  <2>1. UNCHANGED <<pc, hand, state, stage>>
    BY <1>7 DEF TransportTakes, TransportCloses, vars, taskVars, lifeVars, queueVars
  <2> QED
    BY <1>1, <2>1, TasksAlone
<1> QED
  BY <1>2, <1>3, <1>4, <1>5, <1>6, <1>7 DEF Next

-----------------------------------------------------------------------------
(* Lifecycle, step by step *)

LifecycleCall(c) == (\E op \in Ops : Begin(c, op)) \/ LifecycleStep(c)

\* No task but a new one comes to life; a worker that looks at a stopped engine
\* ends, and one that looks at a paused engine takes no packet.
MovesSoberly(w) ==
  /\ pc'[w] # "ended" => pc[w] # "ended"
  /\ state = "Stopped" /\ pc[w] \in {"ended", "top"} => pc'[w] \in {"ended", "top"}
  /\ state # "Running" /\ pc[w] \in {"top", "ended", "paused"} =>
       pc'[w] \in {"top", "ended", "paused"}

LEMMA WorkersMove ==
  ASSUME TaskInv, [Next]_vars, ~(\E c \in Callers : LifecycleCall(c))
  PROVE  UNCHANGED lifeVars /\ \A w \in Workers : MovesSoberly(w)
<1>1. ASSUME UNCHANGED pc PROVE \A w \in Workers : MovesSoberly(w)
  BY <1>1 DEF MovesSoberly
<1>2. ASSUME NEW t \in Tasks, NEW x, pc' = [pc EXCEPT ![t] = x],
             t \in Workers => MovesSoberly(t)
      PROVE  \A w \in Workers : MovesSoberly(w)
  <2> SUFFICES ASSUME NEW w \in Workers, w # t PROVE MovesSoberly(w)
    BY <1>2
  <2>1. pc'[w] = pc[w]
    BY <1>2, Names DEF TaskInv
  <2> QED
    BY <2>1 DEF MovesSoberly
<1>3. ASSUME NEW t \in Tasks, DeliveryStep(t)
      PROVE  UNCHANGED lifeVars /\ \A w \in Workers : MovesSoberly(w)
  <2>1. UNCHANGED lifeVars /\ pc[t] \in Delivering
    BY <1>3 DEF DeliveryStep, Hand, Unavailable, TimeOut, Retry, Delivering
  <2>2. pc' = pc \/ \E x \in {"ended", "top"} \cup Delivering :
          pc' = [pc EXCEPT ![t] = x] /\ (t \in Workers => x # "ended")
    <3>1. CASE EndDelivery(t)
      <4>1. CASE t \in Workers
        <5>1. pc' = [pc EXCEPT ![t] = "top"] /\ "top" # "ended"
          BY <3>1, <4>1 DEF EndDelivery
        <5> QED
          BY <5>1
      <4>2. CASE t \notin Workers
        BY <3>1, <4>2 DEF EndDelivery
      <4> QED
        BY <4>1, <4>2
    <3>2. CASE \E x \in Delivering : pc' = [pc EXCEPT ![t] = x]
      BY <3>2 DEF Delivering
    <3> QED
      BY <1>3, <3>1, <3>2
         DEF DeliveryStep, Hand, Unavailable, TimeOut, GiveUp, Retry, Delivering
  <2>3. CASE pc' = pc
    BY <1>1, <2>1, <2>3
  <2>4. ASSUME NEW x \in {"ended", "top"} \cup Delivering,
               pc' = [pc EXCEPT ![t] = x], t \in Workers => x # "ended"
        PROVE  \A w \in Workers : MovesSoberly(w)
    <3>1. t \in Workers => MovesSoberly(t)
      BY <2>1, <2>4 DEF MovesSoberly, TaskInv, Delivering
    <3> QED
      BY <1>2, <2>4, <3>1
  <2> QED
    BY <2>1, <2>2, <2>3, <2>4
<1>4. ASSUME NEW w \in Workers, Look(w) \/ Changed(w) \/ Dequeue(w) \/ TakePacket(w)
      PROVE  UNCHANGED lifeVars /\ \A v \in Workers : MovesSoberly(v)
  <2>1. UNCHANGED lifeVars /\ w \in Tasks
    BY <1>4, Names DEF Look, Changed, Dequeue, TakePacket
  <2>2. CASE Look(w)
    <3>1. pc[w] = "top" /\ state \in {"Running", "Stopped", "Paused"}
      BY <2>2 DEF Look, TaskInv
    <3>2. PICK x \in {"select", "ended", "paused"} :
            /\ pc' = [pc EXCEPT ![w] = x]
            /\ x = "select" => state = "Running"
            /\ x = "paused" => state = "Paused"
      BY <2>2, <3>1 DEF Look
    <3>3. pc'[w] = x
      BY <2>1, <3>2 DEF TaskInv
    <3>4. MovesSoberly(w)
      BY <3>1, <3>2, <3>3 DEF MovesSoberly
    <3> QED
      BY <1>2, <2>1, <3>2, <3>4
  <2>3. CASE Changed(w)
    <3>1. pc[w] \in {"paused", "select"} /\ pc' = [pc EXCEPT ![w] = "top"]
      BY <2>3 DEF Changed
    <3>2. MovesSoberly(w)
      BY <2>1, <3>1 DEF MovesSoberly, TaskInv
    <3> QED
      BY <1>2, <2>1, <3>1, <3>2
  <2>4. CASE Dequeue(w)
    BY <1>1, <2>1, <2>4 DEF Dequeue, taskVars
  <2>5. CASE TakePacket(w)
    <3>1. pc[w] = "select" /\ pc' = [pc EXCEPT ![w] = "send"]
      BY <2>5 DEF TakePacket, StartDelivery
    <3>2. MovesSoberly(w)
      BY <2>1, <3>1 DEF MovesSoberly, TaskInv
    <3> QED
      BY <1>2, <2>1, <3>1, <3>2
  <2> QED
    BY <1>4, <2>2, <2>3, <2>4, <2>5
<1>5. ASSUME NEW d \in Directs, SendPacket(d)
      PROVE  UNCHANGED lifeVars /\ \A w \in Workers : MovesSoberly(w)
  <2>1. /\ UNCHANGED lifeVars /\ pc' = [pc EXCEPT ![d] = "send"]
        /\ d \in Tasks /\ d \notin Workers
    BY <1>5, Names DEF SendPacket, StartDelivery
  <2> QED
    BY <1>2, <2>1
<1>6. CASE \/ \E p \in Producers : BeginEnqueue(p) \/ Enqueue(p) \/ Count(p)
           \/ \E c \in Clearers : BeginClear(c) \/ Clear(c)
           \/ TransportTakes \/ TransportCloses \/ UNCHANGED vars
  <2>1. UNCHANGED <<lifeVars, taskVars>>
    BY <1>6 DEF BeginEnqueue, Enqueue, Count, BeginClear, Clear, TransportTakes,
       TransportCloses, vars
  <2> QED
    BY <1>1, <2>1 DEF taskVars
<1> QED
  BY <1>3, <1>4, <1>5, <1>6, Names DEF Next, WorkerStep, LifecycleCall

LEMMA LifeStep == TaskInv /\ LifeInv /\ [Next]_vars => LifeInv'
<1> SUFFICES ASSUME TaskInv, LifeInv, [Next]_vars PROVE LifeInv'
  OBVIOUS
<1>1. CASE ~(\E c \in Callers : LifecycleCall(c))
  BY <1>1, WorkersMove DEF LifeInv, MovesSoberly, lifeVars, Alive
<1>2. ASSUME NEW c \in Callers, LifecycleCall(c) PROVE LifeInv'
  <2> DEFINE where == {"idle", "start", "spawn", "stop", "lock", "join", "pause", "resume"}
  <2>1. call' \in [Callers -> where]
    BY <1>2, EngineAssumption DEF EngineAssumption, LifecycleCall, Begin, LifecycleStep,
       SendState, Send, Spawn, LockHandles, Join, FinishStop, GoTo, LifeInv
  <2>2. ASSUME UNCHANGED <<state, pc, handles>>,
               \A b \in Callers : call[b] \in {"lock", "join"} => call'[b] \in {"lock", "join"}
        PROVE  LifeInv'
    BY <2>1, <2>2 DEF LifeInv, Alive
  <2>3. ASSUME NEW op \in Ops, Begin(c, op) PROVE LifeInv'
    BY <2>2, <2>3 DEF Begin, GoTo, taskVars, LifeInv
  <2>4. CASE SendState(c)
    <3>1. pc' = pc /\ handles' = handles
      BY <2>4 DEF SendState, Send
    <3>2. state' = "Stopped" => call'[c] = "lock"
      BY <2>4 DEF SendState, Send, Broadcast, GoTo, LifeInv
    <3> QED
      BY <2>1, <3>1, <3>2 DEF LifeInv, Alive
  <2>5. CASE Spawn(c)
    <3>1. PICK born \in SUBSET {w \in Workers \ handles : pc[w] = "ended"} :
            /\ pc' = [t \in Tasks |-> IF t \in born THEN "top" ELSE pc[t]]
            /\ handles' = handles \cup born
      BY <2>5 DEF Spawn, kSubset
    <3>2. /\ state' = state /\ call[c] = "spawn" /\ call' = [call EXCEPT ![c] = "idle"]
      BY <2>5 DEF Spawn, GoTo
    <3>3. \A w \in Workers : pc'[w] = IF w \in born THEN "top" ELSE pc[w]
      BY <3>1, Names
    <3>4. Alive' \subseteq handles'
      BY <3>1, <3>3 DEF LifeInv, Alive
    <3>5. \A b \in Callers : call[b] \in {"lock", "join"} => call'[b] = call[b]
      BY <3>2 DEF LifeInv
    <3> QED
      BY <2>1, <3>2, <3>3, <3>4, <3>5 DEF LifeInv
  <2>6. CASE LockHandles(c)
    BY <2>2, <2>6 DEF LockHandles, GoTo, taskVars, LifeInv
  <2>7. ASSUME NEW w \in Workers, Join(c, w) PROVE LifeInv'
    BY <2>1, <2>7 DEF Join, taskVars, LifeInv, Alive
  <2>8. CASE FinishStop(c)
    <3>1. handles = {} /\ UNCHANGED <<handles, pc>>
      BY <2>8 DEF FinishStop, taskVars
    <3>2. \A w \in Workers : pc[w] = "ended"
      BY <3>1 DEF LifeInv, Alive
    <3> QED
      BY <2>1, <3>1, <3>2 DEF LifeInv, Alive
  <2> QED
    BY <1>2, <2>3, <2>4, <2>5, <2>6, <2>7, <2>8 DEF LifecycleCall, LifecycleStep
<1> QED
  BY <1>1, <1>2

LEMMA LeakStep == TaskInv /\ LeakInv /\ [Next]_vars => LeakInv'
<1> SUFFICES ASSUME TaskInv, LeakInv, [Next]_vars PROVE LeakInv'
  OBVIOUS
<1>1. ASSUME NEW t \in Tasks, Hand(t) PROVE LeakInv'
  <2>2. state' = state
    BY <1>1 DEF Hand, lifeVars
  <2>3. /\ pc' = [pc EXCEPT ![t] = IF t \in Workers THEN "top" ELSE "ended"]
        /\ leaked' = leaked \/ (leaked' = leaked \cup {t} /\ t \in Workers /\ state # "Running")
    BY <1>1 DEF Hand, EndDelivery
  <2>4. t \in Workers => pc'[t] = "top"
    BY <2>3 DEF TaskInv
  <2>5. \A w \in Workers : w # t => pc'[w] = pc[w]
    BY <2>3, Names DEF TaskInv
  <2> QED
    BY <2>2, <2>3, <2>4, <2>5 DEF LeakInv
<1>2. ASSUME leaked' = leaked, state' = state, \A w \in Workers : MovesSoberly(w)
      PROVE  LeakInv'
  BY <1>2 DEF LeakInv, MovesSoberly
<1>3. CASE ~(\E c \in Callers : LifecycleCall(c)) /\ ~(\E t \in Tasks : Hand(t))
  <2>1. state' = state /\ \A w \in Workers : MovesSoberly(w)
    BY <1>3, WorkersMove DEF lifeVars
  <2>2. ASSUME NEW t \in Tasks, DeliveryStep(t), ~Hand(t) PROVE leaked' = leaked
    BY <2>2 DEF DeliveryStep, Unavailable, TimeOut, GiveUp, Retry, transportVars
  <2>3. leaked' = leaked
    BY <1>3, <2>2, Names DEF Next, LifecycleCall, BeginEnqueue, Enqueue, Count, BeginClear,
       Clear, WorkerStep, Look, Changed, Dequeue, TakePacket, SendPacket, TransportTakes,
       TransportCloses, vars, transportVars
  <2> QED
    BY <1>2, <2>1, <2>3
<1>4. ASSUME NEW c \in Callers, LifecycleCall(c) PROVE LeakInv'
  <2>1. CASE SendState(c)
    BY <2>1 DEF SendState, Send, Broadcast, LeakInv
  <2>2. CASE Spawn(c)
    <3>1. PICK born \in SUBSET {w \in Workers \ handles : pc[w] = "ended"} :
            pc' = [t \in Tasks |-> IF t \in born THEN "top" ELSE pc[t]]
      BY <2>2 DEF Spawn, kSubset
    <3>2. leaked' = leaked /\ state' = state
      BY <2>2 DEF Spawn, transportVars
    <3>3. \A w \in Workers : pc'[w] = IF w \in born THEN "top" ELSE pc[w]
      BY <3>1, Names
    <3> QED
      BY <3>2, <3>3 DEF LeakInv
  <2>3. CASE \/ \E op \in Ops : Begin(c, op)
             \/ LockHandles(c) \/ FinishStop(c)
             \/ \E w \in Workers : Join(c, w)
    BY <2>3 DEF Begin, LockHandles, FinishStop, Join, taskVars, transportVars, LeakInv
  <2> QED
    BY <1>4, <2>1, <2>2, <2>3 DEF LifecycleCall, LifecycleStep
<1> QED
  BY <1>1, <1>3, <1>4

-----------------------------------------------------------------------------
(* Deliveries, step by step *)

\* What a step can do with packets that left the queue: a worker gets one from
\* dequeue(), a call of send_packet() brings its own, the transport takes one from
\* a task, or the task gives it up.
Took(w) ==
  /\ hand[w] = NoOne /\ stage[w] = "received"
  /\ hand' = [hand EXCEPT ![w] = Head(taken[w])]
  /\ returned' = returned \o taken[w]
  /\ UNCHANGED <<handed, failed>>

Brought(d) ==
  /\ hand[d] = NoOne /\ d \notin failed \cup Handed
  /\ hand' = [hand EXCEPT ![d] = d]
  /\ UNCHANGED <<returned, handed, failed>>

Gave(t) ==
  /\ hand[t] # NoOne
  /\ hand' = [hand EXCEPT ![t] = NoOne]
  /\ handed' = Append(handed, [by |-> t, packet |-> hand[t]])
  /\ UNCHANGED <<returned, failed>>

GaveUp(t) ==
  /\ hand[t] # NoOne
  /\ hand' = [hand EXCEPT ![t] = NoOne]
  /\ failed' = failed \cup {hand[t]}
  /\ UNCHANGED <<returned, handed>>

LEMMA PacketsMove ==
  ASSUME TaskInv, [Next]_vars
  PROVE  \/ \E w \in Workers : Took(w)
         \/ \E d \in Directs : Brought(d)
         \/ \E t \in Tasks : Gave(t) \/ GaveUp(t)
         \/ UNCHANGED <<hand, returned, handed, failed>>
<1>1. ASSUME NEW t \in Tasks, DeliveryStep(t)
      PROVE  Gave(t) \/ GaveUp(t) \/ UNCHANGED <<hand, returned, handed, failed>>
  <2>1. returned' = returned
    BY <1>1 DEF DeliveryStep, Hand, Unavailable, TimeOut, Retry, queueVars
  <2>2. pc[t] = "send" => hand[t] # NoOne
    BY DEF TaskInv, Delivering
  <2> QED
    BY <1>1, <2>1, <2>2 DEF DeliveryStep, Hand, Unavailable, TimeOut, GiveUp, EndDelivery,
       Retry, Gave, GaveUp, transportVars
<1>2. ASSUME NEW w \in Workers, TakePacket(w) PROVE Took(w)
  <2>1. pc[w] = "select" /\ stage[w] = "received"
    BY <1>2 DEF TakePacket, Outbound!ReturnPacket
  <2>2. hand[w] = NoOne
    BY <2>1, Names DEF TaskInv, Delivering
  <2> QED
    BY <1>2, <2>1, <2>2 DEF TakePacket, Outbound!ReturnPacket, StartDelivery, Took,
       transportVars
<1>3. ASSUME NEW d \in Directs, SendPacket(d) PROVE Brought(d)
  <2>1. hand[d] = NoOne
    BY <1>3, Names DEF SendPacket, TaskInv, Delivering
  <2> QED
    BY <1>3, <2>1 DEF SendPacket, StartDelivery, Brought, queueVars, transportVars
<1>4. ASSUME NEW w \in Workers, Look(w) \/ Changed(w) \/ Dequeue(w)
      PROVE  UNCHANGED <<hand, returned, handed, failed>>
  BY <1>4 DEF Look, Changed, Dequeue, queueVars, taskVars, transportVars, Outbound!Cancel,
     Outbound!Request, Outbound!Lock, Outbound!Remove
<1>5. CASE \E c \in Callers : LifecycleCall(c)
  BY <1>5 DEF LifecycleCall, Begin, LifecycleStep, SendState, Send, Spawn, LockHandles,
     FinishStop, Join, queueVars, taskVars, transportVars
<1>6. CASE \/ \E p \in Producers : BeginEnqueue(p) \/ Enqueue(p) \/ Count(p)
           \/ \E c \in Clearers : BeginClear(c) \/ Clear(c)
  BY <1>6 DEF BeginEnqueue, Enqueue, Count, BeginClear, Clear, queueVars, taskVars,
     transportVars, Outbound!TrySend, Outbound!CountSend, Outbound!Request,
     Outbound!Lock, Outbound!Remove, Outbound!FinishClear
<1>7. CASE TransportTakes \/ TransportCloses \/ UNCHANGED vars
  BY <1>7 DEF TransportTakes, TransportCloses, vars, queueVars, taskVars, transportVars
<1> QED
  BY <1>1, <1>2, <1>3, <1>4, <1>5, <1>6, <1>7, Names DEF Next, WorkerStep, LifecycleCall

\* A packet put into free hands, and one put out of them.
LEMMA HandsFill ==
  ASSUME NEW t \in Tasks, NEW h, hand[t] = NoOne, h # NoOne, hand \in [Tasks -> Nat \cup Directs \cup {NoOne}],
         hand' = [hand EXCEPT ![t] = h]
  PROVE  InHand' = InHand \cup {h}
<1>1. \A u \in Tasks : hand'[u] = IF u = t THEN h ELSE hand[u]
  OBVIOUS
<1>2. ASSUME NEW x \in InHand PROVE x \in InHand'
  <2>1. PICK u \in Tasks : hand[u] = x /\ x # NoOne
    BY <1>2 DEF InHand
  <2>2. u # t
    BY <2>1
  <2> QED
    BY <1>1, <2>1, <2>2 DEF InHand
<1>3. h \in InHand'
  BY <1>1 DEF InHand
<1>4. ASSUME NEW x \in InHand' PROVE x \in InHand \cup {h}
  BY <1>1, <1>4 DEF InHand
<1> QED
  BY <1>2, <1>3, <1>4

LEMMA HandsEmpty ==
  ASSUME NEW t \in Tasks, hand[t] # NoOne, hand \in [Tasks -> Nat \cup Directs \cup {NoOne}],
         \A u, v \in Tasks : hand[u] = hand[v] => u = v \/ hand[u] = NoOne,
         hand' = [hand EXCEPT ![t] = NoOne]
  PROVE  InHand' = InHand \ {hand[t]} /\ hand[t] \in InHand
<1>1. \A u \in Tasks : hand'[u] = IF u = t THEN NoOne ELSE hand[u]
  OBVIOUS
<1>2. ASSUME NEW x \in InHand, x # hand[t] PROVE x \in InHand'
  BY <1>1, <1>2 DEF InHand
<1>3. ASSUME NEW x \in InHand' PROVE x \in InHand \ {hand[t]}
  <2>1. PICK u \in Tasks : hand'[u] = x /\ x # NoOne
    BY <1>3 DEF InHand
  <2>2. u # t /\ hand[u] = x
    BY <1>1, <2>1
  <2> QED
    BY <2>1, <2>2 DEF InHand
<1>4. hand[t] \in InHand /\ hand[t] \notin InHand'
  BY <1>3 DEF InHand
<1> QED
  BY <1>2, <1>3, <1>4

\* One more packet handed over.
LEMMA OneMoreHanded ==
  ASSUME NEW r \in [by : Tasks, packet : Nat \cup Directs],
         handed \in Seq([by : Tasks, packet : Nat \cup Directs]),
         handed' = Append(handed, r)
  PROVE  /\ handed' \in Seq([by : Tasks, packet : Nat \cup Directs])
         /\ Len(handed) \in Nat /\ Len(handed') = Len(handed) + 1
         /\ DOMAIN handed = 1..Len(handed)
         /\ DOMAIN handed' = DOMAIN handed \cup {Len(handed) + 1}
         /\ \A i \in DOMAIN handed : handed'[i] = handed[i] /\ i < Len(handed) + 1
         /\ handed'[Len(handed) + 1] = r
         /\ Handed' = Handed \cup {r.packet}
<1>1. /\ handed' \in Seq([by : Tasks, packet : Nat \cup Directs])
      /\ Len(handed) \in Nat /\ Len(handed') = Len(handed) + 1
      /\ DOMAIN handed = 1..Len(handed) /\ DOMAIN handed' = 1..Len(handed) + 1
      /\ \A i \in DOMAIN handed : handed'[i] = handed[i]
      /\ handed'[Len(handed) + 1] = r
  OBVIOUS
<1>2. DOMAIN handed' = DOMAIN handed \cup {Len(handed) + 1}
  BY <1>1
<1>3. \A i \in DOMAIN handed : i < Len(handed) + 1
  BY <1>1
<1>4. Elements(handed') = Elements(handed) \cup {r}
  BY <1>1, <1>2 DEF Elements
<1>5. Handed' = Handed \cup {r.packet}
  BY <1>4 DEF Handed
<1> QED
  BY <1>1, <1>2, <1>3, <1>5

LEMMA OneLonger ==
  ASSUME NEW s \in Seq(Nat), NEW q \in Seq(Nat)
  PROVE  Len(q) = 1 => /\ Len(s) \in Nat /\ Len(s \o q) = Len(s) + 1
                       /\ Elements(s \o q) = Elements(s) \cup {q[1]}
<1> DEFINE c == s \o q
<1>1. /\ Len(s) \in Nat /\ Len(c) = Len(s) + Len(q)
      /\ DOMAIN s = 1..Len(s) /\ DOMAIN c = 1..Len(c)
      /\ \A i \in 1..Len(s) : c[i] = s[i]
      /\ \A i \in 1..Len(c) : i > Len(s) => c[i] = q[i - Len(s)]
  BY Queue!ConcatElements
<1> HIDE DEF c
<1> SUFFICES ASSUME Len(q) = 1
             PROVE  Len(c) = Len(s) + 1 /\ Elements(c) = Elements(s) \cup {q[1]}
  BY <1>1 DEF c
<1>2. /\ DOMAIN c = DOMAIN s \cup {Len(s) + 1} /\ c[Len(s) + 1] = q[1]
      /\ Len(c) = Len(s) + 1
  BY <1>1
<1>3. Elements(c) = Elements(s) \cup {q[1]}
  <2>1. \A i \in DOMAIN s : c[i] = s[i]
    BY <1>1
  <2> QED
    BY <1>2, <2>1 DEF Elements
<1> QED
  BY <1>2, <1>3

\* What dequeue() returns is one packet, later than all it returned before.
LEMMA TookOne ==
  ASSUME QueueKnown, TaskInv, NEW w \in Workers, Took(w)
  PROVE  /\ Head(taken[w]) \in Nat /\ Head(taken[w]) \notin Returned
         /\ \A n \in Returned : n < Head(taken[w])
         /\ returned \in Seq(Nat) /\ Len(returned) \in Nat
         /\ Returned' = Returned \cup {Head(taken[w])}
         /\ Len(returned') = Len(returned) + 1
<1> DEFINE q == taken[w]
           n == Head(q)
<1>1. q \in Seq(Nat) /\ Len(q) = 1 /\ w \in Takers
  BY StageTypes, Names DEF Took
<1>2. returned \in Seq(Nat) /\ Queue!Precedes(returned, q)
  BY <1>1 DEF QueueKnown, Queue!FifoInv, Queue!OrderInv
<1>3. returned' = returned \o q
  BY DEF Took
<1> HIDE DEF q
<1>4. n \in Nat /\ n = q[1] /\ q = <<n>>
  BY <1>1
<1>5. /\ Len(returned') = Len(returned) + 1 /\ Len(returned) \in Nat
      /\ Elements(returned') = Elements(returned) \cup {n}
  BY <1>1, <1>2, <1>3, <1>4, OneLonger
<1>6. DOMAIN returned = 1..Len(returned)
  BY <1>2
<1>8. Returned' = Returned \cup {n}
  BY <1>5 DEF Returned
<1>9. \A i \in 1..Len(returned) : returned[i] < n
  BY <1>1, <1>2, <1>4 DEF Queue!Precedes
<1>10. \A m \in Returned : m < n
  BY <1>6, <1>9 DEF Returned, Elements
<1>11. n \notin Returned
  BY <1>4, <1>10
<1> QED
  BY <1>2, <1>4, <1>5, <1>8, <1>10, <1>11 DEF q

LEMMA DeliveryKept ==
  QueueKnown /\ TaskInv /\ DeliveryInv /\ [Next]_vars => DeliveryInv'
<1> SUFFICES ASSUME QueueKnown, TaskInv, DeliveryInv, [Next]_vars PROVE DeliveryInv'
  OBVIOUS
<1>1. hand \in [Tasks -> Nat \cup Directs \cup {NoOne}]
  BY DEF TaskInv
<1>2. /\ Cardinality(InHand) \in Nat /\ Cardinality(failed) \in Nat
      /\ Cardinality(Sent) \in Nat /\ Len(handed) \in Nat /\ Len(returned) \in Nat
      /\ IsFiniteSet(InHand) /\ IsFiniteSet(failed) /\ IsFiniteSet(Sent)
  <2>1. returned \in Seq(Nat)
    BY DEF QueueKnown, Queue!FifoInv, Queue!OrderInv
  <2> QED
    BY <2>1, FS_CardinalityType DEF DeliveryInv
<1>3. /\ InHand \cap failed = {}
      /\ InHand \cup Handed \cup failed = Returned \cup Sent
      /\ \A t, u \in Tasks : hand[t] = hand[u] => t = u \/ hand[t] = NoOne
      /\ handed \in Seq([by : Tasks, packet : Nat \cup Directs])
  BY DEF DeliveryInv
<1>s. Cardinality(InHand) + Len(handed) + Cardinality(failed)
        = Len(returned) + Cardinality(Sent)
  BY DEF DeliveryInv
<1>4. ASSUME NEW w \in Workers, Took(w) PROVE DeliveryInv'
  <2> DEFINE n == Head(taken[w])
  <2>1. /\ n \in Nat /\ n \notin Returned /\ Returned' = Returned \cup {n}
        /\ Len(returned') = Len(returned) + 1
    BY <1>4, TookOne
  <2>2. /\ hand[w] = NoOne /\ hand' = [hand EXCEPT ![w] = n] /\ w \in Tasks
        /\ handed' = handed /\ failed' = failed /\ Handed' = Handed
    BY <1>4, Names DEF Took, Handed
  <2> HIDE DEF n
  <2>3. n # NoOne /\ n \notin Directs
    BY <2>1, Names
  <2>4. n \notin InHand /\ n \notin failed
    BY <1>3, <2>1, <2>3 DEF Sent
  <2>5. InHand' = InHand \cup {n}
    BY <1>1, <2>2, <2>3, HandsFill
  <2>6. Sent' = Sent
    BY <2>2, <2>3, <2>5 DEF Sent
  <2>7. IsFiniteSet(InHand') /\ Cardinality(InHand') = Cardinality(InHand) + 1
    BY <1>2, <2>4, <2>5, FS_AddElement
  <2>8. \A t, u \in Tasks : hand'[t] = hand'[u] => t = u \/ hand'[t] = NoOne
    <3>1. \A t \in Tasks : hand[t] # n
      BY <2>3, <2>4 DEF InHand
    <3> QED
      BY <1>1, <1>3, <2>2, <3>1
  <2>9. InHand' \cap failed' = {} /\ InHand' \cup Handed' \cup failed' = Returned' \cup Sent'
    BY <1>3, <2>1, <2>2, <2>4, <2>5, <2>6
  <2>10. Cardinality(InHand') + Len(handed') + Cardinality(failed')
           = Len(returned') + Cardinality(Sent')
    <3>1. /\ Cardinality(Sent') = Cardinality(Sent) /\ Len(handed') = Len(handed)
          /\ Cardinality(failed') = Cardinality(failed)
      BY <2>2, <2>6
    <3>2. Len(returned') = Len(returned) + 1
      BY <2>1
    <3> QED
      BY <1>2, <1>s, <2>7, <3>1, <3>2
  <2> QED
    BY <1>2, <1>3, <2>2, <2>6, <2>7, <2>8, <2>9, <2>10 DEF DeliveryInv
<1>5. ASSUME NEW d \in Directs, Brought(d) PROVE DeliveryInv'
  <2>1. /\ hand[d] = NoOne /\ hand' = [hand EXCEPT ![d] = d] /\ d \in Tasks /\ d # NoOne
        /\ handed' = handed /\ failed' = failed /\ returned' = returned
        /\ d \notin failed /\ d \notin Handed
    BY <1>5, Names DEF Brought
  <2>2. \A t \in Tasks : hand[t] # d
    <3> SUFFICES ASSUME NEW t \in Tasks, hand[t] = d PROVE FALSE
      OBVIOUS
    <3>1. CASE t \in Workers
      BY <3>1 DEF TaskInv
    <3>2. CASE t \in Directs
      BY <2>1, <3>2 DEF TaskInv
    <3> QED
      BY <3>1, <3>2 DEF Tasks
  <2>3. Handed' = Handed /\ Returned' = Returned
    BY <2>1 DEF Handed, Returned
  <2>4. InHand' = InHand \cup {d} /\ d \notin InHand
    BY <1>1, <2>1, <2>2, HandsFill DEF InHand
  <2>5. Sent' = Sent \cup {d} /\ d \notin Sent
    BY <2>1, <2>3, <2>4 DEF Sent
  <2>6. /\ IsFiniteSet(InHand') /\ Cardinality(InHand') = Cardinality(InHand) + 1
        /\ IsFiniteSet(Sent') /\ Cardinality(Sent') = Cardinality(Sent) + 1
    BY <1>2, <2>4, <2>5, FS_AddElement
  <2>7. \A t, u \in Tasks : hand'[t] = hand'[u] => t = u \/ hand'[t] = NoOne
    BY <1>1, <1>3, <2>1, <2>2
  <2>8. InHand' \cap failed' = {} /\ InHand' \cup Handed' \cup failed' = Returned' \cup Sent'
    BY <1>3, <2>1, <2>3, <2>4, <2>5
  <2>9. Cardinality(InHand') + Len(handed') + Cardinality(failed')
          = Len(returned') + Cardinality(Sent')
    <3>1. /\ Len(returned') = Len(returned) /\ Len(handed') = Len(handed)
          /\ Cardinality(failed') = Cardinality(failed)
      BY <2>1
    <3> QED
      BY <1>2, <1>s, <2>6, <3>1
  <2> QED
    BY <1>2, <1>3, <2>1, <2>6, <2>7, <2>8, <2>9 DEF DeliveryInv
<1>6. ASSUME NEW t \in Tasks, hand[t] # NoOne, hand' = [hand EXCEPT ![t] = NoOne],
             returned' = returned
      PROVE  /\ InHand' = InHand \ {hand[t]} /\ hand[t] \in InHand
             /\ IsFiniteSet(InHand') /\ Cardinality(InHand') = Cardinality(InHand) - 1
             /\ \A u, v \in Tasks : hand'[u] = hand'[v] => u = v \/ hand'[u] = NoOne
             /\ Returned' = Returned /\ hand[t] \in Nat \cup Directs
  <2>1. InHand' = InHand \ {hand[t]} /\ hand[t] \in InHand
    BY <1>1, <1>3, <1>6, HandsEmpty
  <2>2. IsFiniteSet(InHand') /\ Cardinality(InHand') = Cardinality(InHand) - 1
    BY <1>2, <2>1, FS_RemoveElement
  <2>3. \A u, v \in Tasks : hand'[u] = hand'[v] => u = v \/ hand'[u] = NoOne
    BY <1>1, <1>3, <1>6
  <2>4. Returned' = Returned
    BY <1>6 DEF Returned
  <2> QED
    BY <1>1, <1>6, <2>1, <2>2, <2>3, <2>4
<1>7. ASSUME NEW t \in Tasks, Gave(t) PROVE DeliveryInv'
  <2> DEFINE r == [by |-> t, packet |-> hand[t]]
  <2>1. /\ hand[t] # NoOne /\ hand' = [hand EXCEPT ![t] = NoOne]
        /\ returned' = returned /\ failed' = failed /\ handed' = Append(handed, r)
    BY <1>7 DEF Gave
  <2>2. r \in [by : Tasks, packet : Nat \cup Directs] /\ r.packet = hand[t]
    BY <1>6, <2>1
  <2> HIDE DEF r
  <2>3. /\ handed' \in Seq([by : Tasks, packet : Nat \cup Directs])
        /\ Len(handed') = Len(handed) + 1 /\ Handed' = Handed \cup {hand[t]}
    BY <1>3, <2>1, <2>2, OneMoreHanded
  <2>4. InHand' \cup Handed' \cup failed' = InHand \cup Handed \cup failed
    BY <1>6, <2>1, <2>3
  <2>5. Sent' = Sent
    BY <2>4 DEF Sent
  <2>6. InHand' \cap failed' = {} /\ InHand' \cup Handed' \cup failed' = Returned' \cup Sent'
    BY <1>3, <1>6, <2>1, <2>4, <2>5
  <2>7. Cardinality(InHand') + Len(handed') + Cardinality(failed')
          = Len(returned') + Cardinality(Sent')
    <3>1. /\ Len(returned') = Len(returned) /\ Cardinality(Sent') = Cardinality(Sent)
          /\ Cardinality(failed') = Cardinality(failed)
          /\ Cardinality(InHand') = Cardinality(InHand) - 1
      BY <1>6, <2>1, <2>5
    <3> QED
      BY <1>2, <1>s, <2>3, <3>1
  <2> QED
    BY <1>2, <1>6, <2>1, <2>3, <2>5, <2>6, <2>7 DEF DeliveryInv
<1>8. ASSUME NEW t \in Tasks, GaveUp(t) PROVE DeliveryInv'
  <2>1. /\ hand[t] # NoOne /\ hand' = [hand EXCEPT ![t] = NoOne] /\ returned' = returned
        /\ failed' = failed \cup {hand[t]} /\ handed' = handed /\ Handed' = Handed
    BY <1>8 DEF GaveUp, Handed
  <2>2. hand[t] \notin failed
    BY <1>3, <1>6, <2>1
  <2>3. IsFiniteSet(failed') /\ Cardinality(failed') = Cardinality(failed) + 1
    BY <1>2, <2>1, <2>2, FS_AddElement
  <2>4. InHand' \cup Handed' \cup failed' = InHand \cup Handed \cup failed
    BY <1>6, <2>1
  <2>5. Sent' = Sent
    BY <2>4 DEF Sent
  <2>6. InHand' \cap failed' = {} /\ InHand' \cup Handed' \cup failed' = Returned' \cup Sent'
    BY <1>3, <1>6, <2>1, <2>4, <2>5
  <2>7. Cardinality(InHand') + Len(handed') + Cardinality(failed')
          = Len(returned') + Cardinality(Sent')
    <3>1. /\ Len(returned') = Len(returned) /\ Cardinality(Sent') = Cardinality(Sent)
          /\ Len(handed') = Len(handed)
          /\ Cardinality(InHand') = Cardinality(InHand) - 1
      BY <1>6, <2>1, <2>5
    <3> QED
      BY <1>2, <1>s, <2>3, <3>1
  <2> QED
    BY <1>2, <1>3, <1>6, <2>1, <2>3, <2>5, <2>6, <2>7 DEF DeliveryInv
<1>9. CASE UNCHANGED <<hand, returned, handed, failed>>
  BY <1>9 DEF DeliveryInv, InHand, Sent, Handed, Returned
<1> QED
  BY <1>4, <1>5, <1>7, <1>8, <1>9, PacketsMove

\* A worker takes a packet only when it has none, and what it takes comes after all
\* that has been taken.
LEMMA OrderKept ==
  QueueKnown /\ TaskInv /\ DeliveryInv /\ OrderInv /\ [Next]_vars => OrderInv'
<1> SUFFICES ASSUME QueueKnown, TaskInv, DeliveryInv, OrderInv, [Next]_vars
             PROVE  OrderInv'
  OBVIOUS
<1>1. hand \in [Tasks -> Nat \cup Directs \cup {NoOne}]
  BY DEF TaskInv
<1>2. /\ \A i \in DOMAIN handed : handed[i].by \in Directs => handed[i].packet = handed[i].by
      /\ \A i \in DOMAIN handed : handed[i].by \in Workers => handed[i].packet \in Returned
      /\ \A i \in DOMAIN handed : \A w \in Workers :
           handed[i].by = w /\ hand[w] # NoOne => handed[i].packet < hand[w]
      /\ \A d \in Directs : hand[d] # NoOne => d \notin Handed
      /\ \A i, j \in DOMAIN handed :
           i < j /\ handed[i].by = handed[j].by => handed[i].packet < handed[j].packet
  BY DEF OrderInv, EachWorkerInOrder
<1>3. ASSUME handed' = handed, Returned \subseteq Returned',
             \A w \in Workers : hand'[w] \in {hand[w], NoOne},
             \A d \in Directs : hand'[d] # NoOne => hand[d] # NoOne \/ d \notin Handed
      PROVE  OrderInv'
  BY <1>2, <1>3 DEF OrderInv, EachWorkerInOrder, Handed
<1>4. ASSUME NEW w \in Workers, Took(w) PROVE OrderInv'
  <2> DEFINE n == Head(taken[w])
  <2>1. (\A m \in Returned : m < n) /\ Returned' = Returned \cup {n}
    BY <1>4, TookOne
  <2>2. /\ hand' = [hand EXCEPT ![w] = n] /\ w \in Tasks
        /\ handed' = handed /\ Handed' = Handed
    BY <1>4, Names DEF Took, Handed
  <2> HIDE DEF n
  <2>3. hand'[w] = n /\ \A t \in Tasks : t # w => hand'[t] = hand[t]
    BY <1>1, <2>2
  <2>4. ASSUME NEW i \in DOMAIN handed', NEW v \in Workers,
               handed'[i].by = v, hand'[v] # NoOne
        PROVE  handed'[i].packet < hand'[v]
    <3>1. CASE v = w
      BY <1>2, <2>1, <2>2, <2>3, <2>4, <3>1
    <3>2. CASE v # w
      BY <1>2, <2>2, <2>3, <2>4, <3>2, Names
    <3> QED
      BY <3>1, <3>2
  <2>5. \A d \in Directs : hand'[d] # NoOne => d \notin Handed'
    BY <1>2, <2>2, <2>3, Names
  <2>6. \A i \in DOMAIN handed' : handed'[i].by \in Workers => handed'[i].packet \in Returned'
    BY <1>2, <2>1, <2>2
  <2> QED
    BY <1>2, <2>2, <2>4, <2>5, <2>6 DEF OrderInv, EachWorkerInOrder
<1>5. ASSUME NEW d \in Directs, Brought(d) PROVE OrderInv'
  <2>1. /\ hand' = [hand EXCEPT ![d] = d] /\ d \notin Handed
        /\ handed' = handed /\ returned' = returned
    BY <1>5 DEF Brought
  <2>2. \A t \in Tasks : t # d => hand'[t] = hand[t]
    BY <1>1, <2>1
  <2>3. /\ \A w \in Workers : hand'[w] = hand[w]
        /\ \A e \in Directs : hand'[e] # NoOne => hand[e] # NoOne \/ e \notin Handed
    BY <2>1, <2>2, Names
  <2> QED
    BY <1>3, <2>1, <2>3 DEF Returned
<1>6. ASSUME NEW t \in Tasks, hand' = [hand EXCEPT ![t] = NoOne]
      PROVE  \A u \in Tasks : hand'[u] = IF u = t THEN NoOne ELSE hand[u]
  BY <1>1, <1>6
<1>7. ASSUME NEW t \in Tasks, GaveUp(t) PROVE OrderInv'
  <2>1. hand' = [hand EXCEPT ![t] = NoOne] /\ handed' = handed /\ returned' = returned
    BY <1>7 DEF GaveUp
  <2> QED
    BY <1>3, <1>6, <2>1, Names DEF Returned
<1>8. ASSUME NEW t \in Tasks, Gave(t) PROVE OrderInv'
  <2> DEFINE r == [by |-> t, packet |-> hand[t]]
             k == Len(handed) + 1
  <2>1. /\ hand[t] # NoOne /\ hand' = [hand EXCEPT ![t] = NoOne]
        /\ returned' = returned /\ Returned' = Returned /\ handed' = Append(handed, r)
    BY <1>8 DEF Gave, Returned
  <2>2. r \in [by : Tasks, packet : Nat \cup Directs] /\ r.packet = hand[t] /\ r.by = t
    BY <1>1, <2>1
  <2> HIDE DEF r
  <2>3. handed \in Seq([by : Tasks, packet : Nat \cup Directs])
    BY DEF DeliveryInv
  <2>4. /\ DOMAIN handed = 1..Len(handed) /\ Len(handed) \in Nat
        /\ DOMAIN handed' = DOMAIN handed \cup {k}
        /\ \A i \in DOMAIN handed : handed'[i] = handed[i] /\ i < k
        /\ handed'[k].by = t /\ handed'[k].packet = hand[t]
        /\ Handed' = Handed \cup {hand[t]}
    BY <2>1, <2>2, <2>3, OneMoreHanded
  <2>5. k \in Nat /\ \A i \in DOMAIN handed : i \in Nat /\ ~(k < i)
    BY <2>4
  <2> HIDE DEF k
  <2>6. \A u \in Tasks : hand'[u] = IF u = t THEN NoOne ELSE hand[u]
    BY <1>6, <2>1
  <2>7. t \in Directs => hand[t] = t
    BY <2>1 DEF TaskInv
  <2>8. t \in Workers => hand[t] \notin Directs /\ hand[t] \in Returned
    <3>1. hand[t] \in InHand
      BY <2>1 DEF InHand
    <3> QED
      BY <3>1 DEF TaskInv, DeliveryInv, Sent
  <2>9. \A i \in DOMAIN handed' : handed'[i].by \in Directs => handed'[i].packet = handed'[i].by
    BY <1>2, <2>4, <2>7
  <2>10. \A i \in DOMAIN handed' : handed'[i].by \in Workers => handed'[i].packet \in Returned'
    BY <1>2, <2>1, <2>4, <2>8
  <2>11. \A i \in DOMAIN handed' : \A w \in Workers :
           handed'[i].by = w /\ hand'[w] # NoOne => handed'[i].packet < hand'[w]
    <3> SUFFICES ASSUME NEW i \in DOMAIN handed', NEW w \in Workers,
                        handed'[i].by = w, hand'[w] # NoOne
                 PROVE  handed'[i].packet < hand'[w]
      OBVIOUS
    <3>1. w # t /\ hand'[w] = hand[w]
      BY <2>6, Names
    <3>2. i \in DOMAIN handed
      BY <2>4, <3>1
    <3> QED
      BY <1>2, <2>4, <3>1, <3>2
  <2>12. \A d \in Directs : hand'[d] # NoOne => d \notin Handed'
    <3> SUFFICES ASSUME NEW d \in Directs, hand'[d] # NoOne PROVE d \notin Handed'
      OBVIOUS
    <3>1. d # t /\ hand'[d] = hand[d]
      BY <2>6, Names
    <3>2. hand[t] # d
      BY <2>7, <2>8, <3>1 DEF Tasks
    <3> QED
      BY <1>2, <2>4, <3>1, <3>2
  <2>13. ASSUME NEW i \in DOMAIN handed, handed[i].by = t PROVE handed[i].packet < hand[t]
    <3>1. CASE t \in Workers
      BY <1>2, <2>1, <2>13, <3>1
    <3>2. CASE t \in Directs
      <4>1. handed[i].packet = t
        BY <1>2, <2>13, <3>2
      <4>2. handed[i].packet \in Handed
        BY DEF Handed, Elements
      <4> QED
        BY <1>2, <2>1, <3>2, <4>1, <4>2
    <3> QED
      BY <3>1, <3>2 DEF Tasks
  <2>14. \A i, j \in DOMAIN handed' :
           i < j /\ handed'[i].by = handed'[j].by => handed'[i].packet < handed'[j].packet
    <3> SUFFICES ASSUME NEW i \in DOMAIN handed', NEW j \in DOMAIN handed',
                        i < j, handed'[i].by = handed'[j].by
                 PROVE  handed'[i].packet < handed'[j].packet
      OBVIOUS
    <3>1. i \in DOMAIN handed
      BY <2>4, <2>5
    <3>2. CASE j \in DOMAIN handed
      BY <1>2, <2>4, <3>1, <3>2
    <3>3. CASE j = k
      BY <2>4, <2>13, <3>1, <3>3
    <3> QED
      BY <2>4, <3>2, <3>3
  <2> QED
    BY <2>9, <2>10, <2>11, <2>12, <2>14 DEF OrderInv, EachWorkerInOrder
<1>9. CASE UNCHANGED <<hand, returned, handed, failed>>
  BY <1>3, <1>9 DEF Returned
<1> QED
  BY <1>4, <1>5, <1>7, <1>8, <1>9, PacketsMove

-----------------------------------------------------------------------------
(* The theorems *)

LEMMA Starts ==
  Init => /\ Queue!Init /\ QueueKnown /\ OfferInv /\ TaskInv
          /\ LifeInv /\ LeakInv /\ DeliveryInv /\ OrderInv
<1> SUFFICES ASSUME Init
             PROVE  /\ Queue!Init /\ QueueKnown /\ OfferInv /\ TaskInv
                    /\ LifeInv /\ LeakInv /\ DeliveryInv /\ OrderInv
  OBVIOUS
<1>1. Queue!Init
  BY DEF Init, Outbound!QueueInit, Queue!Init, Queue!QueueInit
<1>2. QueueKnown
  <2>1. Queue!QueueAssumption /\ Queue!ClientAssumption
    BY QueueAssumptions
  <2>2. Queue!QueueInv /\ Queue!OrderInv /\ Queue!PlaceInv
    BY <1>1, <2>1, Queue!StartsRight, Queue!StartsEmpty
  <2>3. Queue!OneReceived
    BY <1>1 DEF Queue!Init, Queue!QueueInit, Queue!OneReceived
  <2> QED
    BY <2>2, <2>3 DEF QueueKnown, Queue!FifoInv
<1>3. OfferInv
  BY EngineAssumption, FS_EmptySet DEF EngineAssumption, Init, OfferInv
<1>4. TaskInv
  BY Names DEF Init, Outbound!QueueInit, TaskInv, Delivering
<1>5. LifeInv /\ LeakInv
  BY Names DEF Init, LifeInv, LeakInv, Alive
<1>6. /\ InHand = {} /\ Handed = {} /\ failed = {} /\ Returned = {} /\ Sent = {}
      /\ handed = <<>> /\ Len(handed) = 0 /\ Len(returned) = 0
  BY DEF Init, Outbound!QueueInit, InHand, Handed, Returned, Sent, Elements
<1>7. DeliveryInv
  BY <1>6, FS_EmptySet DEF Init, DeliveryInv
<1>8. OrderInv
  BY <1>6 DEF Init, OrderInv, EachWorkerInOrder
<1> QED
  BY <1>1, <1>2, <1>3, <1>4, <1>5, <1>7, <1>8

LEMMA EngineInvariant ==
  Spec => [](QueueKnown /\ OfferInv /\ TaskInv /\ LifeInv /\ LeakInv /\ DeliveryInv /\ OrderInv)
BY Starts, QueueStep, OfferStep, TaskStep, LifeStep, LeakStep, DeliveryKept, OrderKept, PTL
   DEF Spec

\* The engine is a client of its outbound queue: what it does to the queue is a
\* behaviour of PacketQueue with its callers, however many workers share the queue
\* and whenever their calls of dequeue() are dropped (engine.rs:252-411).
THEOREM EngineIsClient == Spec => Queue!Spec
BY Starts, EngineUsesQueue, EngineInvariant, PTL DEF Spec, Queue!Spec

\* So the outbound queue is a bounded FIFO under the engine too, across pauses,
\* stops and restarts (queue.rs:52-105, engine.rs:354-411).
THEOREM OutboundIsFifo == Spec => Queue!ImplementsFifo
<1>1. Queue!QueueAssumption /\ Queue!ClientAssumption
  BY QueueAssumptions
<1>2. Queue!Spec => Queue!ImplementsFifo
  BY <1>1, Queue!QueueIsFifo
<1> QED
  BY <1>2, EngineIsClient

\* Every worker alive is awaited by the next stop(), whichever calls race
\* (engine.rs:154-208).
THEOREM NoneForgotten == Spec => []NoWorkerForgotten
<1>1. LifeInv => NoWorkerForgotten
  BY DEF LifeInv, NoWorkerForgotten
<1> QED
  BY <1>1, EngineInvariant, PTL

\* A worker that is not in its select! or delivering has nothing.
LEMMA OutsideNothing ==
  ASSUME QueueKnown, TaskInv, NEW w \in Workers, pc[w] \in {"ended", "top", "paused"}
  PROVE  hand[w] = NoOne /\ taken[w] = <<>> /\ holder # w
<1>1. hand[w] = NoOne
  BY Names DEF TaskInv, Delivering
<1>2. stage[w] = "idle"
  BY DEF TaskInv
<1> QED
  BY <1>1, <1>2, StageTypes, Names

\* Once the lifecycle calls have returned and left the engine stopped, no worker
\* holds a packet or the receiver (engine.rs:154-208, 365-380).
THEOREM StopsQuietly == Spec => []StoppedIsQuiet
<1>1. QueueKnown /\ TaskInv /\ LifeInv => StoppedIsQuiet
  <2> SUFFICES ASSUME QueueKnown, TaskInv, LifeInv, state = "Stopped", Quiet,
                      NEW w \in Workers
               PROVE  /\ pc[w] \in {"ended", "top"}
                      /\ hand[w] = NoOne /\ taken[w] = <<>> /\ holder # w
    BY DEF StoppedIsQuiet
  <2>1. pc[w] \in {"ended", "top"}
    BY DEF LifeInv, Quiet
  <2> QED
    BY <2>1, OutsideNothing
<1> QED
  BY <1>1, EngineInvariant, PTL

\* After a pause or a stop a worker forwards at most the packet it had in hand
\* (engine.rs:365-409).
THEOREM LeaksOne == Spec => []LeaksAtMostOnePacket
<1>1. QueueKnown /\ TaskInv /\ LeakInv => LeaksAtMostOnePacket
  BY OutsideNothing DEF LeakInv, LeaksAtMostOnePacket
<1> QED
  BY <1>1, EngineInvariant, PTL

\* What one worker hands over comes in the order the queue accepted it, across
\* retries, pauses, stops and restarts (engine.rs:354-411).
THEOREM WorkersKeepOrder == Spec => []EachWorkerInOrder
<1>1. OrderInv => EachWorkerInOrder
  BY DEF OrderInv
<1> QED
  BY <1>1, EngineInvariant, PTL

\* The queue's sets are counted as the engine's are.
LEMMA SameCount ==
  \A S : (Queue!IsFiniteSet(S) <=> IsFiniteSet(S)) /\ Queue!Cardinality(S) = Cardinality(S)
BY DEF Queue!IsFiniteSet, IsFiniteSet, Queue!Cardinality, Cardinality

\* Every packet offered is refused and counted, or accepted and then in one place:
\* none is lost and none is handed over twice (engine.rs:252-469).
THEOREM NothingLost == Spec => []EveryPacketInOnePlace
<1>1. QueueKnown /\ OfferInv /\ DeliveryInv => EveryPacketInOnePlace
  <2> SUFFICES ASSUME QueueKnown, OfferInv, DeliveryInv PROVE EveryPacketInOnePlace
    OBVIOUS
  <2> DEFINE taking == UNION {Elements(taken[t]) : t \in Takers}
             q == Queue!Kept
  <2>1. Queue!QueueInv /\ Queue!OrderInv /\ Queue!PlaceInv /\ Queue!QueueAssumption
        /\ Queue!ClientAssumption
    BY QueueAssumptions DEF QueueKnown, Queue!FifoInv
  <2>2. q \in Seq(Nat) /\ UNION {Queue!Elements(taken[t]) : t \in Takers} = Queue!Elements(q)
    BY <2>1, Queue!KeptIsHeld
  <2>3. \A s : Queue!Elements(s) = Elements(s)
    BY DEF Queue!Elements, Elements
  <2>4. taking = Elements(q)
    BY <2>2, <2>3
  <2>5. Queue!Rising(q)
    <3>1. Queue!Rising(<<>>)
      BY DEF Queue!Rising
    <3> QED
      BY <2>1, <3>1, StageTypes DEF Queue!Kept, Queue!OrderInv
  <2>6. IsFiniteSet(Elements(q)) /\ Cardinality(Elements(q)) = Len(q) /\ Len(q) \in Nat
    <3>1. /\ IsFiniteSet(Queue!Elements(q)) /\ Cardinality(Queue!Elements(q)) = Len(q)
      BY <2>1, <2>2, <2>5, Queue!RisingCounts, SameCount
    <3>2. Queue!Elements(q) = Elements(q) /\ Len(q) \in Nat
      BY <2>2, <2>3
    <3> QED
      BY <3>1, <3>2
  <2>7. /\ Elements(channel) \cup Elements(q) \cup Returned \cup cleared = 1..accepted
        /\ Len(channel) + Len(q) + Len(returned) + Cardinality(cleared) = accepted
    <3>1. /\ Queue!Elements(channel) \cup Queue!Elements(q)
               \cup Queue!Elements(returned) \cup cleared = 1..accepted
          /\ Len(channel) + Len(q) + Len(returned) + Cardinality(cleared) = accepted
      BY <2>1, SameCount DEF Queue!PlaceInv
    <3>2. /\ Queue!Elements(channel) = Elements(channel) /\ Queue!Elements(q) = Elements(q)
          /\ Queue!Elements(returned) = Returned
      BY <2>3 DEF Returned
    <3> QED
      BY <3>1, <3>2
  <2> HIDE DEF taking, q
  <2>8. /\ InHand \cup Handed \cup failed = Returned \cup Sent
        /\ Cardinality(InHand) + Len(handed) + Cardinality(failed)
             = Len(returned) + Cardinality(Sent)
    BY DEF DeliveryInv
  <2>9. (1..accepted) \cup Sent
          = Elements(channel) \cup taking \cup InHand \cup Handed \cup failed \cup cleared
    BY <2>4, <2>7, <2>8
  <2>10. accepted + Cardinality(Sent)
          = Len(channel) + Cardinality(taking) + Cardinality(InHand) + Len(handed)
              + Cardinality(failed) + Cardinality(cleared)
    <3>1. /\ Len(channel) \in Nat /\ Len(returned) \in Nat /\ Len(handed) \in Nat
          /\ Cardinality(InHand) \in Nat /\ Cardinality(failed) \in Nat
          /\ Cardinality(Sent) \in Nat
      <4>1. channel \in Seq(Nat) /\ returned \in Seq(Nat)
        BY <2>1 DEF Queue!QueueInv, Queue!OrderInv
      <4> QED
        BY <4>1, FS_CardinalityType DEF DeliveryInv
    <3>2. Cardinality(cleared) \in Nat
      <4>1. cleared \in SUBSET (1..accepted) /\ IsFiniteSet(1..accepted)
        BY <2>7, FS_Interval DEF OfferInv
      <4> QED
        BY <4>1, FS_Subset, FS_CardinalityType
    <3>3. Cardinality(taking) = Len(q)
      BY <2>4, <2>6
    <3> QED
      <4> DEFINE c == Len(channel)
                 k == Len(q)
                 r == Len(returned)
                 x == Cardinality(cleared)
                 h == Cardinality(InHand)
                 d == Len(handed)
                 f == Cardinality(failed)
                 s == Cardinality(Sent)
      <4>1. c + k + r + x = accepted /\ h + d + f = r + s
        BY <2>7, <2>8
      <4>2. /\ c \in Nat /\ k \in Nat /\ r \in Nat /\ x \in Nat
            /\ h \in Nat /\ d \in Nat /\ f \in Nat /\ s \in Nat
        BY <2>6, <3>1, <3>2
      <4> HIDE DEF c, k, r, x, h, d, f, s
      <4>3. accepted + s = c + k + h + d + f + x
        BY <4>1, <4>2
      <4> QED
        BY <3>3, <4>3 DEF c, k, r, x, h, d, f, s
  <2>11. offered = accepted + overflowed + Cardinality(producing)
    BY DEF OfferInv
  <2> QED
    BY <2>9, <2>10, <2>11 DEF EveryPacketInOnePlace, taking, Sent
<1> QED
  BY <1>1, EngineInvariant, PTL

=============================================================================
