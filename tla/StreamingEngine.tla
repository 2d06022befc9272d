--------------------------- MODULE StreamingEngine ---------------------------
(***************************************************************************)
(* StreamingEngine (streaming/src/engine.rs): callers of start(), stop(),  *)
(* pause() and resume(), producers that enqueue packets, and the worker    *)
(* tasks that take packets from the outbound PacketQueue and hand them to  *)
(* the transport, retrying on timeout.                                     *)
(*                                                                         *)
(* A lifecycle call reads the state and sends the new one in two steps:    *)
(* the engine is Clone, and nothing orders two calls on two threads.  A    *)
(* worker learns of a new state when it looks at the watch channel at the  *)
(* top of its loop, or from changed() in its select!.                      *)
(***************************************************************************)
EXTENDS Integers, Sequences, FiniteSets, FiniteSetsExt

CONSTANTS
  Workers,            \* names for worker tasks; a bound on those alive at once
  Directs,            \* callers of send_packet()
  Callers,            \* callers of the lifecycle operations
  Producers,          \* callers of enqueue()
  Clearers,           \* callers of clear()
  Ops,                \* the lifecycle operations that are called
  WorkerCount,        \* config.worker_count
  MaxRetryCount,      \* config.max_retry_count
  QueueCapacity,      \* config.outbound_queue_capacity
  TransportCapacity,  \* capacity of the transport's channel
  Modulus,            \* where the queue's length wraps
  NoOne,              \* no task
  MaxPackets,         \* bound: packets offered to enqueue()
  MaxCalls,           \* bound: lifecycle operations called
  MaxClears           \* bound: calls of clear()

ASSUME EngineAssumption ==
  /\ WorkerCount \in Nat /\ MaxRetryCount \in Nat
  /\ QueueCapacity \in Nat /\ TransportCapacity \in Nat \ {0}
  /\ MaxPackets \in Nat /\ MaxCalls \in Nat /\ MaxClears \in Nat
  /\ Ops \subseteq {"start", "stop", "pause", "resume"}
  /\ Modulus \in Nat \ {0}

\* Tasks and calls have names of their own, and no name is a packet's number.
ASSUME NamesAssumption ==
  /\ Workers \cap Directs = {} /\ Workers \cap Clearers = {}
  /\ \A d \in Directs : d \notin Nat
  /\ NoOne \notin Nat \cup Workers \cup Directs \cup Clearers

VARIABLES
  \* The outbound queue, as in PacketQueue:
  channel, length, holder, uncounted, stage, taken, returned, cleared,
  \* The engine:
  state,              \* the value in the watch channel
  handles,            \* worker_handles: the tasks stop() will await
  joiner,             \* the call of stop() that holds the worker_handles mutex
  call,               \* where each lifecycle call is
  producing,          \* producers that have read the state and may enqueue
  \* The tasks:
  pc,                 \* where each worker and each send_packet() call is
  unseen,             \* the watch channel has a version the worker has not seen
  hand,               \* the packet being delivered, or NoOne
  attempts,           \* attempts_remaining of the delivery
  \* The transport:
  in_transport,       \* packets in its channel
  transport_open,     \* its receiver has not been dropped
  \* Bounds and history:
  offered, calls, clears,
  accepted,           \* packets the outbound queue accepted, numbered from 1
  overflowed,         \* packets_dropped
  handed,             \* packets the transport got and from whom: packets_sent
  failed,             \* packets given up: packets_send_failed
  leaked              \* workers that handed a packet since the state left Running

queueVars == <<channel, length, holder, uncounted, stage, taken, returned, cleared>>
lifeVars == <<state, handles, joiner, call, calls>>
taskVars == <<pc, unseen, hand, attempts>>
transportVars == <<in_transport, transport_open, handed, failed, leaked>>
offerVars == <<producing, offered, accepted, overflowed>>
vars == <<queueVars, lifeVars, taskVars, transportVars, offerVars, clears>>

Takers == Workers \cup Clearers
Tasks == Workers \cup Directs

Elements(seq) == {seq[i] : i \in DOMAIN seq}
Handed == {h.packet : h \in Elements(handed)}

Outbound == INSTANCE PacketQueue WITH
  Senders <- Producers, Capacity <- QueueCapacity

Init ==
  /\ Outbound!QueueInit
  /\ state = "Stopped"
  /\ handles = {} /\ joiner = NoOne
  /\ call = [c \in Callers |-> "idle"]
  /\ producing = {}
  /\ pc = [t \in Tasks |-> "ended"]
  /\ unseen = [w \in Workers |-> TRUE]
  /\ hand = [t \in Tasks |-> NoOne]
  /\ attempts = [t \in Tasks |-> 0]
  /\ in_transport = 0 /\ transport_open = TRUE
  /\ offered = 0 /\ calls = 0 /\ clears = 0
  /\ accepted = 0 /\ overflowed = 0
  /\ handed = <<>> /\ failed = {} /\ leaked = {}

-----------------------------------------------------------------------------
(* start(), stop(), pause(), resume() *)

GoTo(c, where) == call' = [call EXCEPT ![c] = where]

\* The state an operation requires, and where the call goes on if it finds it.
Allows(op) ==
  CASE op = "start"  -> state # "Running"
    [] op = "stop"   -> state # "Stopped"
    [] op = "pause"  -> state = "Running"
    [] op = "resume" -> state = "Paused"

\* An operation is called and reads the state; a refused call changes nothing.
Begin(c, op) ==
  /\ call[c] = "idle"
  /\ calls < MaxCalls
  /\ Allows(op)
  /\ GoTo(c, op)
  /\ calls' = calls + 1
  /\ UNCHANGED <<queueVars, state, handles, joiner, taskVars, transportVars,
                 offerVars, clears>>

\* Mutated form of Broadcast: a paused worker is not woken.
BroadcastToBusy(new) ==
  /\ state' = new
  /\ unseen' = [w \in Workers |-> pc[w] # "paused"]
  /\ leaked' = {}

\* state_tx.send(): every worker has something new to see.
Broadcast(new) ==
  /\ state' = new
  /\ unseen' = [w \in Workers |-> TRUE]
  /\ leaked' = {}

Send(c, op, new, next) ==
  /\ call[c] = op
  /\ Broadcast(new)
  /\ GoTo(c, next)
  /\ UNCHANGED <<queueVars, handles, joiner, calls, pc, hand, attempts,
                 in_transport, transport_open, handed, failed, offerVars, clears>>

SendState(c) ==
  \/ Send(c, "start", "Running", "spawn")
  \/ Send(c, "stop", "Stopped", "lock")
  \/ Send(c, "pause", "Paused", "idle")
  \/ Send(c, "resume", "Running", "idle")

\* Mutated form of Spawn: the list of handles is replaced, not extended.
SpawnAfresh(c) ==
  /\ call[c] = "spawn" /\ joiner = NoOne
  /\ \E born \in kSubset(IF WorkerCount = 0 THEN 1 ELSE WorkerCount,
                         {w \in Workers \ handles : pc[w] = "ended"}) :
       /\ pc' = [t \in Tasks |-> IF t \in born THEN "top" ELSE pc[t]]
       /\ unseen' = [w \in Workers |-> w \in born \/ unseen[w]]
       /\ handles' = born
  /\ GoTo(c, "idle")
  /\ UNCHANGED <<queueVars, state, joiner, calls, hand, attempts, transportVars,
                 offerVars, clears>>

\* start() with the worker_handles mutex: worker_count.max(1) tasks, each with
\* a receiver that has seen no version yet.
Spawn(c) ==
  /\ call[c] = "spawn" /\ joiner = NoOne
  /\ \E born \in kSubset(IF WorkerCount = 0 THEN 1 ELSE WorkerCount,
                         {w \in Workers \ handles : pc[w] = "ended"}) :
       /\ pc' = [t \in Tasks |-> IF t \in born THEN "top" ELSE pc[t]]
       /\ unseen' = [w \in Workers |-> w \in born \/ unseen[w]]
       /\ handles' = handles \cup born
  /\ GoTo(c, "idle")
  /\ UNCHANGED <<queueVars, state, joiner, calls, hand, attempts, transportVars,
                 offerVars, clears>>

\* stop() takes the mutex and keeps it while it awaits every task.
LockHandles(c) ==
  /\ call[c] = "lock" /\ joiner = NoOne
  /\ joiner' = c
  /\ GoTo(c, "join")
  /\ UNCHANGED <<queueVars, state, handles, calls, taskVars, transportVars,
                 offerVars, clears>>

Join(c, w) ==
  /\ call[c] = "join"
  /\ w \in handles /\ pc[w] = "ended"
  /\ handles' = handles \ {w}
  /\ UNCHANGED <<queueVars, state, joiner, call, calls, taskVars, transportVars,
                 offerVars, clears>>

\* Mutated form of FinishStop: stop() does not await the tasks.
FinishStopEarly(c) ==
  /\ call[c] = "join"
  /\ joiner' = NoOne
  /\ GoTo(c, "idle")
  /\ UNCHANGED <<queueVars, state, handles, calls, taskVars, transportVars,
                 offerVars, clears>>

FinishStop(c) ==
  /\ call[c] = "join" /\ handles = {}
  /\ joiner' = NoOne
  /\ GoTo(c, "idle")
  /\ UNCHANGED <<queueVars, state, handles, calls, taskVars, transportVars,
                 offerVars, clears>>

-----------------------------------------------------------------------------
(* enqueue() and clear() *)

\* enqueue() is refused while the engine is stopped ...
BeginEnqueue(p) ==
  /\ p \notin producing \cup uncounted
  /\ offered < MaxPackets
  /\ state # "Stopped"
  /\ producing' = producing \cup {p}
  /\ offered' = offered + 1
  /\ UNCHANGED <<queueVars, lifeVars, taskVars, transportVars, accepted,
                 overflowed, clears>>

\* ... and after the check either the queue takes the packet or it is full.
Enqueue(p) ==
  /\ p \in producing
  /\ producing' = producing \ {p}
  /\ IF Outbound!IsFull
     THEN /\ overflowed' = overflowed + 1
          /\ UNCHANGED <<queueVars, accepted>>
     ELSE /\ Outbound!TrySend(p, accepted + 1)
          /\ accepted' = accepted + 1
          /\ UNCHANGED overflowed
  /\ UNCHANGED <<lifeVars, taskVars, transportVars, offered, clears>>

Count(p) ==
  /\ Outbound!CountSend(p)
  /\ UNCHANGED <<lifeVars, taskVars, transportVars, offerVars, clears>>

BeginClear(c) ==
  /\ clears < MaxClears
  /\ Outbound!Request(c, "wants clear")
  /\ clears' = clears + 1
  /\ UNCHANGED <<lifeVars, taskVars, transportVars, offerVars>>

Clear(c) ==
  /\ Outbound!Lock(c) \/ Outbound!Remove(c) \/ Outbound!FinishClear(c)
  /\ UNCHANGED <<lifeVars, taskVars, transportVars, offerVars, clears>>

-----------------------------------------------------------------------------
(* run_outbound_worker *)

\* Mutated form of Look: a worker takes Paused for Running.
LookUnlessStopped(w) ==
  /\ pc[w] = "top"
  /\ pc' = [pc EXCEPT ![w] = IF state = "Stopped" THEN "ended" ELSE "select"]
  /\ UNCHANGED <<queueVars, lifeVars, unseen, hand, attempts, transportVars,
                 offerVars, clears>>

\* The top of the loop looks at the state.
Look(w) ==
  /\ pc[w] = "top"
  /\ pc' = [pc EXCEPT ![w] = CASE state = "Running" -> "select"
                               [] state = "Stopped" -> "ended"
                               [] state = "Paused"  -> "paused"]
  /\ UNCHANGED <<queueVars, lifeVars, unseen, hand, attempts, transportVars,
                 offerVars, clears>>

\* Mutated form of Changed: a worker that waits for a packet does not look.
ChangedIfPaused(w) ==
  /\ unseen[w]
  /\ pc[w] = "paused"
  /\ UNCHANGED queueVars
  /\ pc' = [pc EXCEPT ![w] = "top"]
  /\ unseen' = [unseen EXCEPT ![w] = FALSE]
  /\ UNCHANGED <<lifeVars, hand, attempts, transportVars, offerVars, clears>>

\* changed() returns: to a paused worker, or to one in select!, which drops
\* its dequeue() unless that has a packet already.
Changed(w) ==
  /\ unseen[w]
  /\ \/ pc[w] = "paused" /\ UNCHANGED queueVars
     \/ pc[w] = "select" /\ stage[w] = "idle" /\ UNCHANGED queueVars
     \/ pc[w] = "select" /\ Outbound!Cancel(w)
  /\ pc' = [pc EXCEPT ![w] = "top"]
  /\ unseen' = [unseen EXCEPT ![w] = FALSE]
  /\ UNCHANGED <<lifeVars, hand, attempts, transportVars, offerVars, clears>>

\* select! is biased: dequeue() is called when changed() had nothing.
Dequeue(w) ==
  /\ pc[w] = "select"
  /\ \/ ~unseen[w] /\ Outbound!Request(w, "wants packet")
     \/ Outbound!Lock(w)
     \/ Outbound!Remove(w)
  /\ UNCHANGED <<lifeVars, taskVars, transportVars, offerVars, clears>>

StartDelivery(t, packet) ==
  /\ pc' = [pc EXCEPT ![t] = "send"]
  /\ hand' = [hand EXCEPT ![t] = packet]
  /\ attempts' = [attempts EXCEPT ![t] = MaxRetryCount]
  /\ UNCHANGED unseen

TakePacket(w) ==
  /\ pc[w] = "select"
  /\ Outbound!ReturnPacket(w)
  /\ StartDelivery(w, Head(taken[w]))
  /\ UNCHANGED <<lifeVars, transportVars, offerVars, clears>>

\* send_packet() delivers past the queue, whatever the state.
SendPacket(d) ==
  /\ pc[d] = "ended" /\ d \notin failed \cup Handed   \* bound: one each
  /\ StartDelivery(d, d)
  /\ UNCHANGED <<queueVars, lifeVars, transportVars, offerVars, clears>>

-----------------------------------------------------------------------------
(* deliver_to_transport *)

EndDelivery(t) ==
  /\ pc' = [pc EXCEPT ![t] = IF t \in Workers THEN "top" ELSE "ended"]
  /\ hand' = [hand EXCEPT ![t] = NoOne]
  /\ attempts' = [attempts EXCEPT ![t] = 0]
  /\ UNCHANGED unseen

GiveUp(t) ==
  /\ failed' = failed \cup {hand[t]}
  /\ EndDelivery(t)
  /\ UNCHANGED <<handed, leaked>>

\* The transport has room.
Hand(t) ==
  /\ pc[t] = "send" /\ transport_open /\ in_transport < TransportCapacity
  /\ in_transport' = in_transport + 1
  /\ handed' = Append(handed, [by |-> t, packet |-> hand[t]])
  /\ leaked' = IF t \in Workers /\ state # "Running" THEN leaked \cup {t} ELSE leaked
  /\ EndDelivery(t)
  /\ UNCHANGED <<queueVars, lifeVars, transport_open, failed, offerVars, clears>>

\* Its receiver is gone: no retry.
Unavailable(t) ==
  /\ pc[t] = "send" /\ ~transport_open
  /\ GiveUp(t)
  /\ UNCHANGED <<queueVars, lifeVars, in_transport, transport_open, offerVars, clears>>

\* Mutated form of TimeOut: the packet is forgotten and not counted.
TimeOutSilently(t) ==
  /\ pc[t] = "send" /\ transport_open /\ in_transport = TransportCapacity
  /\ IF attempts[t] = 0
     THEN EndDelivery(t) /\ UNCHANGED <<handed, failed, leaked>>
     ELSE /\ pc' = [pc EXCEPT ![t] = "backoff"]
          /\ UNCHANGED <<unseen, hand, attempts, handed, failed, leaked>>
  /\ UNCHANGED <<queueVars, lifeVars, in_transport, transport_open, offerVars, clears>>

\* Mutated form of TimeOut: the packet goes back to the queue.
TimeOutRequeues(t) ==
  /\ t \in Workers
  /\ pc[t] = "send" /\ transport_open /\ in_transport = TransportCapacity
  /\ ~Outbound!IsFull
  /\ channel' = Append(channel, hand[t])
  /\ EndDelivery(t)
  /\ UNCHANGED <<length, holder, uncounted, stage, taken, returned, cleared,
                 handed, failed, leaked, lifeVars, in_transport, transport_open,
                 offerVars, clears>>

\* The transport stayed full for packet_timeout.
TimeOut(t) ==
  /\ pc[t] = "send" /\ transport_open /\ in_transport = TransportCapacity
  /\ IF attempts[t] = 0
     THEN GiveUp(t)
     ELSE /\ pc' = [pc EXCEPT ![t] = "backoff"]
          /\ UNCHANGED <<unseen, hand, attempts, handed, failed, leaked>>
  /\ UNCHANGED <<queueVars, lifeVars, in_transport, transport_open, offerVars, clears>>

\* Mutated form of Retry: the attempts are not counted down.
RetryForEver(t) ==
  /\ pc[t] = "backoff"
  /\ pc' = [pc EXCEPT ![t] = "send"]
  /\ UNCHANGED <<attempts, queueVars, lifeVars, unseen, hand, transportVars,
                 offerVars, clears>>

\* retry_backoff is over.
Retry(t) ==
  /\ pc[t] = "backoff"
  /\ pc' = [pc EXCEPT ![t] = "send"]
  /\ attempts' = [attempts EXCEPT ![t] = @ - 1]
  /\ UNCHANGED <<queueVars, lifeVars, unseen, hand, transportVars, offerVars, clears>>

\* The transport takes a packet off its channel, or drops its receiver.
TransportTakes ==
  /\ in_transport > 0
  /\ in_transport' = in_transport - 1
  /\ UNCHANGED <<queueVars, lifeVars, taskVars, transport_open, handed, failed,
                 leaked, offerVars, clears>>

TransportCloses ==
  /\ transport_open
  /\ transport_open' = FALSE
  /\ in_transport' = 0
  /\ UNCHANGED <<queueVars, lifeVars, taskVars, handed, failed, leaked,
                 offerVars, clears>>

-----------------------------------------------------------------------------

LifecycleStep(c) ==
  \/ SendState(c) \/ Spawn(c) \/ LockHandles(c) \/ FinishStop(c)
  \/ \E w \in Workers : Join(c, w)

DeliveryStep(t) == Hand(t) \/ Unavailable(t) \/ TimeOut(t) \/ Retry(t)

WorkerStep(w) ==
  Look(w) \/ Changed(w) \/ Dequeue(w) \/ TakePacket(w) \/ DeliveryStep(w)

Next ==
  \/ \E c \in Callers : (\E op \in Ops : Begin(c, op)) \/ LifecycleStep(c)
  \/ \E p \in Producers : BeginEnqueue(p) \/ Enqueue(p) \/ Count(p)
  \/ \E c \in Clearers : BeginClear(c) \/ Clear(c)
  \/ \E w \in Workers : WorkerStep(w)
  \/ \E d \in Directs : SendPacket(d) \/ DeliveryStep(d)
  \/ TransportTakes \/ TransportCloses

Spec == Init /\ [][Next]_vars

\* Tasks and calls that can go on do: the runtime polls every task that was
\* woken, timeouts and backoffs expire.  Nothing is assumed of the transport,
\* nor that anybody calls the engine.
Fairness ==
  /\ \A c \in Callers : WF_vars(LifecycleStep(c))
  /\ \A p \in Producers : WF_vars(Enqueue(p)) /\ WF_vars(Count(p))
  /\ \A c \in Clearers : WF_vars(Clear(c))
  /\ \A w \in Workers : WF_vars(WorkerStep(w))
  /\ \A d \in Directs : WF_vars(DeliveryStep(d))

FairSpec == Spec /\ Fairness


-----------------------------------------------------------------------------
(* Properties *)

Alive == {w \in Workers : pc[w] # "ended"}
InHand == {hand[t] : t \in Tasks} \ {NoOne}
Quiet == \A c \in Callers : call[c] = "idle"

TypeOK ==
  /\ Outbound!QueueTypeOK
  /\ state \in {"Stopped", "Running", "Paused"}
  /\ handles \subseteq Workers
  /\ joiner \in Callers \cup {NoOne}
  /\ call \in [Callers -> {"idle", "start", "spawn", "stop", "lock", "join",
                           "pause", "resume"}]
  /\ producing \subseteq Producers
  /\ pc \in [Tasks -> {"ended", "top", "paused", "select", "send", "backoff"}]
  /\ unseen \in [Workers -> BOOLEAN]
  /\ hand \in [Tasks -> (1..accepted) \cup Directs \cup {NoOne}]
  /\ attempts \in [Tasks -> 0..MaxRetryCount]
  /\ in_transport \in 0..TransportCapacity
  /\ transport_open \in BOOLEAN
  /\ offered \in 0..MaxPackets /\ accepted \in 0..offered /\ overflowed \in 0..offered
  /\ calls \in 0..MaxCalls /\ clears \in 0..MaxClears
  /\ failed \subseteq (1..accepted) \cup Directs
  /\ leaked \subseteq Workers

\* Every packet offered was refused and counted, or accepted; and every packet
\* accepted is in exactly one place: the queue, a task's hands, the transport,
\* the failed or the cleared ones.  So retries, pauses, stops and restarts lose
\* no packet and hand none over twice (engine.rs:252-469).
EveryPacketInOnePlace ==
  LET taking == UNION {Elements(taken[t]) : t \in Takers}
      sent == Directs \cap (InHand \cup failed \cup Handed)
  IN  /\ offered = accepted + overflowed + Cardinality(producing)
      /\ (1..accepted) \cup sent =
           Elements(channel) \cup taking \cup InHand \cup Handed
             \cup failed \cup cleared
      /\ accepted + Cardinality(sent) =
           Len(channel) + Cardinality(taking) + Cardinality(InHand) + Len(handed)
             + Cardinality(failed) + Cardinality(cleared)

\* What one worker hands over, it hands over in the order the packets were
\* enqueued, across retries, pauses, stops and restarts (engine.rs:354-411).
EachWorkerInOrder ==
  \A i, j \in DOMAIN handed :
    i < j /\ handed[i].by = handed[j].by => handed[i].packet < handed[j].packet

\* Once the lifecycle calls have returned and left the engine stopped, a worker
\* that is still there was spawned too late to do anything: none holds a packet
\* or the receiver, and what was buffered waits for the next start()
\* (engine.rs:154-208, 365-380).
StoppedIsQuiet ==
  state = "Stopped" /\ Quiet =>
    \A w \in Workers : /\ pc[w] \in {"ended", "top"}
                       /\ hand[w] = NoOne /\ taken[w] = <<>> /\ holder # w

\* After a pause or a stop a worker forwards at most the packet it had in
\* hand: one that did holds no other until the engine runs again
\* (engine.rs:365-409).
LeaksAtMostOnePacket == \A w \in leaked : hand[w] = NoOne /\ taken[w] = <<>>

\* Workers that are alive will be awaited by the next stop(): none is forgotten,
\* whichever calls race (engine.rs:154-208).
NoWorkerForgotten == Alive \subseteq handles

\* stop() returns, whatever the transport does: a full one only costs the
\* retries of the packets in hand (engine.rs:185-208, 416-469).
StopReturns ==
  \A c \in Callers : call[c] \in {"lock", "join"} ~> call[c] = "idle"

\* If the engine is left running, what is queued is handed over, given up or
\* cleared (engine.rs:354-411).
RunningForwards ==
  <>[](state = "Running" /\ Quiet) =>
    \A n \in 1..MaxPackets : []<>(n \notin Elements(channel))

\* What the documentation promises and the code does not do.

\* "packets enqueued in order must be handed to the transport channel in the
\* same order" (engine.rs:687), by several workers too.
HandedInOrder ==
  \A i, j \in DOMAIN handed : i < j => handed[i].packet < handed[j].packet

\* "Safe to call in any lifecycle state" (engine.rs:327): clear() returns.
ClearReturns ==
  \A c \in Clearers : stage[c] = "wants clear" ~> stage[c] = "idle"

=============================================================================
