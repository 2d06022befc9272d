----------------------------- MODULE InboundPath -----------------------------
(***************************************************************************)
(* The inbound half of StreamingEngine (engine.rs): receive_packet() from  *)
(* the transport, dequeue() for playback, clear(), and the lifecycle state *)
(* they look at.  The inbound queue is a BoundedFifo, as PacketQueue was   *)
(* shown to be.                                                            *)
(*                                                                         *)
(* The engine is Clone and its operations take &self: any number of calls  *)
(* may be under way.  A receive_packet() is two steps, it reads the state  *)
(* and then does the rest; so is a lifecycle operation, which reads the    *)
(* state and then sends the new one, whatever was sent in between.         *)
(***************************************************************************)
EXTENDS Integers, Sequences, FiniteSets

CONSTANTS
  Packets,           \* sequence numbers
  Oversized,         \* those with more than config.max_packet_size_bytes
  InboundCapacity,   \* config.inbound_queue_capacity
  Receivers,         \* tasks that call receive_packet()
  Operators,         \* tasks that call start(), pause(), resume() and stop()
  NoPacket

ASSUME InboundAssumption ==
  /\ Oversized \subseteq Packets /\ NoPacket \notin Packets
  /\ InboundCapacity \in Nat \ {0}
  /\ IsFiniteSet(Receivers)

VARIABLES
  engine,      \* EngineState
  sending,     \* the state that each operator has yet to send, or "none"
  arriving,    \* the packet of each receive_packet() that has read the state
  waiting,     \* inbound_queue
  handed,      \* the packet dequeue() returned, while its caller has it
  clearing,    \* clear() drains the inbound queue
  \* History, of the last time that the engine was stopped:
  overtaken,   \* calls of receive_packet() that were under way then
  late         \* packets queued since

inboundHistory == <<overtaken, late>>
inboundVars == <<engine, sending, arriving, waiting, handed, clearing, inboundHistory>>

Inbound == INSTANCE BoundedFifo WITH Capacity <- InboundCapacity, Nobody <- NoPacket

UnderWay == {r \in Receivers : arriving[r] # NoPacket}

InboundInit ==
  /\ engine = "stopped"
  /\ sending = [o \in Operators |-> "none"]
  /\ arriving = [r \in Receivers |-> NoPacket]
  /\ clearing = FALSE
  /\ overtaken = 0 /\ late = 0
  /\ Inbound!Init

\* start(), pause(), resume() and stop(), as far as this half can tell: an operation
\* finds a state that allows it ...
BeginLifecycle(o, state) ==
  /\ sending[o] = "none"
  /\ state \in CASE engine = "stopped" -> {"running"}
                 [] engine = "running" -> {"paused", "stopped"}
                 [] engine = "paused"  -> {"running", "stopped"}
  /\ sending' = [sending EXCEPT ![o] = state]
  /\ UNCHANGED <<engine, arriving, waiting, handed, clearing, inboundHistory>>

\* ... and sends the new one.
SendState(o) ==
  /\ sending[o] # "none"
  /\ engine' = sending[o]
  /\ sending' = [sending EXCEPT ![o] = "none"]
  /\ IF engine = "stopped" /\ sending[o] = "stopped" THEN UNCHANGED inboundHistory
       ELSE /\ overtaken' = IF sending[o] = "stopped" THEN Cardinality(UnderWay) ELSE 0
            /\ late' = 0
  /\ UNCHANGED <<arriving, waiting, handed, clearing>>

\* Mutated form of BeginReceive: the state is not looked at.
BeginReceiveAlways(r, p) ==
  /\ arriving[r] = NoPacket
  /\ arriving' = [arriving EXCEPT ![r] = p]
  /\ UNCHANGED <<engine, sending, waiting, handed, clearing, inboundHistory>>

BeginReceive(r, p) ==
  /\ arriving[r] = NoPacket
  /\ engine # "stopped"
  /\ arriving' = [arriving EXCEPT ![r] = p]
  /\ UNCHANGED <<engine, sending, waiting, handed, clearing, inboundHistory>>

\* Err(EngineNotRunning).
RefuseReceive(r) ==
  /\ arriving[r] = NoPacket
  /\ engine = "stopped"
  /\ UNCHANGED inboundVars

\* Mutated form of TooLarge: as enqueue(), which does not look at the size.
NeverTooLarge(p) == FALSE

TooLarge(p) == p \in Oversized

EndReceive(r) ==
  /\ arriving[r] # NoPacket
  /\ arriving' = [arriving EXCEPT ![r] = NoPacket]

\* The packet is too large, or finds no room, ...
Refuse(r) ==
  /\ EndReceive(r)
  /\ TooLarge(arriving[r]) \/ Len(waiting) >= InboundCapacity
  /\ UNCHANGED <<engine, sending, waiting, handed, clearing, inboundHistory>>

\* ... or is queued.
Receive(r) ==
  /\ EndReceive(r)
  /\ ~TooLarge(arriving[r])
  /\ Inbound!Accept(arriving[r])
  /\ late' = IF engine = "stopped" THEN late + 1 ELSE late
  /\ UNCHANGED <<engine, sending, clearing, overtaken>>

\* Mutated form of Dequeue: only while the engine runs.
DequeueRunning ==
  /\ engine = "running" /\ handed = NoPacket
  /\ Inbound!Take
  /\ UNCHANGED <<engine, sending, arriving, clearing, inboundHistory>>

\* dequeue() looks at no state: it also empties the queue of a stopped engine.
Dequeue ==
  /\ handed = NoPacket
  /\ Inbound!Take
  /\ UNCHANGED <<engine, sending, arriving, clearing, inboundHistory>>

BeginClear ==
  /\ ~clearing
  /\ clearing' = TRUE
  /\ UNCHANGED <<engine, sending, arriving, waiting, handed, inboundHistory>>

\* clear() takes the packets one by one, until it finds none.
ClearOne ==
  /\ clearing
  /\ Inbound!Discard
  /\ UNCHANGED <<engine, sending, arriving, clearing, inboundHistory>>

EndClear ==
  /\ clearing /\ waiting = <<>>
  /\ clearing' = FALSE
  /\ UNCHANGED <<engine, sending, arriving, waiting, handed, inboundHistory>>

=============================================================================
