----------------------------- MODULE PartyStream -----------------------------
(***************************************************************************)
(* A party's music from the host to one listener: the host's NetworkEngine *)
(* broadcasts numbered packets; a listener that joined hands what arrives  *)
(* to its streaming engine, on to the jitter buffer, to the playback       *)
(* scheduler, and to the speaker.                                          *)
(*                                                                         *)
(* The crates are taken for what they were shown to promise, BoundedFifo,  *)
(* OrderedDelivery and Playout.  The loops that carry a packet from one to *)
(* the next are not in the repository: they do what the comments of the    *)
(* crates expect of a caller, one packet at a time; only receive_packet()  *)
(* is called by several tasks at once.                                     *)
(***************************************************************************)
EXTENDS NetworkEngine, InboundPath

CONSTANTS
  MaxSeq,          \* bound: the last packet of the stream
  PlayCapacity,    \* queue_capacity of the scheduler
  Gap,             \* time between two packets
  Offsets,         \* what the synchronizer's offset and the timeline's anchor, as
                   \* they are when a packet is scheduled, add to its deadline
  MaxLifecycles,   \* bound: lifecycle operations on the engine
  MaxClears        \* bound: calls of clear()

ASSUME StreamAssumption ==
  /\ Packets = 0..MaxSeq
  /\ PlayCapacity \in Nat \ {0} /\ Gap \in Nat
  /\ Offsets \subseteq Int
  /\ MaxLifecycles \in Nat /\ MaxClears \in Nat

VARIABLES
  sent,        \* packets broadcast so far
  here,        \* the listener's address now
  used,        \* and those it had
  pending, floor, out,   \* the jitter buffer
  queued, played,        \* the scheduler
  due,         \* history: the deadlines of the packets played
  lifecycles, clears

listenerVars == <<pending, floor, out, queued, played, due>>
boundVars == <<lifecycles, clears>>
vars == <<networkVars, inboundVars, sent, here, used, listenerVars, boundVars>>

Buffer == INSTANCE OrderedDelivery
Scheduler == INSTANCE Playout WITH Capacity <- PlayCapacity

Init ==
  /\ NetworkInit /\ InboundInit
  /\ sent = 0
  /\ here = CHOOSE a \in Addresses : TRUE
  /\ used = {here}
  /\ Buffer!Init /\ Scheduler!Init /\ due = <<>>
  /\ lifecycles = 0 /\ clears = 0

-----------------------------------------------------------------------------
(* The host, and the network *)

Broadcast ==
  /\ sent <= MaxSeq
  /\ BroadcastToClients(sent)
  /\ sent' = sent + 1

HostStep ==
  /\ \/ Broadcast
     \/ /\ StartHostMode \/ Close \/ \E m \in wire : OnMessage(m)
        /\ UNCHANGED sent
  /\ UNCHANGED <<inboundVars, here, used, listenerVars, boundVars>>

-----------------------------------------------------------------------------
(* The listener *)

Join ==
  /\ FoundHost(here)
  /\ UNCHANGED <<inboundVars, sent, here, used, listenerVars, boundVars>>

\* A packet that arrives is given to a call of receive_packet().
Hear(m) ==
  /\ m.to = here
  /\ Arrives(m)
  /\ \E r \in Receivers : BeginReceive(r, m.body) \/ RefuseReceive(r)
  /\ UNCHANGED <<hostVars, sent, here, used, listenerVars, boundVars>>

FinishReceive ==
  /\ \E r \in Receivers : Receive(r) \/ Refuse(r)
  /\ UNCHANGED <<networkVars, sent, here, used, listenerVars, boundVars>>

Operate(o) ==
  /\ \/ \E state \in {"running", "paused", "stopped"} :
          /\ lifecycles < MaxLifecycles
          /\ BeginLifecycle(o, state)
          /\ lifecycles' = lifecycles + 1
     \/ SendState(o) /\ UNCHANGED lifecycles
  /\ UNCHANGED <<networkVars, sent, here, used, listenerVars, clears>>

Clear ==
  /\ \/ clears < MaxClears /\ BeginClear /\ clears' = clears + 1
     \/ (ClearOne \/ EndClear) /\ UNCHANGED clears
  /\ UNCHANGED <<networkVars, sent, here, used, listenerVars, lifecycles>>

\* dequeue() ...
FetchPacket ==
  /\ Dequeue
  /\ UNCHANGED <<networkVars, sent, here, used, listenerVars, boundVars>>

\* ... then push_packet(), which takes the packet or refuses it.
PushPacket ==
  /\ handed # NoPacket
  /\ \/ \E dropped \in SUBSET pending : Buffer!Accept(handed, dropped)
     \/ UNCHANGED <<pending, floor, out>>
  /\ handed' = NoPacket
  /\ UNCHANGED <<networkVars, engine, sending, arriving, waiting, clearing,
                 inboundHistory, sent, here, used, queued, played, due, boundVars>>

\* pop_packet(), then schedule_packet(), which queues the packet by a deadline or
\* drops it.
SchedulePacket ==
  /\ \E dropped \in SUBSET pending : \E s \in pending :
       /\ Buffer!Deliver(s, dropped)
       /\ \/ \E offset \in Offsets : Scheduler!Queue(s, s * Gap + offset)
          \/ UNCHANGED <<queued, played>>
  /\ UNCHANGED <<networkVars, inboundVars, sent, here, used, due, boundVars>>

\* next_packet(), to the speaker.
Play ==
  /\ \E item \in queued : Scheduler!Play(item) /\ due' = Append(due, item.deadline)
  /\ UNCHANGED <<networkVars, inboundVars, sent, here, used, pending,
                 floor, out, boundVars>>

\* The application is started again: everything of it is new, its port as well,
\* while the host keeps the old address.
Restart ==
  /\ \E a \in Addresses \ used : here' = a /\ used' = used \cup {a}
  /\ engine' = "stopped" /\ sending' = [o \in Operators |-> "none"]
  /\ arriving' = [r \in Receivers |-> NoPacket] /\ waiting' = <<>>
  /\ handed' = NoPacket /\ clearing' = FALSE
  /\ overtaken' = 0 /\ late' = 0
  /\ Buffer!Restart
  /\ queued' = {} /\ played' = <<>> /\ due' = <<>>
  /\ UNCHANGED <<networkVars, sent, boundVars>>

Next ==
  \/ HostStep \/ Join
  \/ \E m \in wire : Hear(m)
  \/ FinishReceive
  \/ \E o \in Operators : Operate(o)
  \/ Clear
  \/ FetchPacket \/ PushPacket \/ SchedulePacket \/ Play
  \/ Restart

Spec == Init /\ [][Next]_vars

\* The listener's loops go on.
FairSpec ==
  /\ Spec
  /\ WF_vars(FetchPacket \/ PushPacket) /\ WF_vars(SchedulePacket) /\ WF_vars(Play)

-----------------------------------------------------------------------------

\* The speaker gets packets in the order the host captured them and none twice,
\* though datagrams are repeated and overtake each other, until the application is
\* started again; a later packet comes first only where the offset, or a timeline
\* anchored anew, made it due earlier (jitter_buffer.rs:107-253,
\* playback_queue.rs:47-60).
PlayedInOrder ==
  \A i, j \in DOMAIN played : i < j =>
    \/ played[i] < played[j]
    \/ played[i] > played[j] /\ due[i] < due[j]

\* A packet too large for the engine is never played, although the host's
\* enqueue() lets it pass (engine.rs:252, engine.rs:302-307).
NothingOversized ==
  \A p \in Oversized :
    /\ p \notin pending
    /\ \A i \in DOMAIN waiting : waiting[i] # p
    /\ \A item \in queued : item.packet # p

\* However many calls of receive_packet() race a stop() and however many operations
\* overwrite each other's state: while the engine is stopped, what it has queued and
\* what it may yet queue are packets of calls that were under way when it was
\* stopped, one of each (engine.rs:189-197, engine.rs:298-309).
StoppedTakesOnlyOvertaken ==
  engine = "stopped" => late + Cardinality(UnderWay) <= overtaken

\* What the engine took leaves the listener, played or dropped on the way, also
\* when the engine is paused or stopped meanwhile: dequeue() and the crates behind
\* it look at no state of the engine (engine.rs:276-278).  A stream ends here
\* with MaxSeq, so every stage is empty again and again.
NothingLingers ==
  []<>(waiting = <<>> /\ handed = NoPacket /\ pending = {} /\ queued = {})

=============================================================================
