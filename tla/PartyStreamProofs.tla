------------------------- MODULE PartyStreamProofs -------------------------
(***************************************************************************)
(* Proofs that a listener plays a stream in order, that nothing too large  *)
(* is played and that a stopped engine takes only packets of calls that    *)
(* the stop overtook, for any number of packets, calls and operations, any *)
(* capacity and any network.                                               *)
(***************************************************************************)
EXTENDS PartyStream, SequenceTheorems, FiniteSetTheorems, TLAPS

\* Nothing that waits in the jitter buffer lies below its floor.
PendingAboveFloor ==
  /\ floor \in Nat /\ pending \subseteq Nat
  /\ \A s \in pending : s >= floor

\* What is queued has left the jitter buffer, once.
QueuedBelowFloor ==
  /\ \A item \in queued :
       item.packet \in Nat /\ item.deadline \in Int /\ item.packet < floor
  /\ \A a, b \in queued : a.packet = b.packet => a = b

\* Packet p, due at d, may be played before item is.
Before(p, d, item) == p # item.packet /\ (p < item.packet \/ d < item.deadline)

\* What was played may precede what is queued, and precedes all that is to come.
PlayedFirst ==
  /\ played \in Seq(Nat) /\ due \in Seq(Int) /\ Len(due) = Len(played)
  /\ \A i \in 1..Len(played) : played[i] < floor
  /\ \A i \in 1..Len(played) : \A item \in queued : Before(played[i], due[i], item)
  /\ \A i, j \in 1..Len(played) : i < j =>
       \/ played[i] < played[j]
       \/ played[i] > played[j] /\ due[i] < due[j]

StreamInv == PendingAboveFloor /\ QueuedBelowFloor /\ PlayedFirst

\* The packet that is played may precede those that stay queued.
LEMMA FirstIsFirst ==
  ASSUME QueuedBelowFloor, NEW item \in queued,
         \A other \in queued : Scheduler!Precedes(item, other)
  PROVE  \A other \in queued \ {item} : Before(item.packet, item.deadline, other)
BY DEF QueuedBelowFloor, Scheduler!Precedes, Before

LEMMA PushStep ==
  ASSUME StreamInv, PushPacket
  PROVE  StreamInv'
<1>1. UNCHANGED <<queued, played, due>>
  BY DEF PushPacket
<1>2. CASE UNCHANGED <<pending, floor, out>>
  BY <1>1, <1>2 DEF StreamInv, PendingAboveFloor, QueuedBelowFloor, PlayedFirst
<1>3. CASE \E dropped \in SUBSET pending : Buffer!Accept(handed, dropped)
  <2>1. PICK dropped \in SUBSET pending : Buffer!Accept(handed, dropped)
    BY <1>3
  <2>2. /\ handed \in 0..MaxSeq /\ handed >= floor /\ floor' = floor
        /\ pending' = (pending \ dropped) \cup {handed}
    BY <2>1 DEF Buffer!Accept, Buffer!SeqNum
  <2>3. MaxSeq \in Nat \/ 0..MaxSeq \subseteq Nat
    OBVIOUS
  <2>4. PendingAboveFloor'
    BY <2>2, <2>3 DEF StreamInv, PendingAboveFloor
  <2> QED
    BY <1>1, <2>2, <2>4 DEF StreamInv, QueuedBelowFloor, PlayedFirst
<1> QED
  BY <1>2, <1>3 DEF PushPacket

LEMMA ScheduleStep ==
  ASSUME StreamInv, SchedulePacket
  PROVE  StreamInv'
<1>1. PICK dropped \in SUBSET pending, s \in pending :
        /\ Buffer!Deliver(s, dropped)
        /\ \/ \E offset \in Offsets : Scheduler!Queue(s, s * Gap + offset)
           \/ UNCHANGED <<queued, played>>
  BY DEF SchedulePacket
<1>2. /\ s \in Nat /\ s >= floor /\ floor \in Nat /\ floor' = s + 1
      /\ pending' = pending \ (dropped \cup {s})
      /\ \A t \in pending \ dropped : s <= t
  BY <1>1 DEF StreamInv, PendingAboveFloor, Buffer!Deliver, Buffer!IsLowest
<1>3. PendingAboveFloor'
  BY <1>2 DEF StreamInv, PendingAboveFloor
<1>4. due' = due
  BY DEF SchedulePacket
<1>5. \A i \in 1..Len(played) : played[i] \in Nat /\ played[i] < s
  <2>1. \A i \in 1..Len(played) : played[i] \in Nat
    BY ElementOfSeq DEF StreamInv, PlayedFirst
  <2> QED
    BY <1>2, <2>1 DEF StreamInv, PlayedFirst
<1>6. CASE UNCHANGED <<queued, played>>
  <2>1. QueuedBelowFloor'
    BY <1>2, <1>6 DEF StreamInv, QueuedBelowFloor
  <2>2. PlayedFirst'
    BY <1>2, <1>4, <1>5, <1>6 DEF StreamInv, PlayedFirst, Before
  <2> QED
    BY <1>3, <2>1, <2>2 DEF StreamInv
<1>7. ASSUME NEW offset \in Offsets, Scheduler!Queue(s, s * Gap + offset)
      PROVE  StreamInv'
  <2> DEFINE deadline == s * Gap + offset
             new == [packet |-> s, deadline |-> deadline]
  <2>1. played' = played /\ queued' = queued \cup {new}
    BY <1>7 DEF Scheduler!Queue
  <2>2. deadline \in Int
    BY <1>2, StreamAssumption DEF StreamAssumption
  <2> HIDE DEF deadline
  <2>3. new.packet = s /\ new.deadline \in Int
    BY <2>2
  <2> HIDE DEF new
  <2>4. QueuedBelowFloor'
    <3>1. \A item \in queued' :
            item.packet \in Nat /\ item.deadline \in Int /\ item.packet < floor'
      BY <1>2, <2>1, <2>3 DEF StreamInv, QueuedBelowFloor
    <3>2. \A a, b \in queued' : a.packet = b.packet => a = b
      BY <1>2, <2>1, <2>3 DEF StreamInv, QueuedBelowFloor
    <3> QED
      BY <3>1, <3>2 DEF QueuedBelowFloor
  <2>5. \A i \in 1..Len(played) : Before(played[i], due[i], new)
    BY <1>2, <1>5, <2>3 DEF Before
  <2>6. PlayedFirst'
    <3>1. \A i \in 1..Len(played) : \A item \in queued' : Before(played[i], due[i], item)
      BY <2>1, <2>5 DEF StreamInv, PlayedFirst
    <3>2. \A i \in 1..Len(played) : played[i] < floor'
      BY <1>2, <1>5
    <3> QED
      BY <1>4, <2>1, <3>1, <3>2 DEF StreamInv, PlayedFirst, Before
  <2> QED
    BY <1>3, <2>4, <2>6 DEF StreamInv
<1> QED
  BY <1>1, <1>6, <1>7

LEMMA PlayStep ==
  ASSUME StreamInv, Play
  PROVE  StreamInv'
<1>1. PICK item \in queued : Scheduler!Play(item) /\ due' = Append(due, item.deadline)
  BY DEF Play
<1>2. /\ queued' = queued \ {item} /\ played' = Append(played, item.packet)
      /\ \A other \in queued : Scheduler!Precedes(item, other)
      /\ UNCHANGED <<pending, floor>>
  BY <1>1 DEF Scheduler!Play, Play
<1>3. \A other \in queued \ {item} : Before(item.packet, item.deadline, other)
  BY <1>2, FirstIsFirst DEF StreamInv
<1>4. /\ item.packet \in Nat /\ item.packet < floor /\ item.deadline \in Int
      /\ played \in Seq(Nat) /\ due \in Seq(Int) /\ Len(due) = Len(played)
  BY DEF StreamInv, QueuedBelowFloor, PlayedFirst
<1>5. /\ PendingAboveFloor' /\ QueuedBelowFloor'
  BY <1>2 DEF StreamInv, PendingAboveFloor, QueuedBelowFloor
<1>6. PlayedFirst'
  <2> DEFINE p == item.packet
             d == item.deadline
             n == Len(played)
             longer == Append(played, p)
             dues == Append(due, d)
  <2>0. p \in Nat /\ p < floor /\ d \in Int
    BY <1>4
  <2> HIDE DEF p, d
  <2>1. /\ longer \in Seq(Nat) /\ Len(longer) = n + 1 /\ n \in Nat
        /\ longer[n + 1] = p
        /\ \A i \in 1..n : longer[i] = played[i]
    BY <1>4, <2>0
  <2>2. /\ dues \in Seq(Int) /\ Len(dues) = n + 1
        /\ dues[n + 1] = d
        /\ \A i \in 1..n : dues[i] = due[i]
    BY <1>4, <2>0
  <2>3. \A i \in 1..n : Before(played[i], due[i], item) /\ played[i] < floor
    BY DEF StreamInv, PlayedFirst
  <2>4. \A i, j \in 1..n : i < j =>
          \/ played[i] < played[j]
          \/ played[i] > played[j] /\ due[i] < due[j]
    BY DEF StreamInv, PlayedFirst
  <2>5. \A i \in 1..n : \A other \in queued : Before(played[i], due[i], other)
    BY DEF StreamInv, PlayedFirst
  <2>6. \A i \in 1..n : played[i] \in Nat
    BY <1>4, ElementOfSeq
  <2> HIDE DEF longer, dues, n
  <2>7. \A i \in 1..Len(longer) : i \in 1..n \/ i = n + 1
    BY <2>1
  <2>8. \A i \in 1..Len(longer) : longer[i] < floor
    BY <2>0, <2>1, <2>3, <2>7
  <2>9. \A i \in 1..Len(longer) : \A other \in queued' : Before(longer[i], dues[i], other)
    BY <1>2, <1>3, <2>1, <2>2, <2>5, <2>7 DEF p, d
  <2>10. \A i, j \in 1..Len(longer) : i < j =>
           \/ longer[i] < longer[j]
           \/ longer[i] > longer[j] /\ dues[i] < dues[j]
    <3> SUFFICES ASSUME NEW i \in 1..Len(longer), NEW j \in 1..Len(longer), i < j
                 PROVE  \/ longer[i] < longer[j]
                        \/ longer[i] > longer[j] /\ dues[i] < dues[j]
      OBVIOUS
    <3>1. i \in 1..n
      BY <2>1
    <3>2. CASE j = n + 1
      <4>1. played[i] # p /\ (played[i] < p \/ due[i] < d)
        BY <2>3, <3>1 DEF Before, p, d
      <4> QED
        BY <2>0, <2>1, <2>2, <2>6, <3>1, <3>2, <4>1
    <3>3. CASE j \in 1..n
      BY <2>1, <2>2, <2>4, <3>1, <3>3
    <3> QED
      BY <2>7, <3>2, <3>3
  <2> QED
    BY <1>1, <1>2, <2>1, <2>2, <2>8, <2>9, <2>10 DEF PlayedFirst, longer, dues, p, d
<1> QED
  BY <1>5, <1>6 DEF StreamInv

\* When all of the application is new, nothing waits and nothing was played.
LEMMA EmptyStream ==
  ASSUME pending = {}, floor = 0, queued = {}, played = <<>>, due = <<>>
  PROVE  StreamInv
BY DEF StreamInv, PendingAboveFloor, QueuedBelowFloor, PlayedFirst

LEMMA StreamStep == StreamInv /\ [Next]_vars => StreamInv'
<1> SUFFICES ASSUME StreamInv, [Next]_vars PROVE StreamInv'
  OBVIOUS
<1>1. CASE UNCHANGED listenerVars
  BY <1>1 DEF listenerVars, StreamInv, PendingAboveFloor, QueuedBelowFloor,
     PlayedFirst
<1>2. CASE PushPacket
  BY <1>2, PushStep
<1>3. CASE SchedulePacket
  BY <1>3, ScheduleStep
<1>4. CASE Play
  BY <1>4, PlayStep
<1>5. CASE Restart
  <2>1. pending' = {} /\ floor' = 0 /\ queued' = {} /\ played' = <<>> /\ due' = <<>>
    BY <1>5 DEF Restart, Buffer!Restart
  <2> QED
    BY <2>1 DEF StreamInv, PendingAboveFloor, QueuedBelowFloor, PlayedFirst
<1>6. CASE HostStep \/ Join \/ FinishReceive \/ Clear \/ FetchPacket
  BY <1>1, <1>6 DEF HostStep, Join, FinishReceive, Clear, FetchPacket
<1>7. ASSUME NEW m, Hear(m) PROVE StreamInv'
  BY <1>1, <1>7 DEF Hear
<1>8. ASSUME NEW o, Operate(o) PROVE StreamInv'
  BY <1>1, <1>8 DEF Operate
<1>9. CASE UNCHANGED vars
  BY <1>1, <1>9 DEF vars
<1> QED
  BY <1>2, <1>3, <1>4, <1>5, <1>6, <1>7, <1>8, <1>9 DEF Next

\* Whatever the network repeats, reorders or loses, a listener plays no packet twice,
\* and a later packet before an earlier one only where the offset or the timeline
\* made it due earlier (jitter_buffer.rs:107-253, playback_queue.rs:47-60).
THEOREM StreamIsPlayedInOrder == Spec => []PlayedInOrder
<1>1. Init => StreamInv
  BY EmptyStream DEF Init, Buffer!Init, Scheduler!Init
<1>2. StreamInv => PlayedInOrder
  BY DEF StreamInv, PlayedFirst, PlayedInOrder
<1> QED
  BY <1>1, <1>2, StreamStep, PTL DEF Spec

-----------------------------------------------------------------------------
(* What is too large, and what comes after a stop *)

\* What a datagram may hold, and what of it passes receive_packet().
Bodies == Nat \cup {JoinRequest}
Fit == Bodies \ Oversized

\* Only what fits goes beyond receive_packet(), stage by stage.
OnTheWayFits ==
  /\ sent \in Nat
  /\ \A m \in wire : m.body \in Bodies
  /\ arriving \in [Receivers -> Bodies \cup {NoPacket}]

BeyondFits ==
  /\ waiting \in Seq(Fit)
  /\ handed # NoPacket => handed \in Fit
  /\ \A p \in pending : p \notin Oversized
  /\ \A item \in queued : item.packet \notin Oversized

FitInv == OnTheWayFits /\ BeyondFits

LEMMA HostFits == FitInv /\ HostStep => FitInv'
<1> SUFFICES ASSUME FitInv, HostStep PROVE FitInv'
  OBVIOUS
<1>1. BeyondFits'
  BY DEF HostStep, inboundVars, listenerVars, FitInv, BeyondFits
<1>2. sent' \in Nat /\ arriving' = arriving
  BY DEF HostStep, Broadcast, inboundVars, FitInv, OnTheWayFits
<1>3. \A m \in wire' : m.body \in Bodies
  <2>1. CASE Broadcast
    BY <2>1 DEF Broadcast, BroadcastToClients, Datagram, FitInv, OnTheWayFits, Bodies
  <2>2. CASE wire' \subseteq wire
    BY <2>2 DEF FitInv, OnTheWayFits
  <2> QED
    BY <2>1, <2>2 DEF HostStep, StartHostMode, Close, OnMessage, Arrives
<1> QED
  BY <1>1, <1>2, <1>3 DEF FitInv, OnTheWayFits

LEMMA ListenerFits ==
  ASSUME FitInv,
         \/ Join \/ \E m \in wire : Hear(m)
         \/ \E o \in Operators : Operate(o)
  PROVE  FitInv'
<1>1. CASE Join
  <2>1. \A m \in wire' : m.body \in Bodies
    BY <1>1 DEF Join, FoundHost, Datagram, FitInv, OnTheWayFits, Bodies
  <2> QED
    BY <1>1, <2>1 DEF Join, inboundVars, listenerVars, FitInv, OnTheWayFits, BeyondFits
<1>2. ASSUME NEW m \in wire, Hear(m) PROVE FitInv'
  <2>1. wire' \subseteq wire /\ m.body \in Bodies
    BY <1>2 DEF Hear, Arrives, FitInv, OnTheWayFits
  <2>2. /\ arriving' \in [Receivers -> Bodies \cup {NoPacket}]
        /\ UNCHANGED <<waiting, handed>>
    BY <1>2, <2>1 DEF Hear, BeginReceive, RefuseReceive, inboundVars, FitInv, OnTheWayFits
  <2> QED
    BY <1>2, <2>1, <2>2 DEF Hear, listenerVars, FitInv, OnTheWayFits, BeyondFits
<1>3. ASSUME NEW o \in Operators, Operate(o) PROVE FitInv'
  BY <1>3 DEF Operate, BeginLifecycle, SendState, networkVars, listenerVars, FitInv,
     OnTheWayFits, BeyondFits
<1> QED
  BY <1>1, <1>2, <1>3

\* What receive_packet() queues fits, and so does all that leaves the queue.
LEMMA QueueFits ==
  ASSUME FitInv, FinishReceive \/ Clear \/ FetchPacket
  PROVE  FitInv'
<1>1. UNCHANGED <<networkVars, sent, listenerVars>>
  BY DEF FinishReceive, Clear, FetchPacket
<1>2. waiting \in Seq(Fit)
  BY DEF FitInv, BeyondFits
<1>3. waiting # <<>> => Head(waiting) \in Fit /\ Tail(waiting) \in Seq(Fit)
  BY <1>2, HeadTailProperties
<1>4. ASSUME NEW r \in Receivers, Receive(r) PROVE FitInv'
  <2>1. /\ arriving[r] \in Fit /\ waiting' = Append(waiting, arriving[r])
        /\ arriving' \in [Receivers -> Bodies \cup {NoPacket}] /\ UNCHANGED handed
    BY <1>4 DEF Receive, EndReceive, TooLarge, Inbound!Accept, FitInv, OnTheWayFits, Fit
  <2>2. waiting' \in Seq(Fit)
    BY <1>2, <2>1, AppendProperties
  <2> QED
    BY <1>1, <2>1, <2>2 DEF networkVars, listenerVars, FitInv, OnTheWayFits, BeyondFits
<1>5. ASSUME \/ \E r \in Receivers : Refuse(r)
             \/ BeginClear \/ EndClear
      PROVE  FitInv'
  BY <1>1, <1>5 DEF Refuse, EndReceive, BeginClear, EndClear, networkVars, listenerVars,
     FitInv, OnTheWayFits, BeyondFits
<1>6. CASE ClearOne
  BY <1>1, <1>3, <1>6 DEF ClearOne, Inbound!Discard, networkVars, listenerVars, FitInv,
     OnTheWayFits, BeyondFits
<1>7. CASE Dequeue
  BY <1>1, <1>3, <1>7 DEF Dequeue, Inbound!Take, networkVars, listenerVars, FitInv,
     OnTheWayFits, BeyondFits
<1> QED
  BY <1>4, <1>5, <1>6, <1>7 DEF FinishReceive, Clear, FetchPacket

\* The stages behind the engine hold only what it handed out.
LEMMA PlaybackFits ==
  ASSUME FitInv, PushPacket \/ SchedulePacket \/ Play \/ Restart
  PROVE  FitInv'
<1>1. CASE PushPacket
  <2>1. \A p \in pending' : p \in pending \/ p = handed
    BY <1>1 DEF PushPacket, Buffer!Accept
  <2>2. handed \in Fit /\ handed' = NoPacket
    BY <1>1 DEF PushPacket, FitInv, BeyondFits
  <2>3. BeyondFits'
    BY <1>1, <2>1, <2>2 DEF PushPacket, FitInv, BeyondFits, Fit
  <2> QED
    BY <1>1, <2>3 DEF PushPacket, networkVars, FitInv, OnTheWayFits
<1>2. CASE SchedulePacket
  <2>1. PICK dropped \in SUBSET pending, s \in pending :
          /\ Buffer!Deliver(s, dropped)
          /\ \/ \E offset \in Offsets : Scheduler!Queue(s, s * Gap + offset)
             \/ UNCHANGED <<queued, played>>
    BY <1>2 DEF SchedulePacket
  <2>2. /\ pending' \subseteq pending
        /\ \A item \in queued' : item \in queued \/ item.packet = s
    BY <2>1 DEF Buffer!Deliver, Scheduler!Queue
  <2>3. BeyondFits'
    BY <1>2, <2>2 DEF SchedulePacket, inboundVars, FitInv, BeyondFits
  <2> QED
    BY <1>2, <2>3 DEF SchedulePacket, networkVars, inboundVars, FitInv, OnTheWayFits
<1>3. CASE Play
  <2>1. queued' \subseteq queued
    BY <1>3 DEF Play, Scheduler!Play
  <2> QED
    BY <1>3, <2>1 DEF Play, networkVars, inboundVars, FitInv, OnTheWayFits, BeyondFits
<1>4. CASE Restart
  BY <1>4 DEF Restart, Buffer!Restart, networkVars, FitInv, OnTheWayFits, BeyondFits
<1> QED
  BY <1>1, <1>2, <1>3, <1>4

LEMMA FitStep == FitInv /\ [Next]_vars => FitInv'
<1> SUFFICES ASSUME FitInv, [Next]_vars PROVE FitInv'
  OBVIOUS
<1>1. CASE UNCHANGED vars
  BY <1>1 DEF vars, networkVars, inboundVars, listenerVars, FitInv, OnTheWayFits,
     BeyondFits
<1> QED
  BY <1>1, HostFits, ListenerFits, QueueFits, PlaybackFits DEF Next

\* A packet too large for the engine is never played, although the host's
\* enqueue() lets it pass (engine.rs:252, engine.rs:302-307).
THEOREM LargeStaysOut == Spec => []NothingOversized
<1>1. Init => FitInv
  BY DEF Init, NetworkInit, InboundInit, Inbound!Init, Buffer!Init, Scheduler!Init,
     FitInv, OnTheWayFits, BeyondFits
<1>2. FitInv => NothingOversized
  <2> SUFFICES ASSUME FitInv, NEW p \in Oversized
               PROVE  /\ p \notin pending
                      /\ \A i \in DOMAIN waiting : waiting[i] # p
                      /\ \A item \in queued : item.packet # p
    BY DEF NothingOversized
  <2>1. \A i \in DOMAIN waiting : waiting[i] \in Fit
    BY ElementOfSeq DEF FitInv, BeyondFits
  <2> QED
    BY <2>1 DEF FitInv, BeyondFits, Fit
<1> QED
  BY <1>1, <1>2, FitStep, PTL DEF Spec

\* While the engine is stopped: what it has queued since, and what it may yet queue.
LateInv ==
  /\ arriving = [r \in Receivers |-> arriving[r]]
  /\ late \in Nat /\ overtaken \in Nat
  /\ engine = "stopped" => late + Cardinality(UnderWay) <= overtaken

\* The calls under way are finitely many, and one fewer when one of them ends.
LEMMA UnderWayIsFinite == IsFiniteSet(UnderWay) /\ Cardinality(UnderWay) \in Nat
<1>1. IsFiniteSet(Receivers) /\ UnderWay \subseteq Receivers
  BY InboundAssumption DEF InboundAssumption, UnderWay
<1> QED
  BY <1>1, FS_Subset, FS_CardinalityType

LEMMA OneFewer ==
  ASSUME LateInv, NEW r \in Receivers, EndReceive(r)
  PROVE  Cardinality(UnderWay') = Cardinality(UnderWay) - 1
<1>1. UnderWay' = UnderWay \ {r} /\ r \in UnderWay
  BY DEF LateInv, EndReceive, UnderWay
<1> QED
  BY <1>1, UnderWayIsFinite, FS_RemoveElement

\* However many calls of receive_packet() race a stop(), and however many operations
\* overwrite each other's state: what a stopped engine queues are packets of calls
\* that were under way when it was stopped, one of each; whoever reads the state
\* later is refused (engine.rs:189-197, engine.rs:298-309).
THEOREM OnlyOvertakenAfterStop == Spec => []StoppedTakesOnlyOvertaken
<1>1. Init => LateInv
  <2> SUFFICES ASSUME Init PROVE LateInv
    OBVIOUS
  <2>1. /\ arriving = [r \in Receivers |-> arriving[r]]
        /\ UnderWay = {} /\ late = 0 /\ overtaken = 0
    BY DEF Init, InboundInit, UnderWay
  <2> QED
    BY <2>1, FS_EmptySet DEF LateInv
<1>2. LateInv => StoppedTakesOnlyOvertaken
  BY DEF LateInv, StoppedTakesOnlyOvertaken
<1>3. LateInv /\ [Next]_vars => LateInv'
  <2> SUFFICES ASSUME LateInv, [Next]_vars PROVE LateInv'
    OBVIOUS
  <2>1. CASE UNCHANGED <<engine, arriving, inboundHistory>>
    BY <2>1 DEF LateInv, UnderWay, inboundHistory
  <2>2. ASSUME NEW r \in Receivers, Receive(r) \/ Refuse(r) PROVE LateInv'
    <3> DEFINE n == Cardinality(UnderWay)
    <3>1. EndReceive(r) /\ UNCHANGED <<engine, overtaken>>
      BY <2>2 DEF Receive, Refuse, inboundHistory
    <3>7. arriving' = [x \in Receivers |-> arriving'[x]]
      BY <3>1 DEF EndReceive, LateInv
    <3>2. n \in Nat /\ n' = n - 1
      BY <3>1, OneFewer, UnderWayIsFinite
    <3>3. late' = late \/ late' = late + 1
      BY <2>2 DEF Receive, Refuse, inboundHistory
    <3>4. engine = "stopped" => late + n <= overtaken
      BY DEF LateInv
    <3>5. late \in Nat /\ overtaken \in Nat
      BY DEF LateInv
    <3>6. engine' = "stopped" => late' + n' <= overtaken'
      <4> HIDE DEF n
      <4> QED
        BY <3>1, <3>2, <3>3, <3>4, <3>5
    <3> QED
      BY <3>1, <3>3, <3>5, <3>6, <3>7 DEF LateInv
  <2>3. ASSUME NEW m \in wire, Hear(m) PROVE LateInv'
    <3>1. CASE engine = "stopped"
      <4>1. UNCHANGED <<engine, arriving, inboundHistory>>
        BY <2>3, <3>1 DEF Hear, BeginReceive, RefuseReceive, inboundVars
      <4> QED
        BY <2>1, <4>1
    <3>2. CASE engine # "stopped"
      BY <2>3, <3>2 DEF Hear, BeginReceive, RefuseReceive, inboundVars, inboundHistory,
         LateInv
    <3> QED
      BY <3>1, <3>2
  <2>4. ASSUME NEW o \in Operators, Operate(o) PROVE LateInv'
    <3>1. ASSUME SendState(o) PROVE LateInv'
      <4> DEFINE n == Cardinality(UnderWay)
      <4>1. n \in Nat /\ n' = n
        BY <3>1, UnderWayIsFinite DEF SendState, UnderWay
      <4>2. CASE engine = "stopped" /\ sending[o] = "stopped"
        BY <3>1, <4>1, <4>2 DEF SendState, inboundHistory, LateInv
      <4>3. CASE ~(engine = "stopped" /\ sending[o] = "stopped")
        <5>1. /\ late' = 0 /\ overtaken' \in {0, n}
              /\ engine' = "stopped" => overtaken' = n
          BY <3>1, <4>3 DEF SendState
        <5>3. arriving' = arriving
          BY <3>1 DEF SendState
        <5>2. engine' = "stopped" => late' + n' <= overtaken'
          <6> HIDE DEF n
          <6> QED
            BY <4>1, <5>1
        <5> QED
          BY <4>1, <5>1, <5>2, <5>3 DEF LateInv
      <4> QED
        BY <4>2, <4>3
    <3>2. ASSUME NEW state, BeginLifecycle(o, state) PROVE LateInv'
      BY <2>1, <3>2 DEF BeginLifecycle
    <3> QED
      BY <2>4, <3>1, <3>2 DEF Operate
  <2>5. CASE Restart
    <3>1. /\ arriving' = [r \in Receivers |-> NoPacket]
          /\ UnderWay' = {} /\ late' = 0 /\ overtaken' = 0
      BY <2>5 DEF Restart, UnderWay
    <3> QED
      BY <3>1, FS_EmptySet DEF LateInv
  <2>6. CASE Clear \/ FetchPacket
    BY <2>1, <2>6 DEF Clear, BeginClear, ClearOne, EndClear, FetchPacket, Dequeue
  <2>7. CASE HostStep \/ Join \/ PushPacket \/ SchedulePacket \/ Play
    BY <2>1, <2>7 DEF HostStep, Join, PushPacket, SchedulePacket, Play, inboundVars
  <2> QED
    BY <2>1, <2>2, <2>3, <2>4, <2>5, <2>6, <2>7 DEF Next, FinishReceive, vars, inboundVars
<1> QED
  BY <1>1, <1>2, <1>3, PTL DEF Spec

=============================================================================
