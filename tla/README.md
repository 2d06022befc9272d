# EchoSync: models, checks and proofs

EchoSync plays the same music on several phones at once. One device captures
audio, the others receive packets over the local network, put them in order,
wait until it is time, and play them. This directory holds TLA+ models of the
parts of that program whose correctness depends on ordering, timing and
concurrency, the TLC configurations that check them on small instances, and
proofs, checked by TLAPS, for every configuration. Every safety property that a passing run
checks is proved: of the jitter buffer, the packet queue, the streaming engine, the
playback scheduler, the clock synchronizer, the rooms, and the stream they make.

The models are read from the code under `src/`, never from its documentation:
where the two disagree the model follows the code, and a run that is expected to
be violated shows the disagreement.

## 1. The system and its parts

    microphone / file                                         speaker
          |                                                      ^
          v                                                      |
    StreamingEngine  --transport-->  network  --> receive_packet |
    (outbound queue, workers)                        |           |
                                                     v           |
                                             BufferManager   next_packet
                                             (jitter buffer)     |
                                                     |           |
                                                     v           |
    Synchronizer  ---- current_offset ---->  PlaybackScheduler --+
    (clock offset, drift)                    (timeline, queue)

    rooms:  Flutter app  <-- HTTP, socket.io -->  room backend (node)
                         <-- HTTP -->             API server (rust)
    devices: network engine (node, UDP discovery)

The crates do not call each other except for `PlaybackScheduler`, which holds a
`Synchronizer` and awaits its offset. Everything else is glue that the
repository leaves to a caller: packets go from one crate to the next by value,
and no module of the repository composes the whole pipeline yet.

| Part | Source | State | Operations | What is hard |
|---|---|---|---|---|
| Buffer layer | `echosync/buffer/src/core/buffer` | ordered map of packets, watermark, bounded duplicate cache and its set, target delay, counters, an atomic length | push, pop, clear, reset, set_target_delay | duplicates and reordering against a cache that forgets; saturation at `u64::MAX`; overflow and age evict while delivery goes on; the atomic length is read without the mutex |
| PacketQueue | `echosync/streaming/src/queue.rs` | bounded channel, its receiver behind an async mutex, an atomic length | enqueue, dequeue, clear | the length is updated after the channel; `dequeue()` waits with the mutex held and may be dropped by a `select!` |
| StreamingEngine | `echosync/streaming/src/engine.rs` | lifecycle state in a watch channel, worker handles, two packet queues, counters | start, stop, pause, resume, enqueue, dequeue, send_packet, receive_packet, clear | read-then-send lifecycle on a `Clone` engine; workers that hold a packet when the state changes; retries; `stop()` awaits with a mutex held |
| PlaybackScheduler | `echosync/scheduler/src` | running flag, timeline (anchor, clock), heap of deadlines and set of ids, counters | start, stop, schedule_packet, next_packet, cancel_packet, clear | three locks taken one after another; the timeline is reset while packets stay queued; the offset moves under the packets |
| Clock synchronization | `echosync/buffer/src/core/sync` | offset, target offset, drift, regression window, running flag | start, stop, synchronize, update | a refused measurement has already moved part of the state; start raises the flag before the reset |
| API server | `echosync/api_server` | rooms by code behind a mutex, a thread per connection | create, look up | codes from a millisecond clock; a request cut short is handled all the same |
| Room backend | `backend` | rooms by code, socket rooms | create, join, look up; join-room, leave-room, start-party | HTTP answers and socket events travel apart; a late join is sent again |
| Flutter rooms | `frontend/lib` (room services, two forms, waiting room) | the screen in front and those still mounted behind it, the room each shows, the one socket that `SocketService` holds | tap create, join, start; answer, time-out; update, party started; leave, dispose | a waiting room shows an answer and follows a socket that connects later, breaks and reconnects; a form that is still mounted takes a second answer, and the disposal of one waiting room closes the socket of the other |
| Network engine | `network_engine` | client addresses, devices | host mode, client mode, broadcast, close | datagrams are lost, repeated and reordered; nobody is forgotten |

What makes each part correct:

* **Buffer layer.** Between two resets the consumer sees sequence numbers only
  going up; nothing delivered or flushed is buffered again; every packet
  accepted is accounted for, and so is every gap; what `size()` reads without the
  mutex is off by no more than the operation under way; nothing stays for ever.
* **PacketQueue.** No packet is lost or seen twice, also when a call of
  `dequeue()` is dropped; packets leave in order; the length is right whenever
  nobody is between two steps.
* **StreamingEngine.** Every packet ends up at the transport once, or counted as
  dropped or failed once; a stopped engine is quiet; every worker alive is
  awaited by `stop()`; `stop()` returns; a running engine empties its queue.
* **PlaybackScheduler.** Packets come out in order of capture, unless a fall of the
  offset stamped a later one earlier, and not before their deadline; the set of ids is
  exactly the heap's; every packet is counted once.
* **Clock synchronization.** The offset moves gently and only towards a
  measurement that was accepted; a session starts from a blank clock, though a
  `synchronize()` that waited for the lock since the session before may be the first
  to write on it (section 6).
* **Rooms.** A name is listed once though joins are repeated; an answer is to the
  request a screen awaits; a list that is shown never loses a member, and ends as the
  last broadcast said that its socket was due; a waiting room opens a player only for
  the party of its own room.
* **From host to speaker.** Whatever the network does, packets are played in the
  order of capture unless a later one is due earlier, none twice, none oversized; a
  stopped engine takes only what was under way when it stopped; and no stage keeps a
  packet for ever.

## 2. The plan

Written in the order of what matters most to a listener.

1. *Done.* `OrderedDelivery` (abstract), `JitterBuffer` (detailed, refines it),
   and their proofs.
2. *Done.* `PacketQueue`, with `MCPacketQueue` as its environment, and
   `PacketQueueProofs`.
3. *Done.* `StreamingEngine`, which composes `PacketQueue` with lifecycle,
   workers and transport; `InboundPath`, its other half; and `EngineProofs`.
4. *Done.* `PlaybackScheduler`, and `PlaybackSchedulerProofs`.
5. *Done.* `Synchronizer`, and `SynchronizerProofs`.
6. *Done.* What the queue, the scheduler and the synchronizer promise, `BoundedFifo`,
   `Playout` and `SteadyClock`, and the refinements that show it, each one proved.
7. *Done.* `NetworkEngine`, and `PartyStream`, which composes it with
   `InboundPath` and the three abstract specifications.
8. *Done.* `RoomApi`, `RoomBackend`, `ApiServer`, and `WaitingRoom`, which composes
   them with the Flutter application; and `WaitingRoomProofs`.
9. Still open: the drift estimator's regression. The scheduler with its offset
   coming from `SteadyClock` would add nothing: in `PlaybackScheduler` the offset
   moves freely, which includes every way a synchronizer moves it.

`TypeOK` of the scheduler and the synchronizer is in no configuration: it says
nothing that the other invariants would not break on.

## 3. The modules and the code

### `OrderedDelivery`, `JitterBuffer` and their proofs

`JitterBuffer` models `BufferManager`, the `JitterBuffer` it guards and the
`PacketWindow` inside. `BufferManager` holds a standard mutex for the length of an
operation, but two things go on meanwhile: `size()` reads `approx_len` without the
mutex, and the clock runs. So an operation changes the buffer in one step, or in a
step for each packet it drains and each reading of the clock, and stores the length in
a last one (`StoreLen`), with which it lets the mutex go. `mutex` says what its holder
is at: it has `pushed` or `removed` and has the length yet to store, it is `evicting`
or `flushing`, or it is `free`.

| Action | Code |
|---|---|
| `PushPacket` (`Refuse`, `Store`) | `push_packet`, `insert_packet`: duplicate, watermark, overflow, jitter, adaptation of the delay |
| `BeginPop`, then `PopPacket` (`Spare`, `Evict`, `PopReady`, `PopNothing`) | `pop_packet`, `next_packet`: `evict_stale` reads the clock for each packet and spares or drops it; then the clock is read again, and the lowest packet returned if it has waited long enough |
| `BeginClear`, `FlushOne` | `clear`, `flush` |
| `Reset`, `SetTargetDelay` | `reset`, `set_target_delay` |
| `StoreLen` | the store of `approx_len` that ends push, pop, clear and reset |
| `Tick` | the clock: every buffered packet gets older, also while the mutex is held |

`judged` is how far `evict_stale` has come. The code lists the stale packets first and
drops them after; here each is dropped when it is judged, which nobody can see under
the mutex. `approx_len` is what the last store left there; it is stored and read with
`Relaxed`, so another thread may for a while read a value older still. Because of the two readings, a packet may be
handed over that went stale between them: the code promises nothing else, and so no
property forbids it.

Time is relative: a packet carries its age. Ages stop at `AgeCap`, beyond which
no comparison of the code can tell two ages apart. The exponentially weighted
jitter is floating-point; what reaches the state is the delay it asks for, so an
arrival chooses any member of `JitterHeadrooms`, and the step, saturation and
clamp of `adapt_target_delay` are modelled. `MaxSeq` stands for `u64::MAX`, and
sequence arithmetic saturates there as in the code.

`OrderedDelivery` is what the consumer relies on: pending packets, a floor, and
an output that only goes up. `JitterBuffer` refines it with `pending` the packets
buffered, `floor` one more than the last number passed.

### `BoundedFifo`, `PacketQueue`, `MCPacketQueue`, `PacketQueueProofs`

`TrySend` and `CountSend` are the two halves of `enqueue()`. A taker is a call of
`dequeue()` or `clear()`: `Request`, `Lock`, `Remove`, then `ReturnPacket` or
`FinishClear`, which adjust the length and let the mutex go. `Cancel` is the
`select!` of a worker dropping a `dequeue()` that waits, with or without the
mutex. The length is a natural number modulo `Modulus` (2^64 in the code).
`MCPacketQueue` adds callers and numbers the packets.

`BoundedFifo` is what a caller relies on: a bounded sequence, from which packets
are taken or discarded at the head. `ImplementsFifo` maps `waiting` to the channel
and `handed` to what the last `dequeue()` took, so a call that is cancelled, or one
that adjusts the length, is a stutter; `PacketQueueProofs` proves it.

### `StreamingEngine`, `MCStreamingEngine`, `EngineProofs`

The outbound queue is an instance of `PacketQueue` over variables of this
module. A lifecycle call is `Begin` (read the state, refuse or go on),
`SendState` (send the new state), then for `start()` `Spawn`, and for `stop()`
`LockHandles`, `Join` for each worker and `FinishStop`. A worker is `Look` (top
of the loop), `Dequeue` and `Changed` (the two branches of its `select!`, and the
wait of a paused worker), `TakePacket`, then `Hand`, `TimeOut`, `Unavailable` and
`Retry` of `deliver_to_transport`. `send_packet()` runs the same delivery
without the queue. The transport takes packets from its channel, or goes away.
The inbound queue is in `InboundPath`. Tasks, calls and packets share one space of
values; `NamesAssumption` keeps their names apart.

`EngineProofs` takes the queue's theorems over by `INSTANCE PacketQueueProofs`: what
the engine does to its outbound queue is a behaviour of `MCPacketQueue`.

### `Playout`, `PlaybackScheduler`, `MCPlaybackScheduler`, `PlaybackSchedulerProofs`

A call takes a lock at a time, and is a step for each. `schedule_packet()` is
`BeginSchedule` (flag and offset), `SetDeadline` or `Expire` (timeline),
`Enqueue` or `RefuseToQueue` (queue) and `RecordScheduled`; `next_packet()` is
`BeginNext` (flag and time), `Release` or `Underflow` (queue) and
`RecordPlayed`; `start()` is `Start` and `ResetTimeline`. Timestamps, offsets and
deadlines are integers of one unit; the offset's sum is clamped at zero and
durations are quantized as in `timeline.rs`. A *generation* is the life of a
timeline between two resets; it is history that no guard reads.

`Playout` is what a caller relies on: packets with deadlines, of which the
earliest is played first. `ImplementsPlayout` maps `queued` to the heap and
`played` to the packets released; the timeline, the flag and the counters are gone.
`PlaybackSchedulerProofs` proves it, and four properties of the detailed module. One
of them, `ReleasedInOrder`, asks something of the callers, `CapturedInOrder`. It asks
nothing of the offset, which moves by any amount at any time: a packet keeps as history
its *stamp*, the timestamp with the offset that its deadline is made of, and a packet
may be released before an older one only if its stamp is lower. Packets of two
generations are not compared, since their deadlines are counted on two clocks.

What the model narrows or leaves out of time:

* The clock does not move while the timeline's lock is held. The code reads it when it
  sets an anchor and again to judge lateness; only the first packet of a timeline could
  tell the two apart, if the lock were held for longer than `playback_latency`.
* The running flag is one step with what is read next, the offset or the time. The
  offset and the clock move freely, so nothing that another call does in between
  could not have come before or after both.
* Timestamps, durations and the clock are whole numbers of milliseconds; the fraction of
  the offset, which the code drops with the cast to `u64`, is none here.
* The clock stops at `MaxTime` (a bound), and `scheduled_at` and the averages, which no
  guard reads, are left out.

### `SteadyClock`, `Synchronizer`, `MCSynchronizer`, `SynchronizerProofs`

`synchronize()` and `update()` read a flag and then wait for the lock of the
`ClockManager`, under which they await nothing: two steps each, `BeginSync` and
`Sync` (`RefuseOffset`, `RefuseDrift` or `Accept`), `BeginUpdate` and `Update`.
`start()` is `Start` and `ResetClock`. `Step` is `correct_drift`'s: a fraction of
the distance, clamped. Offsets are integers, so the fraction is rounded up, as the
code's is zero only when the distance is (a `correction_rate` so small that the
product vanishes in an `f64` is left out). The regression over the samples is any
member of `Estimates`, zero with fewer than two. `applied` is history: the
measurements accepted as a target since the reset.

`SteadyClock` is what those who read `current_offset()` rely on: the first
measurement is taken as it is, and from then on the offset moves towards the newest
one in steps no longer than `max_correction_step`, never beyond it.
`ImplementsSteadyClock` maps each variable to itself: the flag, the regression, the
counters and the calls between their two steps are gone. A measurement refused for
its drift still moves the target: there the clock is left where it was.

### `RoomApi`, `RoomBackend`, `ApiServer`, `WaitingRoom`, `MCWaitingRoom`, `WaitingRoomProofs`

Two servers listen on port 5000 and answer the same application: the node backend
and the Rust API server. `RoomApi` is what they share, the table of rooms and the
requests and answers on their way; `server`, chosen at the start, says which one
runs.

| Module | Action | Code |
|---|---|---|
| `RoomBackend` | `CreateRoom`, `JoinRoom`, `GetRoom`, `RefuseRoom` | `createRoom`, `joinRoom`, `getRoom` of `roomController.js`, one step each, as node runs them |
| | `OnJoinRoom`, `OnStartParty`, `Disconnect` | `socketHandler.js` |
| `ApiServer` | `ReadCreate`, `Insert`, `Reply` | `read_http_request`, then `create_room` before and after the table's lock |
| | `ServeGet`, `NoRoute` | `get_room`; the joins there is no route for |
| `WaitingRoom` | `TapCreate`, `TapJoin`, `LookUp`, `GiveUp`, `Receive` | the forms and `RoomService`, with dio's time-out |
| | `EnterWaitingRoom`, `OnEvent`, `TapStart`, `Leave`, `Dispose` | `initState`, the callbacks, the button, the way back and `dispose` of the waiting room |
| | `Connect`, `Drop`, `ServeEvent`, `ServeStray` | `SocketService` and socket.io: an ordered connection that buffers, breaks and reconnects; what was on its way up when it ended may be handled yet |

A waiting room is known by its phone and the request whose answer it shows, and so is
the connection it opens. A screen that is replaced or left stays mounted until its
animation is over: a form takes another answer meanwhile, which replaces the waiting
room of the first (`EnterWaitingRoom`), and a waiting room goes on listening to its own
connection (`mounted`). `SocketService.instance` has room for one socket (`socket`), the
one opened last; `TapStart` emits on it, and `Dispose` of any waiting room closes it,
whosever it is, while the socket of the one disposed stays open with nobody listening
(`CutOff`). `Leave` and `Dispose` are two steps, with the animation between them. One
assumption is external: that `IO.io` gives each `connect()` a socket of its own;
`socket_io_client` (3.1.6 in `pubspec.lock`) is not in the repository.

A name is a member of a small set, a code a number below `IdSpace`. The room's
number is history that no guard reads: it tells two rooms with one code apart.
A request cut short reaches the Rust server only after its phone gave up on it;
`create_room` then takes default names. The node backend's routes are not in the
repository: a request is taken to reach the handler of its name.

### `NetworkEngine`, `InboundPath`, `PartyStream`, `PartyStreamProofs`

`NetworkEngine` is the node program: `StartHostMode`, `OnMessage` (any message makes
its sender a client and a device), `BroadcastToClients`, `Close`, and `FoundHost`,
the client's answer to a service found. `wire` is a set of datagrams; one may arrive
in any order, twice (`MaxRepeats`), or never.

`InboundPath` is `receive_packet()` in two steps (the state is read, then the packet
is refused or queued), the lifecycle operations in two as well (the state is read, then
the new one sent, whatever was sent in between), `dequeue()`, which looks at no state,
and the part of `clear()` that drains the inbound queue. The engine is `Clone` and its
operations take `&self`: any number of tasks, `Receivers` and `Operators`, may be
between the two steps. `overtaken` and `late` are history: the calls of
`receive_packet()` that were under way when the engine was stopped, and the packets
queued since.

`PartyStream` composes both with `OrderedDelivery` and `Playout`: a packet that
arrives goes to `receive_packet()`; `dequeue()` hands it to `push_packet()`; what
`pop_packet()` returns is scheduled; what `next_packet()` returns is played. Those
three loops are the comments' caller, not code of the repository, nor does the
client mode of the network engine hand on what it receives: they are the
assumptions of this module, marked external in the map. Each crate is its abstract
specification, so `PartyStream` holds for any crate that implements it. A packet's
deadline is its time of capture plus any of `Offsets`, chosen anew for each packet: that
is the synchronizer's offset, which steps and jumps, and the anchor of a timeline that
may be reset in mid-stream. `due` is history, the deadlines of the packets played.
`Restart` starts the listener again on a new port. `MCPartyStream` makes the tasks
symmetric.

The abstract specifications are mapped to the copies of the crates at the top level
of the repository, the detailed ones to those under `echosync/`; the code of the two
is the same line by line in what is mapped.

## 4. What the runs check

All instances are small enough to be explored completely.

| Run | Shows | Bounds, and why they are enough |
|---|---|---|
| `JitterBuffer` | types, order, no duplicates, exact cache, exact loss and packet accounting, what `size()` may read, refinement of `OrderedDelivery`; and that every packet leaves | sequence numbers 0..3 with 3 as `u64::MAX`, so saturation happens; a buffer of 2 and a cache of 2, so both overflow within 5 arrivals; delays 0..2 around a maximal age of 2, so a packet is young, due or stale at either reading of the clock |
| `PacketQueue` | no loss, no duplicate, order, mutual exclusion, the exact account of the length, refinement of `BoundedFifo` | two senders, two droppable `dequeue()` and a `clear()`; capacity 2; 4 packets; the counter wraps at 8, more than is ever in flight, so wrapping is seen only below zero |
| `Engine` | packets are in one place, each worker keeps order, a worker leaks at most the packet in hand; and, while two callers race, `StoppedIsQuiet` and `NoWorkerForgotten` | two callers and three lifecycle calls: one to start, two that overlap; a second worker from a second `start()`, a direct sender, a queue of 1 so it overflows, a transport of 1 so it fills up, one retry, one `clear()`; workers and callers are symmetric |
| `EngineLive` | `stop()` returns, a running engine forwards | one caller; see fairness below |
| `PlaybackScheduler` | ids mirror the heap, every packet once, order, not before the deadline, refinement of `Playout` | four offers, one of them a copy, a queue of 2; offset 0 or -3 with 2 between two packets, so two packets change places, and a timestamp falls below zero; a clock to 4 with resolution 2, so packets are early, on time, late and expired; one start, whose reset comes late |
| `Synchronizer` | nothing left of the session before, the offset within what was measured, refinement of `SteadyClock`, convergence | two callers of `synchronize()`, one of `update()`, two sessions and three measurements: enough to end a call in the next session and to move the target twice; offsets at both limits, at zero and one beyond; a step limit below half of the widest distance, so it clamps; drifts in and out of range |
| `Rooms` | names listed once, answers to what was asked, parties in one's own room, lists that only grow, the last broadcast shown | two phones, whose users have a name each; two codes, so one is given twice; three requests to the node backend, two of them of one phone, so that one waiting room replaces another that is still mounted and a list changes under both; two to the Rust server; one event of the bad kind, a connection that breaks or a party that starts |
| `PartyStream` | played in order, nothing oversized, a stopped engine takes only what was under way | three packets, the last oversized; offsets 0 and 2 with 1 between two packets, so a later one is due earlier; two addresses, so the application restarts once; one datagram repeated; an inbound queue of 1 that fills up; two tasks in `receive_packet()`, so two are under way at a stop; two operators and three lifecycle operations: to start, and two that overlap |
| `PartyStreamLive` | no stage keeps a packet | as `PartyStream`, with one `clear()`, one address and no datagram repeated, which do not bear on what the listener's loops move |
| `EngineOrder`* | two workers reorder packets | three packets |
| `EngineStopRace`* | pause racing stop: `stop()` never returns | no packets at all |
| `EngineClear`* | `clear()` waits for an idle worker | one worker |

Runs marked * are expected to be violated: each states what a comment, a
document or a test of the repository says, and TLC shows the execution in which
the code does otherwise. They are described in section 6.

`CHECK_DEADLOCK FALSE` is set for the engine, the scheduler, the synchronizer, the
rooms and the stream: their callers make a bounded number of calls, and a stopped
engine, a quiet room or a stream that has ended may stop.
The jitter buffer and the packet queue are checked for deadlock.

Every property of a passing run has a mutated definition next to the one it
mutates ("Mutated form of ..."): a dropped guard, an off-by-one, a forgotten
reset, a changed order. With the mutated definition in its place the property is
violated, so each property depends on the code that the definition models.

## 5. Fairness

*Jitter buffer* (`FairSpec`): the consumer keeps calling `pop_packet()`
("typically polling on an interval", jitter_buffer.rs:222), an operation that has the
mutex runs to its end, and the clock goes on. Nothing is assumed of the
network. Under it, no packet stays: it is delivered, evicted when stale, dropped
or cleared.

*Engine* (`FairSpec`): a task or call that can go on does. Tokio polls every task
that was woken; a timeout or a backoff expires. Nothing is assumed of the
transport, which may stay full for ever, nor of the callers, who need not
call anything. `stop()` returns because a delivery gives up after its retries;
`RunningForwards` is conditional on the engine being left running.

*Synchronizer* (`FairSpec`): a call that waits for the lock gets it, since the lock
is fair and no holder awaits; and `update()` is called again and again, as its
comment asks (once per playback frame). Nothing is assumed of `synchronize()`, of
`start()` or of `stop()`; `Converges` is about a session that is left running, once
its measurements, of which there are `MaxSyncs`, have ceased.

*Rooms* (`FairSpec`): what was sent on a connection reaches its handler while the
connection holds, as TCP and the event loop see to. Nothing is assumed of HTTP, of the
users, of events on their way to the server, or that a connection is made or holds.

*Stream* (`FairSpec` of `PartyStream`): some loops go on calling `dequeue()`,
`pop_packet()` and `next_packet()`, and a packet is passed on. The code does not
justify this: the repository has no such loops (section 3), and `NothingLingers` says
only that with them nothing in the crates holds a packet back, the state of the engine
in particular. Nothing is assumed of the host, of the network, or of whoever pauses
and stops the engine.

## 6. Where the code and its documentation part

Shown by a run:

* `EngineOrder`: with more than one worker, the default being two, packets are
  handed over out of order.
* `EngineStopRace`: a `pause()` that read Running before `stop()` sent Stopped
  overwrites it; the workers wait for a resume and `stop()` awaits them.
* `EngineClear`: an idle worker holds the receiver's mutex in `dequeue()`, so
  `clear()` does not return until a packet or a change of state comes.

Seen while modelling, and left without a run of their own: `len()` of a queue may be
`usize::MAX` for a moment, because a packet can be taken and subtracted before its
sender has added it; `start()` on a paused engine spawns a second set of workers
beside the first (config.rs:63 says their number is `worker_count`); a push refused because
the packet is still buffered is not counted as a duplicate; `clear()` of the buffer
counts as delivered what it discards; a worker with a packet in hand forwards it
after `pause()` returned (`LeaksAtMostOnePacket` bounds it); a `pause()` that ends
after a complete `stop()` leaves an engine that `resume()` turns Running with no
worker; the scheduler counts a packet late or early before the queue may refuse it;
packets queued before a reset of the timeline keep the deadlines of the old one, and
may come out after packets captured later (`ReleasedInOrder` is about one timeline),
and a packet scheduled after the offset was corrected down by more than lies between
two packets comes out before them, which a `max_correction_step` longer than a packet
allows, and the first measurement whatever the step; in the inbound half too a `pause()`
that read Running before a `stop()` overwrites it, and packets are taken again;
`initial_buffer_size` is validated and read by nothing;
the counter of resynchronizations never moves (config.rs:98 says it counts a clock
that leaves the threshold), because `correct_drift()` looks at the threshold after
`apply_offset()` has moved the target; a `synchronize()` that waits for the lock while
the synchronizer is stopped and started seeds the new session with its measurement,
and one that runs before the reset of `start()` is forgotten by it.

Of the rooms and the network: the Rust server's answer has no members, so the
waiting room shows an empty list, and it has no route to join; a waiting room whose
join-room is late shows the list of its answer, and not who joined in between, until
somebody joins or asks to again; one whose socket reconnected is not in its room any
more, and is told nothing further; a form that is still mounted behind the animation
takes a second answer, and the waiting room of the first, once disposed of, closes the
socket of the second (waiting_room_screen.dart:71), which then is told nothing either;
until then a party of the first room opens a player over the second; the node backend
requires `./routes/roomRoutes`, which the repository lacks; a create given up on
leaves a room nobody is in; any member may start the party, and each time a player
is pushed over the waiting room; the HTTP address is localhost while the socket's is one fixed machine's; a
network engine in client mode has no handler for what is broadcast to it; and a
host never forgets an address (`removeDevice()` has no caller), so a device that
restarts is sent every packet at its old port as well.

## 7. What is proved

TLAPS checks `JitterBufferProofs`, `OrderedDeliveryProofs`, `PacketQueueProofs`,
`EngineProofs`, `PlaybackSchedulerProofs`, `SynchronizerProofs`, `WaitingRoomProofs`
and `PartyStreamProofs` for every value of the constants that satisfies the named
assumptions: `ConfigAssumption`, `SchedulerAssumption` and `SyncAssumption`, which are
`validate()` of the three configurations, the types of their fields and what the
callers offer; `QueueAssumption` and `ClientAssumption` of the queue;
`EngineAssumption`, the types of the engine's configuration, and `NamesAssumption`,
that no task or call has the name of another or of a packet; `RoomAssumption` and
`WaitingAssumption`, that there is a room code, that every request may open a
connection, and that `Nothing` is neither; those of the modules that `PartyStream`
composes, with `InboundAssumption` asking that the tasks are finitely many. No bound of
TLC's is used: every bound is an arbitrary natural number.

One theorem has a hypothesis of its own, `PlayedInCaptureOrder`: that each producer
schedules in the order of capture (`CapturedInOrder`). `InstanceAssumption` has TLC
evaluate it for the instance that is checked.

**Types** (`TypeCorrect`). `TypeOK` is inductive by itself. The part with content
is the target delay, which stays within its limits because `adapt_target_delay`
clamps after it steps (`AdaptedWithinBounds`).

**Order** (`OutputIsInOrder`, `NothingIsBufferedTwice`, `CacheIsExact`). The order of
the output is not inductive by itself. `OrderInv` adds that nothing buffered was
passed, that the watermark follows the last number passed, that the output lies at
or below it, and that the cache is exact. The last is what carries the proof over
`u64::MAX`: there the watermark cannot move above the number just passed, and a
copy is refused only because the cache still holds it. `AdvanceKeepsCache` shows
that what a full cache forgets is its oldest number, never the newest, and
`AdmissibleIsNew` that whatever is admitted lies above everything passed.

**Refinement** (`Refinement`). From `OrderInv`: `PushPacket` is `Accept` (or a
stutter), `PopReady` is `Deliver`, `Evict` is `Drop`, `FlushOne` is `Skip`,
`Reset` is `Restart`, everything else stutters, the store of the length included.

**The abstract promise** (`OrderedDeliveryProofs!PromiseKept`). Any implementation
of `OrderedDelivery` delivers in order, because the floor separates what was
handed out from what is pending; so the order of the output holds also for a
buffer built differently, as long as it refines the same specification.

**Accounting** (`LossIsExact`, `PacketsAreConserved`). `LossInv` adds that the first
and the last number passed appear together and that nothing counts as lost before
them; conservation follows with the cardinality of what each step removes.

**Size** (`SizeIsKnown`). While the mutex is held `approx_len` may differ from the
number of packets in either direction; `SizeAgrees` says by how much in which operation,
and that it is exact once the mutex is free. It is inductive with the types. An overflow
evicts what is lowest, and it evicts exactly one packet, since a set of numbers that is
not empty has one lowest member (`LowestExists`), so there is room for the packet pushed
(`RoomForOne`), and a push leaves the length at most one too low.

**Packet queue** (`HolderHasMutex`, `LengthIsExact`, `ReturnedAsAccepted`,
`NothingLost`). The receiver's mutex excludes, also
across cancellation; and the length is that of the channel, corrected by the calls
between their two steps, modulo the width of the counter. The second needs the
first: it is because only the holder has removed packets that a single correction
is enough. The order of what is returned is inductive with the order of what the
holder has removed and of what is in the channel, and with the fact that the three
follow each other (`OrderInv`); that only the holder has removed packets is needed
here too. Conservation (`PlaceInv`) counts the packets in each place and adds that
nothing cleared is still on its way; with the order, which forbids two of a kind, this
puts each packet in one place.

**Queue refinement** (`QueueIsFifo`). From the two invariants
above and `OneReceived` (a call that has received holds exactly one packet): an
enqueue is `Accept`, a removal is `Take` or `Discard` at the head, everything else, a
cancellation included, is a stutter.

**Engine** (`EngineIsClient`, `OutboundIsFifo`, `NothingLost`, `WorkersKeepOrder`,
`LeaksOne`, `StopsQuietly`, `NoneForgotten`). First the engine is shown to be a client
of its queue: each of its steps is a step of `MCPacketQueue` or leaves the queue alone
(`EngineUsesQueue`), a worker being a taker that may drop its call and a `clear()` one
that may not. From there on every theorem about the queue holds under the engine. The
rest are four invariants:

* `TaskInv`: a task holds a packet exactly while it delivers one, and a worker has a
  call of `dequeue()` only in its `select!`.
* `LifeInv`: the workers alive are among the handles, and while the engine is stopped
  a worker that does more than look at the state has a `stop()` that has yet to join it.
  This is where the race of lifecycle calls is: a call that read the state earlier may
  send its own later, but only `stop()` sends Stopped, and it goes on to the handles.
* `LeakInv`: a worker that forwarded a packet after the engine left Running is at the
  top of its loop, paused or ended, whence no packet is taken.
* `DeliveryInv` and `OrderInv`: what the queue returned, or `send_packet()` was given, is
  in hand, handed over or given up, and the numbers of each agree; a packet is in one
  hand, and comes after all that its worker handed over. The last rests on the queue's
  own order: what `dequeue()` returns is newer than all it returned before.

**Scheduler** (`IdsAreExact`, `PacketsAreAccounted`, `SchedulerIsPlayout`,
`NeverBeforeDeadline`, `PlayedInCaptureOrder`). Two invariants carry the first four. `CallInv` is about what
a call carries from one lock to the next: the packet it has timed is the packet it was made with
(`PacketInHand`), and a time it read on the present timeline has come (`TimeHasCome`,
since quantizing rounds down). `QueueInv` is about what the queue's lock protects: no
two packets of the heap have one identifier, and the identifiers are the heap's.
Conservation adds the cardinalities of the calls that have yet to count. In the
refinement `Enqueue` is `Queue`, `Release` is `Play`, `CancelPacket` and `Clear` are
`Remove`, and every other step is a stutter. That no packet is released before its
deadline follows from `TimeHasCome`; it is why the property asks that no reset came
between.

The order of release takes a third, `OrderInv`. Its arithmetic is that the steps from a
stamp to a deadline keep order: quantizing keeps order and changes nothing the second
time (`QuantizeKeepsOrder`, `QuantizeTwice`), and so a deadline counted from an anchor
grows with the stamp, one from before the anchor included (`DeadlineGrows`). Over the
steps: the deadlines of a generation, those still in a producer's hand included, were
counted from the anchor it now has (`AnchorInv`), hence lie in the order of the stamps
(`DueInv`, by `DeadlineOrder`), and the queue's order breaks a tie by number; what a
producer has yet to schedule was captured after what it has scheduled (`TurnInv`); what
was released was captured before what waits, or stamped before it (`OutInv`). Nothing
is asked of the offset.

**Synchronizer** (`SynchronizerIsSteady`, `NothingOvershoots`, `SessionsStartBlank`). The arithmetic comes
first: a quotient rounded up is no more than what it is rounded up to (`RoundedUp`), so
a step has the sign of the distance, is no longer than it or than the limit, and is
zero only where the distance is (`StepIsGentle`), and a correction leads to a number
between the offset and the target (`CorrectedIsBetween`). With `ClockInRange`, that
offset and target stay within what is allowed, a measurement that is accepted, or refused
for its drift, is `Measure` (one out of range is a stutter), an update is `Correct` and
a reset is `Reset`. That the offset stays within what was measured is then inductive,
with the target among the measurements (`WithinInv`). That an unsynchronized clock is blank needs only that nothing has been
measured in its session (`BlankInv`): a correction from zero to zero is none.

**Rooms** (`ListedOnce`, `AnswersAreOwn`, `PartiesAreOwn`, `ListsOnlyGrow`).
`WaitingInv` has a part for each way that a phone and a server affect each other:

* `RequestInv`, `ThreadInv`: calls are numbered, so that the waiting room of a request
  still awaited is not mounted yet, and a thread of the Rust server whose request is
  still awaited has read all of it. So an answer to a request that was given up on is
  told from the one awaited.
* `SocketInv`: what `SocketService` holds is the socket of a mounted waiting room of its
  own phone, and it holds one while the phone shows a waiting room. It is why closing
  "the" socket ends one connection of this phone and no other's.
* `TableInv`: of the rooms of the node backend each lists a name once and its host first
  (`Listed`), and no two codes lead to one room, though a code given twice replaces a room.
* `ConnectionInv`, with its part `OwnRoom`: a connection carries up, and is subscribed
  to, nothing but the room its waiting room is about, and is told of a party only once
  that room's started; one that is not up is told nothing. It says nothing of which
  screen is in front, so it survives a second answer and the shared socket: each
  waiting room listens to the connection it opened.
* `SeenInv`: whatever is shown, answered or on its way is a copy of a room as it is or as
  it was before others joined (`Copy`), and what travels on a connection is in the order
  of growth and ahead of what is shown (`UpToDate`). The part that is easily missed is
  the HTTP answer: it is shown before the socket is subscribed, so no update is older.
* `RustInv`: of the Rust server, which lists nobody and serves no socket, all lists are
  empty (`Bare`).

`ListsOnlyGrow` then takes one look at each step that changes what is shown.

**From host to speaker** (`StreamIsPlayedInOrder`, `LargeStaysOut`,
`OnlyOvertakenAfterStop` of `PartyStreamProofs`). `StreamInv` puts the stages in a row:
what is pending lies at or above the floor of delivery (`PendingAboveFloor`), what is
scheduled lies below it, once (`QueuedBelowFloor`), and what was played differs from all
that is scheduled and was captured before it, or was due before it (`PlayedFirst`).
Nothing is asked of the offsets: when a packet is played, what waits beside it is due
later, or at the same time and has a higher number, and what is scheduled afterwards has
a number from the floor upwards, above all that was played. That nothing oversized is
played is followed from stage to stage (`FitInv`): only `receive_packet()` looks at the size, but nothing enters the inbound
queue by any other way. That a stopped engine takes only what it overtook is a count
(`LateInv`): while it is stopped, the packets queued since and the calls under way are
together no more than the calls that were under way at the stop, since a call that
begins now is refused and one that ends leaves one packet at most. `late` counts packets
queued, so the claim holds also when a lifecycle operation sends an outdated state, which
starts the count again.

Only model-checked: the liveness properties (`EveryPacketLeaves`, `StopReturns`,
`RunningForwards`, `Converges`, `LastBroadcastShown`, `NothingLingers`), which speak of
fairness and are beyond the prover, and the three runs that show a disagreement.

## 8. What is not modelled

* The drift estimator's regression: numerical analysis over floating-point
  samples. Its result is an arbitrary value in `Synchronizer`.
* `removeDevice()`, `updateLatency()`, `stopAdvertising()` and the Bluetooth stubs of
  the network engine: nothing calls them, or they print a line.
* `peek()`, `size()`, `statistics()` and the running averages: they change no state
  another operation reads. Counters that carry a property are modelled.
* HTTP, JSON and socket formats, logging, error messages; poisoning of locks
  after a panic, which the code maps to an error.
* Screens of the Flutter application with placeholder data, its generated
  platform projects, and vendored packages.
* The second copy of each Rust crate, at the top level of the repository: a model of
  it would be the same model. Those copies are some two fifths of
  the repository's lines of code, and more than a third of each crate's are tests
  beside the code; which is why the map reaches a smaller share of the lines than
  of the behaviour.

## 9. How to run

    tlc -workers 2 -config JitterBuffer.cfg JitterBuffer.tla
    tlc -workers 2 -config PacketQueue.cfg MCPacketQueue.tla
    tlc -workers 2 -config Engine.cfg MCStreamingEngine.tla
    tlc -workers 2 -config PlaybackScheduler.cfg MCPlaybackScheduler.tla
    tlc -workers 2 -config Synchronizer.cfg MCSynchronizer.tla
    tlc -workers 2 -config Rooms.cfg MCWaitingRoom.tla
    tlc -workers 2 -config PartyStream.cfg MCPartyStream.tla
    tlc -workers 2 -config PartyStreamLive.cfg PartyStream.tla
    tlapm JitterBufferProofs.tla
    tlapm OrderedDeliveryProofs.tla
    tlapm PacketQueueProofs.tla
    tlapm EngineProofs.tla
    tlapm PlaybackSchedulerProofs.tla
    tlapm SynchronizerProofs.tla
    tlapm WaitingRoomProofs.tla
    tlapm PartyStreamProofs.tla

The other runs are in `PROJECT.json`, with what each shows, the map from
definitions to lines of the source, the hazards of the code and the properties
that cover them. The longest runs (`Rooms`, `PartyStream`, `PlaybackScheduler`) take
about two minutes each.
