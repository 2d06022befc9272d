----------------------------- MODULE WaitingRoom -----------------------------
(***************************************************************************)
(* The Flutter application's rooms, composed with the server it finds on   *)
(* port 5000: a form creates or joins a room by HTTP, and the waiting room *)
(* that replaces it shows the answer and follows the room by a socket.     *)
(*                                                                         *)
(* HTTP answers and socket events travel apart.  A socket keeps the order  *)
(* of its events, buffers what is emitted while it is not connected,       *)
(* reconnects by itself, and loses what was on its way when it breaks.     *)
(*                                                                         *)
(* A screen that is replaced or left stays mounted until the animation is  *)
(* over: a form takes another answer meanwhile, which replaces the waiting *)
(* room of the first, and a waiting room goes on listening.  Each listens  *)
(* to the socket it opened, but SocketService.instance holds the last one  *)
(* opened, and it is this one that the disposal of any of them closes.     *)
(* IO.io, which is no code of the repository, is taken to give each        *)
(* connect() a socket of its own.                                          *)
(***************************************************************************)
EXTENDS RoomBackend, ApiServer, SequencesExt

CONSTANTS
  MaxCalls,    \* bound: HTTP requests to either server, for each phone
  MaxEvents    \* bound: broken connections and taps on Start Party, together

Servers == {"node", "rust"}

\* A waiting room opens one connection, and is known by it: by its phone and the
\* request whose answer it shows.
ASSUME WaitingAssumption ==
  /\ MaxCalls \in [Servers -> [Devices -> Nat]] /\ MaxEvents \in Nat
  /\ \A s \in Servers, d \in Devices : {d} \X (1..MaxCalls[s][d]) \subseteq Connections
  /\ Nothing \notin Connections

VARIABLES
  server,      \* which server runs: "node" or "rust"
  front,       \* what each phone shows: "form" or "waiting"
  socket,      \* SocketService.instance.socket: the connection opened last, or
               \* Nothing once its waiting room is gone
  mounted,     \* waiting rooms that are mounted
  code,        \* widget.room.roomId of each
  shown,       \* _WaitingRoomScreenState.room
  pushed,      \* PlayerScreens it has pushed
  link,        \* its connection: "none", "down", "up" or "closed"
  uplink,      \* events emitted on it and not handled yet, oldest first
  strays,      \* start-party events of connections that are no more
  calls, drops, starts

phones == <<front, socket>>
waitingRooms == <<mounted, code, shown, pushed>>
links == <<link, uplink, strays>>
bounds == <<calls, drops, starts>>
vars == <<api, sockets, threads, server, phones, waitingRooms, links, bounds>>

Init ==
  /\ ApiInit /\ BackendInit /\ ApiServerInit
  /\ server \in Servers
  /\ front = [d \in Devices |-> "form"]
  /\ socket = [d \in Devices |-> Nothing]
  /\ mounted = {}
  /\ code = [w \in Connections |-> Nothing]
  /\ shown = [w \in Connections |-> Nothing]
  /\ pushed = [w \in Connections |-> 0]
  /\ link = [w \in Connections |-> "none"]
  /\ uplink = [w \in Connections |-> <<>>]
  /\ strays = {}
  /\ calls = [d \in Devices |-> 0] /\ drops = 0 /\ starts = 0

AwaitedBy(d) == {r \in awaited : r.by = d}

-----------------------------------------------------------------------------
(* The forms and RoomService *)

Request(d, kind, id, name) ==
  /\ front[d] = "form"
  /\ calls[d] < MaxCalls[server][d]
  /\ LET r == [by |-> d, call |-> calls[d] + 1, kind |-> kind, id |-> id, name |-> name]
     IN  requests' = requests \cup {r} /\ awaited' = awaited \cup {r}
  /\ calls' = [calls EXCEPT ![d] = @ + 1]
  /\ UNCHANGED <<rooms, created, answers, sockets, threads, server, phones,
                 waitingRooms, links, drops, starts>>

\* The Create Room button is never disabled: it may be tapped again at once.
TapCreate(d) ==
  /\ \A r \in AwaitedBy(d) : r.kind = "create"
  /\ \E name \in NamesOf[d] : Request(d, "create", Nothing, name)

\* The Join Room button is, while an answer is awaited.  Any code may be typed.
TapJoin(d) ==
  /\ AwaitedBy(d) = {}
  /\ \E id \in RoomIds, name \in NamesOf[d] : Request(d, "join", id, name)

\* RoomService.getRoom(), which no screen calls yet.
LookUp(d) ==
  /\ AwaitedBy(d) = {}
  /\ \E id \in RoomIds : Request(d, "get", id, Nothing)

\* Five seconds without an answer, or the form is no longer mounted: the user went
\* back, or the animation that replaced it is over.  The request may still reach
\* the server.
GiveUp(r) ==
  /\ r \in awaited
  /\ awaited' = awaited \ {r}
  /\ answers' = {a \in answers : a.request # r}
  /\ UNCHANGED <<rooms, created, requests, sockets, threads, server, phones,
                 waitingRooms, links, bounds>>

\* An error is shown, or a room looked up is returned; nothing is replaced.
StayOnForm(a) ==
  /\ a.room = Nothing \/ a.request.kind = "get"
  /\ UNCHANGED <<phones, waitingRooms, links>>

WaitingRoomOf(r) == <<r.by, r.call>>

\* A waiting room replaces what the phone shows, the form or the waiting room of an
\* answer before: initState() shows the answer, opens a socket in the place of
\* SocketService's and emits join-room, which waits for the connection.
EnterWaitingRoom(a) ==
  LET w == WaitingRoomOf(a.request)
  IN  /\ a.room # Nothing /\ a.request.kind # "get"
      /\ front' = [front EXCEPT ![a.request.by] = "waiting"]
      /\ socket' = [socket EXCEPT ![a.request.by] = w]
      /\ mounted' = mounted \cup {w}
      /\ code' = [code EXCEPT ![w] = a.id]
      /\ shown' = [shown EXCEPT ![w] = a.room]
      /\ link' = [link EXCEPT ![w] = "down"]
      /\ uplink' = [uplink EXCEPT ![w] = <<[event |-> "join-room", id |-> a.id, tap |-> 0]>>]
      /\ UNCHANGED <<pushed, strays>>

Receive(a) ==
  /\ a \in answers
  /\ awaited' = awaited \ {a.request}
  /\ answers' = {b \in answers : b.request # a.request}
  /\ StayOnForm(a) \/ EnterWaitingRoom(a)
  /\ UNCHANGED <<rooms, created, requests, sockets, threads, server, bounds>>

-----------------------------------------------------------------------------
(* The waiting rooms and SocketService *)

\* The Start Party button is there for everyone.  What is emitted on a socket that
\* was closed goes nowhere.
TapStart(d) ==
  /\ front[d] = "waiting"
  /\ drops + starts < MaxEvents
  /\ LET w == socket[d]
         e == [event |-> "start-party", id |-> code[w], tap |-> starts + 1]
     IN  uplink' = IF link[w] = "closed" THEN uplink ELSE [uplink EXCEPT ![w] = Append(@, e)]
  /\ starts' = starts + 1
  /\ UNCHANGED <<api, sockets, threads, server, phones, waitingRooms, link, strays,
                 calls, drops>>

OnRoomUpdated(w, room) == shown' = [shown EXCEPT ![w] = room] /\ UNCHANGED pushed

\* Each party-started pushes another screen.
OnPartyStarted(w) == pushed' = [pushed EXCEPT ![w] = @ + 1] /\ UNCHANGED shown

OnEvent(w) ==
  /\ link[w] = "up"
  /\ downlink[w] # <<>>
  /\ LET e == Head(downlink[w])
     IN  \/ e.event = "room-updated" /\ OnRoomUpdated(w, e.room)
         \/ e.event = "party-started" /\ OnPartyStarted(w)
  /\ downlink' = [downlink EXCEPT ![w] = Tail(@)]
  /\ UNCHANGED <<api, subscribed, due, parties, threads, server, phones, mounted, code,
                 links, bounds>>

\* The user goes back to the forms.
Leave(d) ==
  /\ front[d] = "waiting"
  /\ front' = [front EXCEPT ![d] = "form"]
  /\ UNCHANGED <<api, sockets, threads, server, socket, waitingRooms, links, bounds>>

\* The start-party events on their way to the server by these connections.
OnTheirWay(ended) ==
  {e \in UNION {ToSet(uplink[w]) : w \in {v \in ended : link[v] = "up"}} :
     e.event = "start-party"}

\* Connections end, and what was on its way up may be handled yet.
CutOff(ended, state) ==
  /\ link' = [w \in Connections |-> IF w \in ended THEN state[w] ELSE link[w]]
  /\ uplink' = [w \in Connections |-> IF w \in ended THEN <<>> ELSE uplink[w]]
  /\ strays' = strays \cup OnTheirWay(ended)
  /\ Disconnect(ended)

\* dispose() of a waiting room that was left or replaced closes the socket that
\* SocketService holds, which may be that of another waiting room.  Its own stays
\* open then, but nobody hears it or emits on it any more.
Dispose(d, w) ==
  /\ w \in mounted /\ w[1] = d
  /\ front[d] = "form" \/ socket[d] # w
  /\ mounted' = mounted \ {w}
  /\ code' = [code EXCEPT ![w] = Nothing]
  /\ shown' = [shown EXCEPT ![w] = Nothing]
  /\ pushed' = [pushed EXCEPT ![w] = 0]
  /\ socket' = [socket EXCEPT ![d] = IF @ = w THEN Nothing ELSE @]
  /\ LET ended == {w, socket[d]} \ {Nothing}
     IN  CutOff(ended, [v \in ended |-> IF v = w THEN "none" ELSE "closed"])
  /\ UNCHANGED <<api, threads, server, front, bounds>>

-----------------------------------------------------------------------------
(* The sockets, and what the node backend gets by them *)

Connect(w) ==
  /\ server = "node"
  /\ link[w] = "down"
  /\ link' = [link EXCEPT ![w] = "up"]
  /\ UNCHANGED <<api, sockets, threads, server, phones, waitingRooms, uplink, strays, bounds>>

\* The connection breaks; another one starts in no room, and nothing emits
\* join-room again.
Drop(w) ==
  /\ link[w] = "up"
  /\ drops + starts < MaxEvents
  /\ CutOff({w}, [v \in {w} |-> "down"])
  /\ drops' = drops + 1
  /\ UNCHANGED <<api, threads, server, phones, waitingRooms, calls, starts>>

ServeEvent(w) ==
  /\ link[w] = "up"
  /\ uplink[w] # <<>>
  /\ LET e == Head(uplink[w])
     IN  \/ e.event = "join-room" /\ OnJoinRoom(w, e.id)
         \/ e.event = "start-party" /\ OnStartParty(e.id)
  /\ uplink' = [uplink EXCEPT ![w] = Tail(@)]
  /\ UNCHANGED <<api, threads, server, phones, waitingRooms, link, strays, bounds>>

\* It was sent before its connection ended.
ServeStray(e) ==
  /\ OnStartParty(e.id)
  /\ strays' = strays \ {e}
  /\ UNCHANGED <<api, threads, server, phones, waitingRooms, link, uplink, bounds>>

NodeStep ==
  /\ server = "node"
  /\ \E r \in requests : BackendHandles(r)
  /\ UNCHANGED <<threads, server, phones, waitingRooms, links, bounds>>

RustStep ==
  /\ server = "rust"
  /\ ApiServerStep
  /\ UNCHANGED <<sockets, server, phones, waitingRooms, links, bounds>>

User(d) == TapCreate(d) \/ TapJoin(d) \/ LookUp(d) \/ TapStart(d) \/ Leave(d)

Next ==
  \/ \E d \in Devices : User(d) \/ \E w \in mounted : Dispose(d, w)
  \/ \E w \in Connections : Connect(w) \/ Drop(w) \/ ServeEvent(w) \/ OnEvent(w)
  \/ \E e \in strays : ServeStray(e)
  \/ \E r \in awaited : GiveUp(r)
  \/ \E a \in answers : Receive(a)
  \/ NodeStep \/ RustStep

Spec == Init /\ [][Next]_vars

\* What was sent to a phone on a connection that holds arrives.
FairSpec == Spec /\ \A w \in Connections : WF_vars(OnEvent(w))

-----------------------------------------------------------------------------

\* No room lists a name twice, and its host is the first and only one marked,
\* although joining is retried when an answer is late (roomController.js:43-53).
MembersListedOnce ==
  \A id \in RoomIds : server = "node" /\ rooms[id] # Nothing =>
    LET members == rooms[id].members
    IN  /\ \A i, j \in DOMAIN members : members[i].name = members[j].name => i = j
        /\ \A i \in DOMAIN members : members[i].host <=> i = 1

\* The answer a screen awaits is to what it asked: the room it created has the
\* host it typed, the room it joined the code and the name, whatever other
\* requests overtake it and whichever codes are given twice.
AnswerIsOwn ==
  \A a \in answers :
    LET r == a.request
    IN  a.room # Nothing =>
          /\ r.kind = "create" => a.room.host = r.name
          /\ r.kind \in {"join", "get"} => a.id = r.id
          /\ r.kind = "join" => IsMember(a.room, r.name)

\* While a waiting room shows one and the same room, nobody disappears from its
\* list and nobody moves in it, though answer and updates arrive by two ways and
\* another waiting room of the phone may close its socket.
ShownOnlyGrows ==
  [][\A w \in mounted \cap mounted' : shown'[w].number = shown[w].number
       => IsPrefix(shown[w].members, shown'[w].members)]_vars

\* A waiting room opens a player only when the party of its own room was started,
\* also while two of a phone's waiting rooms are mounted and whichever socket
\* SocketService holds (socketHandler.js:30-36).  Where the player lies is another
\* matter: on top, so possibly over a newer waiting room of another room.
PartyInOwnRoom ==
  \A w \in Connections : pushed[w] > 0 => code[w] \in parties

\* A connection that lasts shows the list of the last join it was due to be
\* told of, in the end.
LastBroadcastShown ==
  \A w \in Connections : []<>(due[w] = Nothing \/ shown[w] = due[w])

=============================================================================
