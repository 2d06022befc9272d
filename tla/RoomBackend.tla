----------------------------- MODULE RoomBackend -----------------------------
(***************************************************************************)
(* The node backend: roomController.js over HTTP and socketHandler.js over *)
(* socket.io.  Node runs a handler to its end before the next one, and     *)
(* what a handler emits or answers is encoded before it returns.           *)
(***************************************************************************)
EXTENDS RoomApi

CONSTANT Connections    \* sockets that the phones open

VARIABLES
  subscribed,  \* the socket rooms that each connection is in
  downlink,    \* events on their way to each, oldest first
  due,         \* history: the list each connection was last due to be sent
  parties      \* history: codes for which start-party was handled

sockets == <<subscribed, downlink, due, parties>>

BackendInit ==
  /\ subscribed = [c \in Connections |-> {}]
  /\ downlink = [c \in Connections |-> <<>>]
  /\ due = [c \in Connections |-> Nothing]
  /\ parties = {}

Updated(room) == [event |-> "room-updated", room |-> room]
PartyStarted == [event |-> "party-started"]

\* Mutated form of Audience: io.emit() without to(roomId).
AudienceOfAll(id) == Connections

\* io.to(roomId): the connections that are in the socket room.
Audience(id) == {c \in Connections : id \in subscribed[c]}

Emit(event, id) ==
  downlink' = [c \in Connections |-> IF c \in Audience(id)
                                     THEN Append(downlink[c], event) ELSE downlink[c]]

-----------------------------------------------------------------------------
(* roomController.js *)

\* createRoom(): the code is six digits of a random identifier; nothing looks
\* whether it is taken.
CreateRoom(r) ==
  /\ r.kind = "create"
  /\ \E id \in RoomIds :
       LET room == Room(created + 1, r.name, <<Member(r.name, TRUE)>>)
       IN  /\ rooms' = [rooms EXCEPT ![id] = room]
           /\ Answer(r, id, room)
  /\ created' = created + 1
  /\ UNCHANGED sockets

IsMember(room, name) == \E i \in DOMAIN room.members : room.members[i].name = name

\* Mutated forms of Admit: the name is not looked for; a member that joins
\* again goes to the end of the list.
AdmitAgain(room, name) == [room EXCEPT !.members = Append(@, Member(name, FALSE))]

AdmitLast(room, name) ==
  [room EXCEPT !.members =
     LET Other(m) == m.name # name IN Append(SelectSeq(@, Other), Member(name, FALSE))]

\* joinRoom(): a name that is not listed yet is added.
Admit(room, name) ==
  IF IsMember(room, name) THEN room
  ELSE [room EXCEPT !.members = Append(@, Member(name, FALSE))]

\* Mutated form of Announced: the list is broadcast before the name is added.
AnnouncedBefore(before, after) == before

Announced(before, after) == after

\* ... and the room is broadcast, joined or not, then answered.
JoinRoom(r) ==
  /\ r.kind = "join"
  /\ rooms[r.id] # Nothing
  /\ LET room == Admit(rooms[r.id], r.name)
     IN  /\ rooms' = [rooms EXCEPT ![r.id] = room]
         /\ Emit(Updated(Announced(rooms[r.id], room)), r.id)
         /\ due' = [c \in Connections |-> IF c \in Audience(r.id) THEN room ELSE due[c]]
         /\ Answer(r, r.id, room)
  /\ UNCHANGED <<created, subscribed, parties>>

\* getRoom().
GetRoom(r) ==
  /\ r.kind = "get"
  /\ rooms[r.id] # Nothing
  /\ Answer(r, r.id, rooms[r.id])
  /\ UNCHANGED <<rooms, created, sockets>>

\* joinRoom() and getRoom() for a code that names no room.
RefuseRoom(r) ==
  /\ r.kind \in {"join", "get"}
  /\ rooms[r.id] = Nothing
  /\ NotFound(r)
  /\ UNCHANGED <<rooms, created, sockets>>

BackendHandles(r) ==
  /\ r \in requests
  /\ requests' = requests \ {r}
  /\ UNCHANGED awaited
  /\ CreateRoom(r) \/ JoinRoom(r) \/ GetRoom(r) \/ RefuseRoom(r)

-----------------------------------------------------------------------------
(* socketHandler.js *)

OnJoinRoom(c, id) ==
  /\ subscribed' = [subscribed EXCEPT ![c] = @ \cup {id}]
  /\ UNCHANGED <<downlink, due, parties>>

\* Whoever is connected may start the party of any room.
OnStartParty(id) ==
  /\ Emit(PartyStarted, id)
  /\ parties' = parties \cup {id}
  /\ UNCHANGED <<subscribed, due>>

\* Connections end, by leave-room and dispose() or by themselves: they are in no
\* socket room any more, and what was on its way to them is lost.
Disconnect(ended) ==
  /\ subscribed' = [c \in Connections |-> IF c \in ended THEN {} ELSE subscribed[c]]
  /\ downlink' = [c \in Connections |-> IF c \in ended THEN <<>> ELSE downlink[c]]
  /\ due' = [c \in Connections |-> IF c \in ended THEN Nothing ELSE due[c]]
  /\ UNCHANGED parties

=============================================================================
