------------------------------- MODULE RoomApi -------------------------------
(***************************************************************************)
(* The room requests of the Flutter application (room_service.dart), which *)
(* either of two servers may answer: both listen on port 5000, keep their  *)
(* rooms in memory, and lose no request they have received.                *)
(*                                                                         *)
(* A request is a record of its own: a device that gave up on one and      *)
(* tries again sends another, and both may reach the server.               *)
(***************************************************************************)
EXTENDS Integers, Sequences

CONSTANTS
  Devices,    \* phones running the application
  NamesOf,    \* what the user of each may type as a name
  IdSpace,    \* how many room codes there are
  Nothing     \* no room, or no code

ASSUME RoomAssumption ==
  /\ IdSpace \in Nat \ {0}
  /\ Nothing \notin 0..(IdSpace - 1)

RoomIds == 0..(IdSpace - 1)

VARIABLES
  rooms,      \* the server's table: a room, or Nothing, for each code
  created,    \* history: rooms made so far, the number of the latest
  requests,   \* on their way to the server
  answers,    \* on their way back
  awaited     \* requests that a screen still awaits

api == <<rooms, created, requests, answers, awaited>>

\* A room is known by when it was made; its members are in order of joining.
Room(number, host, members) ==
  [number |-> number, host |-> host, members |-> members]

Member(name, host) == [name |-> name, host |-> host]

ApiInit ==
  /\ rooms = [id \in RoomIds |-> Nothing]
  /\ created = 0
  /\ requests = {} /\ answers = {} /\ awaited = {}

\* The answer to a request: a code and a room, or Nothing (status 404).  One
\* that nobody awaits is read by nobody.
Answer(r, id, room) ==
  answers' = IF r \in awaited
             THEN answers \cup {[request |-> r, id |-> id, room |-> room]}
             ELSE answers

NotFound(r) == Answer(r, Nothing, Nothing)

=============================================================================
