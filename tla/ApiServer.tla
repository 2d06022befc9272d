------------------------------ MODULE ApiServer ------------------------------
(***************************************************************************)
(* The Rust API server (api_server/src/main.rs): a thread per connection,  *)
(* rooms behind a mutex, codes from the clock.  It has no join route and   *)
(* no sockets, and its rooms have no members.                              *)
(***************************************************************************)
EXTENDS RoomApi

VARIABLE threads    \* connections whose request was read and not answered yet

DefaultHost == "Host"

ApiServerInit == threads = {}

\* generate_room_id(): the clock's milliseconds modulo the number of codes, and
\* nothing that tells threads apart.  Any time may have passed since the last
\* one, none at all or a whole turn of the codes.
GeneratedRoomIds == RoomIds

\* read_http_request() returns, because the request is complete, or because the
\* peer closed the connection before it was; then create_room() finds no names
\* in the body, and takes default ones.
ReadCreate(r, complete) ==
  /\ r \in requests /\ r.kind = "create"
  /\ complete \/ r \notin awaited
  /\ \E id \in GeneratedRoomIds :
       threads' = threads \cup
         {[request |-> r, id |-> id, stored |-> FALSE,
           host |-> IF complete THEN r.name ELSE DefaultHost,
           number |-> created + 1]}
  /\ created' = created + 1
  /\ requests' = requests \ {r}
  /\ UNCHANGED <<rooms, answers, awaited>>

RoomOf(t) == Room(t.number, t.host, <<>>)

\* create_room(): the room goes into the table, over any other with its code ...
Insert(t) ==
  /\ t \in threads /\ ~t.stored
  /\ rooms' = [rooms EXCEPT ![t.id] = RoomOf(t)]
  /\ threads' = (threads \ {t}) \cup {[t EXCEPT !.stored = TRUE]}
  /\ UNCHANGED <<created, requests, answers, awaited>>

\* Mutated form of Reply: the room is read back from the table.
ReplyFromTable(t) ==
  /\ t \in threads /\ t.stored
  /\ Answer(t.request, t.id, rooms[t.id])
  /\ threads' = threads \ {t}
  /\ UNCHANGED <<rooms, created, requests, awaited>>

\* ... and the thread answers with the room it made.
Reply(t) ==
  /\ t \in threads /\ t.stored
  /\ Answer(t.request, t.id, RoomOf(t))
  /\ threads' = threads \ {t}
  /\ UNCHANGED <<rooms, created, requests, awaited>>

\* get_room(), under the lock.
ServeGet(r) ==
  /\ r \in requests /\ r.kind = "get"
  /\ IF rooms[r.id] = Nothing THEN NotFound(r) ELSE Answer(r, r.id, rooms[r.id])
  /\ requests' = requests \ {r}
  /\ UNCHANGED <<rooms, created, awaited, threads>>

\* Any other route, joining among them, does not exist.
NoRoute(r) ==
  /\ r \in requests /\ r.kind = "join"
  /\ NotFound(r)
  /\ requests' = requests \ {r}
  /\ UNCHANGED <<rooms, created, awaited, threads>>

ApiServerStep ==
  \/ \E r \in requests : \E complete \in BOOLEAN : ReadCreate(r, complete)
  \/ \E r \in requests : ServeGet(r) \/ NoRoute(r)
  \/ \E t \in threads : Insert(t) \/ Reply(t)

=============================================================================
