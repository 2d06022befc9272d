------------------------- MODULE WaitingRoomProofs -------------------------
(***************************************************************************)
(* Proofs about WaitingRoom, for any number of phones, names and room      *)
(* codes, and for either server.                                           *)
(***************************************************************************)
EXTENDS WaitingRoom, SequenceTheorems, TLAPS

Names == UNION {NamesOf[d] : d \in Devices}

MemberSet == [name : Names, host : BOOLEAN]
RoomSet == [number : Nat, host : Names \cup {DefaultHost}, members : Seq(MemberSet)]
RequestSet ==
  [by : Devices, call : Nat, kind : {"create", "join", "get"},
   id : RoomIds \cup {Nothing}, name : Names \cup {Nothing}]
EventSet == [event : {"room-updated"}, room : RoomSet] \cup [event : {"party-started"}]
UplinkSet == [event : {"join-room", "start-party"}, id : RoomIds \cup {Nothing},
              tap : Nat]

\* What a form asks for.
WellMade(r) ==
  /\ r \in RequestSet
  /\ r.kind \in {"create", "join"} => r.name \in Names
  /\ r.kind \in {"join", "get"} => r.id \in RoomIds

-----------------------------------------------------------------------------
(* The inductive invariants *)

\* Calls are numbered, so that a request is told from those before it, and its waiting
\* room from those that are or were mounted; only what is awaited is answered.
RequestInv ==
  /\ calls \in [Devices -> Nat]
  /\ \A r \in requests \cup awaited : WellMade(r) /\ r.call <= calls[r.by]
  /\ \A r \in awaited : WaitingRoomOf(r) \in Connections \ mounted
  /\ \A r, s \in awaited : WaitingRoomOf(r) = WaitingRoomOf(s) => r = s
  /\ \A a \in answers : /\ a.request \in awaited
                        /\ a.id \in RoomIds \cup {Nothing}
  /\ \A d \in Devices, n \in Nat : <<d, n>> \in mounted => n <= calls[d]

\* SocketService holds a mounted waiting room's socket, if any, and does while the
\* phone shows one.
SocketInv ==
  /\ front \in [Devices -> {"form", "waiting"}]
  /\ socket \in [Devices -> Connections \cup {Nothing}]
  /\ mounted \subseteq Connections
  /\ \A d \in Devices : socket[d] # Nothing => socket[d] \in mounted /\ socket[d][1] = d
  /\ \A d \in Devices : front[d] = "waiting" => socket[d] # Nothing

\* A thread whose request is awaited has read all of it.
ThreadInv ==
  \A t \in threads :
    /\ t \in [request : RequestSet, id : RoomIds, stored : BOOLEAN,
              host : Names \cup {DefaultHost}, number : Nat]
    /\ t.request.kind = "create" /\ t.request.call <= calls[t.request.by]
    /\ t.number <= created
    /\ t.request \in awaited => t.host = t.request.name

\* The list r begins with the list s.
Extends(s, r) == Len(s) <= Len(r) /\ \A i \in 1..Len(s) : s[i] = r[i]

\* A copy of a room of the table: as it is, or as it was before others joined.
Copy(room, table, last) ==
  /\ room \in RoomSet
  /\ room.number <= last
  /\ \A id \in RoomIds :
       table[id] # Nothing /\ table[id].number = room.number =>
         Extends(room.members, table[id].members)

\* Nobody is listed twice, and the host is first.
Listed(members) ==
  /\ \A i, j \in DOMAIN members : members[i].name = members[j].name => i = j
  /\ \A i \in DOMAIN members : members[i].host <=> i = 1
  /\ members # <<>>

TableInv ==
  /\ created \in Nat /\ server \in {"node", "rust"}
  /\ rooms \in [RoomIds -> RoomSet \cup {Nothing}]
  /\ \A id \in RoomIds : rooms[id] # Nothing =>
       rooms[id].number <= created /\ (server = "node" => Listed(rooms[id].members))
  /\ \A id, other \in RoomIds :
       server = "node" /\ rooms[id] # Nothing /\ rooms[other] # Nothing
         /\ rooms[id].number = rooms[other].number => id = other

\* A connection is for the room its waiting room is about, and is told of its party
\* only; nothing comes by it unless it is up.
ConnectionTypes ==
  /\ code \in [Connections -> RoomIds \cup {Nothing}]
  /\ shown \in [Connections -> RoomSet \cup {Nothing}]
  /\ pushed \in [Connections -> Nat]
  /\ link \in [Connections -> {"none", "down", "up", "closed"}]
  /\ uplink \in [Connections -> Seq(UplinkSet)]
  /\ downlink \in [Connections -> Seq(EventSet)]
  /\ subscribed \in [Connections -> SUBSET (RoomIds \cup {Nothing})]
  /\ starts \in Nat

OwnRoom(w) ==
  /\ w \notin mounted => link[w] = "none" /\ uplink[w] = <<>> /\ pushed[w] = 0
  /\ link[w] # "up" => downlink[w] = <<>> /\ subscribed[w] = {}
  /\ subscribed[w] \subseteq {code[w]}
  /\ \A i \in DOMAIN uplink[w] : uplink[w][i].id = code[w]
  /\ \A i \in DOMAIN downlink[w] :
       downlink[w][i].event = "party-started" => code[w] \in parties
  /\ pushed[w] > 0 => code[w] \in parties

ConnectionInv == ConnectionTypes /\ \A w \in Connections : OwnRoom(w)

\* What a waiting room shows is a copy, and every update on its way to it is a later
\* one.
UpToDate(here, room, events, table, last) ==
  /\ here => Copy(room, table, last)
  /\ \A i \in DOMAIN events : events[i].event = "room-updated" =>
       /\ Copy(events[i].room, table, last)
       /\ room.number = events[i].room.number => Extends(room.members, events[i].room.members)
  /\ \A i, j \in DOMAIN events :
       /\ i < j /\ events[i].event = "room-updated" /\ events[j].event = "room-updated"
       /\ events[i].room.number = events[j].room.number
       => Extends(events[i].room.members, events[j].room.members)

SeenInv ==
  /\ \A a \in answers : a.room # Nothing => Copy(a.room, rooms, created)
  /\ \A w \in Connections : UpToDate(w \in mounted, shown[w], downlink[w], rooms, created)

\* The Rust server lists nobody, and no socket finds it.
Bare ==
  /\ \A w \in Connections : link[w] # "up"
  /\ \A w \in mounted : shown[w].members = <<>>
  /\ \A a \in answers : a.room # Nothing => a.room.members = <<>>
  /\ \A id \in RoomIds : rooms[id] # Nothing => rooms[id].members = <<>>

RustInv == server = "rust" => Bare

-----------------------------------------------------------------------------
(* Lists and copies *)

LEMMA PrefixElements ==
  ASSUME NEW S, NEW s \in Seq(S), NEW r \in Seq(S)
  PROVE  IsPrefix(s, r) <=> Extends(s, r)
BY DEF IsPrefix, Extends

LEMMA ExtendsTransitive ==
  ASSUME NEW s \in Seq(MemberSet), NEW r \in Seq(MemberSet), NEW q \in Seq(MemberSet),
         Extends(s, r), Extends(r, q)
  PROVE  Extends(s, q)
<1>1. Len(s) \in Nat /\ Len(r) \in Nat /\ Len(q) \in Nat
  OBVIOUS
<1> QED
  BY <1>1 DEF Extends

LEMMA ExtendsItself ==
  ASSUME NEW s \in Seq(MemberSet)
  PROVE  Extends(s, s) /\ Extends(<<>>, s)
<1>1. Len(s) \in Nat /\ Len(<<>>) = 0
  OBVIOUS
<1> QED
  BY <1>1 DEF Extends

LEMMA OneMore ==
  ASSUME NEW S, NEW s \in Seq(S), NEW e \in S
  PROVE  /\ Append(s, e) \in Seq(S) /\ Len(s) \in Nat /\ Len(Append(s, e)) = Len(s) + 1
         /\ DOMAIN s = 1..Len(s) /\ DOMAIN Append(s, e) = DOMAIN s \cup {Len(s) + 1}
         /\ \A i \in DOMAIN s : Append(s, e)[i] = s[i] /\ i < Len(s) + 1 /\ i \in Nat
         /\ Append(s, e)[Len(s) + 1] = e
<1> DEFINE a == Append(s, e)
<1>1. /\ a \in Seq(S) /\ Len(s) \in Nat /\ Len(a) = Len(s) + 1
      /\ DOMAIN s = 1..Len(s) /\ DOMAIN a = 1..Len(s) + 1
      /\ \A i \in DOMAIN s : a[i] = s[i]
      /\ a[Len(s) + 1] = e
  OBVIOUS
<1> HIDE DEF a
<1> QED
  BY <1>1 DEF a

\* Joining: the list keeps its beginning, and lists the name once.
LEMMA Admitted ==
  ASSUME NEW room \in RoomSet, NEW name \in Names
  PROVE  /\ Admit(room, name) \in RoomSet
         /\ Admit(room, name).number = room.number
         /\ Admit(room, name).host = room.host
         /\ IsMember(Admit(room, name), name)
         /\ Extends(room.members, Admit(room, name).members)
         /\ Listed(room.members) => Listed(Admit(room, name).members)
<1>0. PICK m \in Seq(MemberSet) : m = room.members
  BY DEF RoomSet
<1>1. Len(m) \in Nat /\ DOMAIN m = 1..Len(m)
  OBVIOUS
<1>2. CASE IsMember(room, name)
  BY <1>0, <1>2, ExtendsItself DEF Admit
<1>3. CASE ~IsMember(room, name)
  <2>1. PICK e \in MemberSet : e = Member(name, FALSE) /\ e.name = name /\ e.host = FALSE
    <3>1. /\ Member(name, FALSE) \in MemberSet /\ Member(name, FALSE).name = name
          /\ Member(name, FALSE).host = FALSE
      BY DEF Member, MemberSet
    <3> QED
      BY <3>1
  <2> DEFINE a == Append(m, e)
             k == Len(m) + 1
  <2>2. Admit(room, name) = [room EXCEPT !.members = a]
    BY <1>0, <1>3, <2>1 DEF Admit
  <2>3. /\ a \in Seq(MemberSet) /\ Len(a) = Len(m) + 1
        /\ \A i \in 1..Len(m) : a[i] = m[i]
        /\ a[k] = e
        /\ DOMAIN a = DOMAIN m \cup {k} /\ k \in Nat /\ \A i \in DOMAIN m : i < k /\ i \in Nat
    BY <1>1, OneMore
  <2> HIDE DEF a
  <2>4. /\ Admit(room, name) \in RoomSet /\ Admit(room, name).members = a
        /\ Admit(room, name).number = room.number /\ Admit(room, name).host = room.host
    BY <2>2, <2>3 DEF RoomSet
  <2>6. IsMember(Admit(room, name), name)
    BY <2>1, <2>3, <2>4 DEF IsMember
  <2>7. Extends(m, a)
    BY <1>1, <2>3 DEF Extends
  <2>8. ASSUME Listed(m) PROVE Listed(a)
    <3>1. \A i \in DOMAIN m : a[i] = m[i] /\ m[i].name # name
      BY <1>0, <1>1, <1>3, <2>3 DEF IsMember
    <3>2. k # 1
      BY <1>1, <2>8 DEF Listed
    <3>3. /\ \A i, j \in DOMAIN m : m[i].name = m[j].name => i = j
          /\ \A i \in DOMAIN m : m[i].host <=> i = 1
      BY <2>8 DEF Listed
    <3>4. \A i, j \in DOMAIN a : a[i].name = a[j].name => i = j
      <4> SUFFICES ASSUME NEW i \in DOMAIN a, NEW j \in DOMAIN a, a[i].name = a[j].name
                   PROVE  i = j
        OBVIOUS
      <4>1. CASE i \in DOMAIN m /\ j \in DOMAIN m
        BY <3>1, <3>3, <4>1
      <4>2. a[k].name = name
        BY <2>1, <2>3
      <4> QED
        BY <2>3, <3>1, <4>1, <4>2
    <3>5. \A i \in DOMAIN a : a[i].host <=> i = 1
      BY <2>1, <2>3, <3>1, <3>2, <3>3
    <3>6. a # <<>>
      BY <2>3
    <3> QED
      BY <3>4, <3>5, <3>6 DEF Listed
  <2> QED
    BY <1>0, <2>4, <2>6, <2>7, <2>8
<1> QED
  BY <1>2, <1>3

\* What was a copy still is one when a room is made under a new number, and when a
\* room gets a member.
LEMMA CopyOfOlder ==
  ASSUME NEW room, NEW table, NEW last \in Nat, Copy(room, table, last)
  PROVE  Copy(room, table, last + 1)
BY DEF Copy, RoomSet

LEMMA CopyBesideNew ==
  ASSUME NEW table \in [RoomIds -> RoomSet \cup {Nothing}], NEW last \in Nat,
         NEW id \in RoomIds, NEW new \in RoomSet, new.number = last + 1,
         NEW room, Copy(room, table, last)
  PROVE  Copy(room, [table EXCEPT ![id] = new], last + 1)
<1>1. room.number \in Nat /\ room.number # new.number
  BY DEF Copy, RoomSet
<1> QED
  BY <1>1 DEF Copy

LEMMA CopyBesideJoined ==
  ASSUME NEW table \in [RoomIds -> RoomSet \cup {Nothing}], NEW last \in Nat,
         NEW id \in RoomIds, table[id] # Nothing, NEW new \in RoomSet,
         new.number = table[id].number, Extends(table[id].members, new.members),
         NEW room, Copy(room, table, last)
  PROVE  Copy(room, [table EXCEPT ![id] = new], last)
<1> DEFINE t == [table EXCEPT ![id] = new]
<1> SUFFICES ASSUME NEW i \in RoomIds, t[i] # Nothing, t[i].number = room.number
             PROVE  Extends(room.members, t[i].members)
  BY DEF Copy
<1>1. CASE i # id
  BY <1>1 DEF Copy
<1>2. CASE i = id
  <2>1. Extends(room.members, table[id].members) /\ t[i] = new
    BY <1>2 DEF Copy
  <2>2. /\ room.members \in Seq(MemberSet) /\ table[id].members \in Seq(MemberSet)
        /\ new.members \in Seq(MemberSet)
    BY DEF Copy, RoomSet
  <2> QED
    BY <2>1, <2>2, ExtendsTransitive
<1> QED
  BY <1>1, <1>2

LEMMA BareCopy ==
  ASSUME NEW room \in RoomSet, room.members = <<>>, NEW last, room.number <= last,
         NEW table \in [RoomIds -> RoomSet \cup {Nothing}]
  PROVE  Copy(room, table, last)
<1> SUFFICES ASSUME NEW id \in RoomIds, table[id] # Nothing
             PROVE  Extends(<<>>, table[id].members)
  BY DEF Copy
<1>1. table[id].members \in Seq(MemberSet)
  BY DEF RoomSet
<1> QED
  BY <1>1, ExtendsItself

-----------------------------------------------------------------------------
(* Requests and answers, step by step *)

\* What a step of the server does with requests and answers.
LEMMA ServerAnswers ==
  ASSUME NodeStep \/ RustStep
  PROVE  /\ requests' \subseteq requests
         /\ UNCHANGED <<awaited, calls, server, phones, waitingRooms, links, starts>>
<1>1. CASE NodeStep
  BY <1>1 DEF NodeStep, BackendHandles, bounds
<1>2. CASE RustStep
  BY <1>2 DEF RustStep, ApiServerStep, ReadCreate, ServeGet, NoRoute, Insert, Reply, bounds
<1> QED
  BY <1>1, <1>2

\* An answer that is new is to a request that is awaited, and is its own.
Answers(r, id, room) ==
  /\ id \in RoomIds \cup {Nothing}
  /\ answers' = IF r \in awaited
                THEN answers \cup {[request |-> r, id |-> id, room |-> room]}
                ELSE answers
  /\ room # Nothing =>
       /\ r.kind = "create" => (r \in awaited => room.host = r.name)
       /\ r.kind \in {"join", "get"} => id = r.id
       /\ r.kind = "join" => IsMember(room, r.name)

LEMMA NewAnswers ==
  ASSUME RequestInv, ThreadInv, TableInv, NodeStep \/ RustStep
  PROVE  answers' = answers \/ \E r \in RequestSet : \E id, room : Answers(r, id, room)
<1>1. \A r \in requests : WellMade(r) /\ r \in RequestSet
  BY DEF RequestInv, WellMade
<1>2. \A id \in RoomIds : rooms[id] \in RoomSet \cup {Nothing}
  BY DEF TableInv
<1>3. ASSUME NEW r \in requests, CreateRoom(r) PROVE \E id, room : Answers(r, id, room)
  <2> DEFINE room == Room(created + 1, r.name, <<Member(r.name, TRUE)>>)
  <2>1. PICK id \in RoomIds : Answer(r, id, room)
    BY <1>3 DEF CreateRoom
  <2>2. r.kind = "create"
    BY <1>3 DEF CreateRoom
  <2> QED
    <3>1. room.host = r.name
      BY DEF Room
    <3> HIDE DEF room
    <3> QED
      BY <2>1, <2>2, <3>1 DEF Answer, Answers
<1>4. ASSUME NEW r \in requests, JoinRoom(r) PROVE \E id, room : Answers(r, id, room)
  <2> DEFINE room == Admit(rooms[r.id], r.name)
  <2>1. r.kind = "join" /\ rooms[r.id] # Nothing /\ Answer(r, r.id, room)
    BY <1>4 DEF JoinRoom
  <2>2. r.id \in RoomIds /\ r.name \in Names /\ rooms[r.id] \in RoomSet
    BY <1>1, <1>2, <2>1 DEF WellMade
  <2>3. IsMember(room, r.name)
    BY <2>2, Admitted
  <2> HIDE DEF room
  <2> QED
    BY <2>1, <2>2, <2>3 DEF Answer, Answers
<1>5. ASSUME NEW r \in requests, r.kind = "get", Answer(r, r.id, rooms[r.id])
      PROVE  \E id, room : Answers(r, id, room)
  <2>1. r.id \in RoomIds
    BY <1>1, <1>5 DEF WellMade
  <2> QED
    BY <1>5, <2>1 DEF Answer, Answers
<1>6. ASSUME NEW r \in requests, NotFound(r) PROVE \E id, room : Answers(r, id, room)
  BY <1>6 DEF NotFound, Answer, Answers
<1>7. ASSUME NEW t \in threads, Reply(t)
      PROVE  \E id, room : Answers(t.request, id, room)
  <2>1. /\ t.id \in RoomIds /\ t.request.kind = "create"
        /\ t.request \in awaited => t.host = t.request.name
    BY DEF ThreadInv
  <2>2. RoomOf(t).host = t.host
    BY DEF RoomOf, Room
  <2> QED
    BY <1>7, <2>1, <2>2 DEF Reply, Answer, Answers
<1>8. \A t \in threads : t.request \in RequestSet
  BY DEF ThreadInv
<1>9. CASE NodeStep
  BY <1>1, <1>3, <1>4, <1>5, <1>6, <1>9 DEF NodeStep, BackendHandles, GetRoom, RefuseRoom
<1>10. CASE RustStep
  <2>1. CASE \E r \in requests : ServeGet(r) \/ NoRoute(r)
    BY <1>1, <1>5, <1>6, <2>1 DEF ServeGet, NoRoute
  <2>2. CASE \E r \in requests : \E complete \in BOOLEAN : ReadCreate(r, complete)
    BY <2>2 DEF ReadCreate
  <2>3. CASE \E t \in threads : Insert(t) \/ Reply(t)
    BY <1>7, <1>8, <2>3 DEF Insert
  <2> QED
    BY <1>10, <2>1, <2>2, <2>3 DEF RustStep, ApiServerStep
<1> QED
  BY <1>9, <1>10

\* Requests are numbered anew, and one that is answered is awaited no more.
LEMMA RequestStep ==
  RequestInv /\ ThreadInv /\ TableInv /\ SocketInv /\ ConnectionInv /\ [Next]_vars
    => RequestInv'
<1> SUFFICES ASSUME RequestInv, ThreadInv, TableInv, SocketInv, ConnectionInv, [Next]_vars
             PROVE  RequestInv'
  OBVIOUS
<1>1. ASSUME requests' \subseteq requests, awaited' \subseteq awaited, answers' \subseteq answers,
             \A a \in answers' : a.request \in awaited', calls' = calls,
             mounted' \subseteq mounted
      PROVE  RequestInv'
  BY <1>1 DEF RequestInv, WellMade, RequestSet, WaitingRoomOf
<1>2. ASSUME NEW d \in Devices, TapCreate(d) \/ TapJoin(d) \/ LookUp(d) PROVE RequestInv'
  <2>1. PICK kind \in {"create", "join", "get"}, id \in RoomIds \cup {Nothing},
             name \in Names \cup {Nothing} :
          /\ Request(d, kind, id, name)
          /\ kind \in {"create", "join"} => name \in Names
          /\ kind \in {"join", "get"} => id \in RoomIds
    <3>1. \A name \in NamesOf[d] : name \in Names
      BY DEF Names
    <3> QED
      BY <1>2, <3>1 DEF TapCreate, TapJoin, LookUp
  <2> DEFINE n == calls[d] + 1
             r == [by |-> d, call |-> n, kind |-> kind, id |-> id, name |-> name]
  <2>2. /\ requests' = requests \cup {r} /\ awaited' = awaited \cup {r}
        /\ calls' = [calls EXCEPT ![d] = n]
        /\ calls[d] < MaxCalls[server][d] /\ UNCHANGED <<mounted, answers>>
    BY <2>1 DEF Request, waitingRooms
  <2>3. calls[d] \in Nat /\ n \in Nat /\ n > calls[d] /\ n = calls[d] + 1
    BY DEF RequestInv
  <2>4. WellMade(r) /\ r.call = n /\ r.by = d /\ WaitingRoomOf(r) = <<d, n>>
    BY <2>1, <2>3 DEF WellMade, RequestSet, WaitingRoomOf
  <2>5. <<d, n>> \in Connections
    <3>1. server \in Servers /\ MaxCalls[server][d] \in Nat
      BY WaitingAssumption DEF TableInv, Servers, WaitingAssumption
    <3>2. n \in 1..MaxCalls[server][d]
      BY <2>2, <2>3, <3>1
    <3>3. {d} \X (1..MaxCalls[server][d]) \subseteq Connections
      BY <3>1, WaitingAssumption DEF WaitingAssumption
    <3> QED
      BY <3>2, <3>3
  <2>6. <<d, n>> \notin mounted
    BY <2>3 DEF RequestInv
  <2>7. \A s \in awaited : WaitingRoomOf(s) # <<d, n>>
    BY <2>3 DEF RequestInv, WellMade, RequestSet, WaitingRoomOf
  <2>8. /\ calls' \in [Devices -> Nat] /\ calls'[d] = n
        /\ \A e \in Devices : calls[e] \in Nat /\ calls[e] <= calls'[e]
    BY <2>2, <2>3 DEF RequestInv
  <2>9. \A s \in requests \cup awaited : WellMade(s) /\ s.call <= calls'[s.by]
    <3> SUFFICES ASSUME NEW s \in requests \cup awaited
                 PROVE  WellMade(s) /\ s.call <= calls'[s.by]
      OBVIOUS
    <3>1. WellMade(s) /\ s.call \in Nat /\ s.by \in Devices /\ s.call <= calls[s.by]
      BY DEF RequestInv, WellMade, RequestSet
    <3> QED
      BY <2>8, <3>1
  <2>10. \A e \in Devices, m \in Nat : <<e, m>> \in mounted => m <= calls'[e]
    <3> SUFFICES ASSUME NEW e \in Devices, NEW m \in Nat, <<e, m>> \in mounted
                 PROVE  m <= calls'[e]
      OBVIOUS
    <3>1. m <= calls[e]
      BY DEF RequestInv
    <3> QED
      BY <2>8, <3>1
  <2> HIDE DEF r, n
  <2>11. \A s \in requests' \cup awaited' : WellMade(s) /\ s.call <= calls'[s.by]
    BY <2>2, <2>3, <2>4, <2>8, <2>9
  <2>12. \A s \in awaited' : WaitingRoomOf(s) \in Connections \ mounted'
    BY <2>2, <2>4, <2>5, <2>6 DEF RequestInv
  <2>13. \A s, t \in awaited' : WaitingRoomOf(s) = WaitingRoomOf(t) => s = t
    BY <2>2, <2>4, <2>7 DEF RequestInv
  <2> QED
    BY <2>2, <2>8, <2>10, <2>11, <2>12, <2>13 DEF RequestInv, WellMade
<1>3. ASSUME NEW r \in awaited, GiveUp(r) PROVE RequestInv'
  BY <1>1, <1>3 DEF GiveUp, waitingRooms, bounds, RequestInv
<1>4. ASSUME NEW a \in answers, Receive(a) PROVE RequestInv'
  <2>1. /\ awaited' = awaited \ {a.request} /\ answers' = {b \in answers : b.request # a.request}
        /\ UNCHANGED <<requests, calls>>
    BY <1>4 DEF Receive, bounds
  <2>2. \A b \in answers' : b \in answers /\ b.request \in awaited'
    BY <2>1 DEF RequestInv
  <2>3. CASE StayOnForm(a)
    BY <1>1, <2>1, <2>2, <2>3 DEF StayOnForm, waitingRooms
  <2>4. CASE EnterWaitingRoom(a)
    <3> DEFINE w == WaitingRoomOf(a.request)
    <3>1. mounted' = mounted \cup {w}
      BY <2>4 DEF EnterWaitingRoom
    <3>2. a.request \in awaited /\ w = <<a.request.by, a.request.call>>
      BY DEF RequestInv, WaitingRoomOf
    <3>3. /\ a.request.call \in Nat /\ a.request.by \in Devices
          /\ a.request.call <= calls[a.request.by]
      BY <3>2 DEF RequestInv, WellMade, RequestSet
    <3>4. \A r \in awaited' : WaitingRoomOf(r) \in Connections \ mounted'
      BY <2>1, <3>1, <3>2 DEF RequestInv
    <3>5. \A d \in Devices, n \in Nat : <<d, n>> \in mounted' => n <= calls[d]
      BY <3>1, <3>2, <3>3 DEF RequestInv
    <3> HIDE DEF w
    <3> QED
      BY <2>1, <2>2, <3>4, <3>5 DEF RequestInv, WellMade, WaitingRoomOf
  <2> QED
    BY <1>4, <2>3, <2>4 DEF Receive
<1>5. ASSUME NEW d \in Devices, Leave(d) \/ TapStart(d) \/ \E w \in mounted : Dispose(d, w)
      PROVE  RequestInv'
  <2>1. UNCHANGED <<api, calls>> /\ mounted' \subseteq mounted
    BY <1>5 DEF Leave, TapStart, Dispose, bounds, waitingRooms
  <2> QED
    BY <1>1, <2>1 DEF api, RequestInv
<1>6. ASSUME \/ \E w \in Connections : Connect(w) \/ Drop(w) \/ ServeEvent(w) \/ OnEvent(w)
             \/ \E e \in strays : ServeStray(e)
      PROVE  RequestInv'
  <2>1. UNCHANGED <<api, calls, mounted>>
    BY <1>6 DEF Connect, Drop, ServeEvent, OnEvent, ServeStray, bounds, waitingRooms
  <2> QED
    BY <1>1, <2>1 DEF api, RequestInv
<1>7. CASE NodeStep \/ RustStep
  <2>1. /\ requests' \subseteq requests /\ UNCHANGED <<awaited, calls, mounted>>
    BY <1>7, ServerAnswers DEF waitingRooms
  <2>2. CASE answers' = answers
    BY <1>1, <2>1, <2>2 DEF RequestInv
  <2>3. ASSUME NEW r \in RequestSet, NEW id, NEW room, Answers(r, id, room) PROVE RequestInv'
    <3> DEFINE a == [request |-> r, id |-> id, room |-> room]
    <3>1. /\ (r \in awaited /\ answers' = answers \cup {a}) \/ answers' = answers
          /\ id \in RoomIds \cup {Nothing}
      BY <2>3 DEF Answers
    <3>2. a.request = r /\ a.id = id
      OBVIOUS
    <3> HIDE DEF a
    <3> QED
      BY <2>1, <3>1, <3>2 DEF RequestInv, WellMade, WaitingRoomOf
  <2> QED
    BY <1>7, <2>2, <2>3, NewAnswers
<1>8. CASE UNCHANGED vars
  BY <1>1, <1>8 DEF vars, api, waitingRooms, bounds, RequestInv
<1> QED
  BY <1>2, <1>3, <1>4, <1>5, <1>6, <1>7, <1>8 DEF Next, User

\* A screen replaces another's socket by its own, and is disposed of when it is hidden.
LEMMA SocketStep ==
  RequestInv /\ SocketInv /\ [Next]_vars => SocketInv'
<1> SUFFICES ASSUME RequestInv, SocketInv, [Next]_vars PROVE SocketInv'
  OBVIOUS
<1>1. CASE UNCHANGED <<phones, mounted>>
  BY <1>1 DEF phones, SocketInv
<1>2. ASSUME NEW a \in answers, Receive(a) PROVE SocketInv'
  <2>1. CASE EnterWaitingRoom(a)
    <3> DEFINE w == WaitingRoomOf(a.request)
               d == a.request.by
    <3>1. d \in Devices /\ w \in Connections /\ w[1] = d
      BY DEF RequestInv, WellMade, RequestSet, WaitingRoomOf
    <3>2. /\ front' = [front EXCEPT ![d] = "waiting"] /\ socket' = [socket EXCEPT ![d] = w]
          /\ mounted' = mounted \cup {w}
      BY <2>1 DEF EnterWaitingRoom
    <3>3. w # Nothing
      BY <3>1, WaitingAssumption DEF WaitingAssumption
    <3> HIDE DEF w, d
    <3> QED
      BY <3>1, <3>2, <3>3 DEF SocketInv
  <2>2. CASE StayOnForm(a)
    BY <1>1, <2>2 DEF StayOnForm, waitingRooms
  <2> QED
    BY <1>2, <2>1, <2>2 DEF Receive
<1>3. ASSUME NEW d \in Devices, NEW w \in mounted, Dispose(d, w) PROVE SocketInv'
  <2>1. /\ w[1] = d /\ (front[d] = "form" \/ socket[d] # w)
        /\ mounted' = mounted \ {w} /\ front' = front
        /\ socket' = [socket EXCEPT ![d] = IF @ = w THEN Nothing ELSE @]
    BY <1>3 DEF Dispose
  <2>2. socket' \in [Devices -> Connections \cup {Nothing}]
    BY <2>1 DEF SocketInv
  <2>3. \A e \in Devices :
          socket'[e] = IF e = d /\ socket[e] = w THEN Nothing ELSE socket[e]
    BY <2>1 DEF SocketInv
  <2>4. \A e \in Devices : socket'[e] # Nothing => socket'[e] \in mounted' /\ socket'[e][1] = e
    BY <2>1, <2>3 DEF SocketInv
  <2>5. \A e \in Devices : front[e] = "waiting" => socket'[e] # Nothing
    BY <2>1, <2>3 DEF SocketInv
  <2> QED
    BY <2>1, <2>2, <2>4, <2>5 DEF SocketInv
<1>4. ASSUME NEW d \in Devices, Leave(d) PROVE SocketInv'
  BY <1>4 DEF Leave, waitingRooms, SocketInv
<1>5. CASE NodeStep \/ RustStep
  BY <1>1, <1>5, ServerAnswers DEF waitingRooms
<1>6. CASE /\ ~NodeStep /\ ~RustStep /\ ~(\E a \in answers : Receive(a))
           /\ ~(\E d \in Devices : Leave(d) \/ \E w \in mounted : Dispose(d, w))
  <2> DEFINE Still == UNCHANGED <<phones, mounted>>
  <2>1. ASSUME NEW d \in Devices, TapCreate(d) \/ TapJoin(d) \/ LookUp(d) \/ TapStart(d)
        PROVE  Still
    BY <2>1 DEF TapCreate, TapJoin, LookUp, Request, TapStart, waitingRooms
  <2>2. ASSUME NEW w \in Connections, Connect(w) \/ Drop(w) \/ ServeEvent(w) \/ OnEvent(w)
        PROVE  Still
    BY <2>2 DEF Connect, Drop, ServeEvent, OnEvent, waitingRooms
  <2>3. ASSUME \/ \E r \in awaited : GiveUp(r)
               \/ \E e \in strays : ServeStray(e)
        PROVE  Still
    BY <2>3 DEF GiveUp, ServeStray, waitingRooms
  <2>4. ASSUME UNCHANGED vars PROVE Still
    BY <2>4 DEF vars, waitingRooms
  <2>5. Still
    BY <1>6, <2>1, <2>2, <2>3, <2>4 DEF Next, User
  <2> QED
    BY <1>1, <2>5
<1> QED
  BY <1>2, <1>3, <1>4, <1>5, <1>6

\* Only a server fills its table, or answers.
LEMMA NobodyElseServes ==
  ASSUME [Next]_vars, ~NodeStep, ~RustStep
  PROVE  UNCHANGED <<rooms, created, server>> /\ answers' \subseteq answers
<1>1. ASSUME NEW d \in Devices, TapCreate(d) \/ TapJoin(d) \/ LookUp(d)
      PROVE  UNCHANGED <<rooms, created, server, answers>>
  BY <1>1 DEF TapCreate, TapJoin, LookUp, Request
<1>2. ASSUME NEW d \in Devices, TapStart(d) \/ Leave(d) \/ \E w \in mounted : Dispose(d, w)
      PROVE  UNCHANGED <<rooms, created, server, answers>>
  BY <1>2 DEF TapStart, Leave, Dispose, api
<1>3. ASSUME \/ \E w \in Connections : Connect(w) \/ Drop(w) \/ ServeEvent(w) \/ OnEvent(w)
             \/ \E e \in strays : ServeStray(e)
      PROVE  UNCHANGED <<rooms, created, server, answers>>
  BY <1>3 DEF Connect, Drop, ServeEvent, OnEvent, ServeStray, api
<1>4. ASSUME NEW r \in awaited, GiveUp(r)
      PROVE  UNCHANGED <<rooms, created, server>> /\ answers' \subseteq answers
  BY <1>4 DEF GiveUp
<1>5. ASSUME NEW a \in answers, Receive(a)
      PROVE  UNCHANGED <<rooms, created, server>> /\ answers' \subseteq answers
  BY <1>5 DEF Receive
<1>6. CASE UNCHANGED vars
  BY <1>6 DEF vars, api
<1> QED
  BY <1>1, <1>2, <1>3, <1>4, <1>5, <1>6 DEF Next, User

LEMMA AnswerStep ==
  RequestInv /\ ThreadInv /\ TableInv /\ AnswerIsOwn /\ [Next]_vars => AnswerIsOwn'
<1> SUFFICES ASSUME RequestInv, ThreadInv, TableInv, AnswerIsOwn, [Next]_vars
             PROVE  AnswerIsOwn'
  OBVIOUS
<1>1. ASSUME answers' \subseteq answers PROVE AnswerIsOwn'
  BY <1>1 DEF AnswerIsOwn
<1>2. CASE NodeStep \/ RustStep
  <2>1. CASE answers' = answers
    BY <1>1, <2>1
  <2>2. ASSUME NEW r \in RequestSet, NEW id, NEW room, Answers(r, id, room)
        PROVE  AnswerIsOwn'
    <3> DEFINE a == [request |-> r, id |-> id, room |-> room]
    <3>1. (r \in awaited /\ answers' = answers \cup {a}) \/ answers' = answers
      BY <2>2 DEF Answers
    <3>2. a.request = r /\ a.id = id /\ a.room = room
      OBVIOUS
    <3> HIDE DEF a
    <3> QED
      BY <2>2, <3>1, <3>2 DEF AnswerIsOwn, Answers
  <2> QED
    BY <1>2, <2>1, <2>2, NewAnswers
<1>3. CASE ~(NodeStep \/ RustStep)
  <2>1. answers' \subseteq answers
    BY <1>3, NobodyElseServes
  <2> QED
    BY <1>1, <2>1
<1> QED
  BY <1>2, <1>3

LEMMA ThreadStep == RequestInv /\ ThreadInv /\ TableInv /\ [Next]_vars => ThreadInv'
<1> SUFFICES ASSUME RequestInv, ThreadInv, TableInv, [Next]_vars PROVE ThreadInv'
  OBVIOUS
<1>0. calls \in [Devices -> Nat] /\ created \in Nat
  BY DEF RequestInv, TableInv
<1>1. ASSUME threads' = threads, calls' \in [Devices -> Nat], created' \in Nat,
             \A d \in Devices : calls[d] <= calls'[d], created <= created',
             \A r \in awaited' : r \in awaited \/ r.call > calls[r.by]
      PROVE  ThreadInv'
  <2> SUFFICES ASSUME NEW t \in threads
               PROVE  /\ t.request.call <= calls'[t.request.by] /\ t.number <= created'
                      /\ t.request \in awaited' => t.host = t.request.name
    BY <1>1 DEF ThreadInv
  <2>1. /\ t.request.call <= calls[t.request.by] /\ t.request.call \in Nat
        /\ t.request.by \in Devices
        /\ t.number <= created /\ t.number \in Nat
        /\ t.request \in awaited => t.host = t.request.name
    BY DEF ThreadInv, RequestSet
  <2> QED
    BY <1>0, <1>1, <2>1
<1>2. CASE RustStep
  <2>1. UNCHANGED <<awaited, calls>>
    BY <1>2, ServerAnswers
  <2>2. ASSUME NEW r \in requests, NEW complete \in BOOLEAN, ReadCreate(r, complete)
        PROVE  ThreadInv'
    <3>1. PICK id \in RoomIds :
            threads' = threads \cup
              {[request |-> r, id |-> id, stored |-> FALSE,
                host |-> IF complete THEN r.name ELSE DefaultHost, number |-> created + 1]}
      BY <2>2 DEF ReadCreate, GeneratedRoomIds
    <3>2. /\ r.kind = "create" /\ (complete \/ r \notin awaited) /\ created' = created + 1
      BY <2>2 DEF ReadCreate
    <3>3. WellMade(r) /\ r.call <= calls[r.by]
      BY DEF RequestInv
    <3> DEFINE h == IF complete THEN r.name ELSE DefaultHost
               n == [request |-> r, id |-> id, stored |-> FALSE, host |-> h,
                     number |-> created + 1]
    <3>4. h \in Names \cup {DefaultHost} /\ (complete => h = r.name)
      BY <3>2, <3>3 DEF WellMade
    <3> HIDE DEF h
    <3>5. /\ n \in [request : RequestSet, id : RoomIds, stored : BOOLEAN,
                    host : Names \cup {DefaultHost}, number : Nat]
          /\ n.request = r /\ n.number = created + 1 /\ n.host = h
      BY <1>0, <3>3, <3>4 DEF WellMade
    <3>6. threads' = threads \cup {n}
      BY <3>1 DEF h
    <3> HIDE DEF n
    <3>7. \A t \in threads : t.number \in Nat /\ t.number <= created
      BY DEF ThreadInv
    <3> QED
      BY <1>0, <2>1, <3>2, <3>3, <3>4, <3>5, <3>6, <3>7 DEF ThreadInv
  <2>3. ASSUME NEW t \in threads, Insert(t) PROVE ThreadInv'
    <3> DEFINE n == [t EXCEPT !.stored = TRUE]
    <3>1. threads' = (threads \ {t}) \cup {n} /\ created' = created
      BY <2>3 DEF Insert
    <3>2. t \in [request : RequestSet, id : RoomIds, stored : BOOLEAN,
                 host : Names \cup {DefaultHost}, number : Nat]
      BY DEF ThreadInv
    <3>3. /\ n \in [request : RequestSet, id : RoomIds, stored : BOOLEAN,
                    host : Names \cup {DefaultHost}, number : Nat]
          /\ n.request = t.request /\ n.number = t.number /\ n.host = t.host
      BY <3>2
    <3> HIDE DEF n
    <3> QED
      BY <2>1, <3>1, <3>3 DEF ThreadInv
  <2>4. ASSUME threads' \subseteq threads, created' = created PROVE ThreadInv'
    BY <2>1, <2>4 DEF ThreadInv
  <2> QED
    BY <1>2, <2>2, <2>3, <2>4 DEF RustStep, ApiServerStep, ServeGet, NoRoute, Reply
<1>3. CASE NodeStep
  <2>1. UNCHANGED <<awaited, calls>>
    BY <1>3, ServerAnswers
  <2>2. threads' = threads /\ created' \in {created, created + 1}
    BY <1>3 DEF NodeStep, BackendHandles, CreateRoom, JoinRoom, GetRoom, RefuseRoom
  <2>3. \A d \in Devices : calls[d] <= calls'[d]
    BY <1>0, <2>1
  <2> QED
    BY <1>0, <1>1, <2>1, <2>2, <2>3
<1>4. ASSUME NEW d \in Devices, TapCreate(d) \/ TapJoin(d) \/ LookUp(d) PROVE ThreadInv'
  <2>1. PICK kind, id, name : Request(d, kind, id, name)
    BY <1>4 DEF TapCreate, TapJoin, LookUp
  <2>2. /\ UNCHANGED <<threads, created>> /\ calls' = [calls EXCEPT ![d] = @ + 1]
        /\ \A r \in awaited' : r \in awaited \/ (r.call = calls[d] + 1 /\ r.by = d)
    BY <2>1 DEF Request
  <2>3. /\ calls' \in [Devices -> Nat] /\ \A e \in Devices : calls[e] <= calls'[e]
        /\ calls[d] + 1 > calls[d]
    BY <1>0, <2>2
  <2> QED
    BY <1>0, <1>1, <2>2, <2>3
<1>5. CASE /\ ~NodeStep /\ ~RustStep
           /\ ~(\E d \in Devices : TapCreate(d) \/ TapJoin(d) \/ LookUp(d))
  <2>1. UNCHANGED <<threads, created, calls>> /\ awaited' \subseteq awaited
    BY <1>5 DEF Next, User, GiveUp, Receive, TapStart, Leave, Dispose,
       Connect, Drop, ServeEvent, OnEvent, ServeStray, vars, api, bounds
  <2>2. \A d \in Devices : calls[d] <= calls'[d]
    BY <1>0, <2>1
  <2> QED
    BY <1>0, <1>1, <2>1, <2>2
<1> QED
  BY <1>2, <1>3, <1>4, <1>5

-----------------------------------------------------------------------------
(* The table of rooms, step by step *)

LEMMA OneMember ==
  ASSUME NEW e \in MemberSet, e.host = TRUE
  PROVE  <<e>> \in Seq(MemberSet) /\ Listed(<<e>>)
<1> DEFINE m == <<e>>
<1>1. m \in Seq(MemberSet) /\ DOMAIN m = {1} /\ m[1] = e /\ m # <<>>
  <2>1. m = Append(<<>>, e) /\ Len(m) = 1 /\ m \in Seq(MemberSet)
    OBVIOUS
  <2>2. DOMAIN m = 1..1 /\ m[1] = e
    BY <2>1
  <2> HIDE DEF m
  <2>3. m # <<>>
    BY <2>1
  <2> QED
    BY <2>1, <2>2, <2>3
<1> HIDE DEF m
<1>2. Listed(m)
  BY <1>1 DEF Listed
<1> QED
  BY <1>1, <1>2 DEF m

LEMMA TableStep ==
  RequestInv /\ ThreadInv /\ TableInv /\ [Next]_vars => TableInv' /\ server' = server
<1> SUFFICES ASSUME RequestInv, ThreadInv, TableInv, [Next]_vars
             PROVE  TableInv' /\ server' = server
  OBVIOUS
<1>1. ASSUME rooms' = rooms, server' = server, created' \in {created, created + 1}
      PROVE  TableInv' /\ server' = server
  <2>1. \A id \in RoomIds : rooms[id] # Nothing => rooms[id].number \in Nat
    BY DEF TableInv, RoomSet
  <2>2. created' \in Nat /\ created <= created'
    BY <1>1 DEF TableInv
  <2> QED
    BY <1>1, <2>1, <2>2 DEF TableInv
<1>2. CASE NodeStep
  <2>1. server' = server /\ server = "node"
    BY <1>2 DEF NodeStep
  <2>2. ASSUME NEW r \in requests, CreateRoom(r) PROVE TableInv'
    <3> DEFINE new == Room(created + 1, r.name, <<Member(r.name, TRUE)>>)
    <3>1. PICK id \in RoomIds : rooms' = [rooms EXCEPT ![id] = new]
      BY <2>2 DEF CreateRoom
    <3>2. created' = created + 1 /\ r.name \in Names
      BY <2>2 DEF CreateRoom, RequestInv, WellMade
    <3>3. PICK m \in Seq(MemberSet) :
            m = <<Member(r.name, TRUE)>> /\ Listed(m)
      <4>1. Member(r.name, TRUE) \in MemberSet /\ Member(r.name, TRUE).host = TRUE
        BY <3>2 DEF Member, MemberSet
      <4> QED
        BY <4>1, OneMember
    <3>5. new \in RoomSet /\ new.number = created + 1 /\ new.members = m
      <4>1. created + 1 \in Nat
        BY DEF TableInv
      <4> QED
        BY <3>2, <3>3, <4>1 DEF Room, RoomSet
    <3> HIDE DEF new
    <3>6. \A i \in RoomIds : rooms'[i] = IF i = id THEN new ELSE rooms[i]
      BY <3>1 DEF TableInv
    <3>7. \A i \in RoomIds : rooms[i] # Nothing =>
            /\ rooms[i].number \in Nat /\ rooms[i].number <= created
            /\ Listed(rooms[i].members)
      BY <2>1 DEF TableInv, RoomSet
    <3>8. rooms' \in [RoomIds -> RoomSet \cup {Nothing}] /\ created \in Nat
      BY <3>1, <3>5 DEF TableInv
    <3>9. \A i \in RoomIds : rooms'[i] # Nothing =>
            rooms'[i].number <= created' /\ Listed(rooms'[i].members)
      <4> SUFFICES ASSUME NEW i \in RoomIds, rooms'[i] # Nothing
                   PROVE  rooms'[i].number <= created' /\ Listed(rooms'[i].members)
        OBVIOUS
      <4>1. CASE i = id
        <5>1. rooms'[i] = new
          BY <3>6, <4>1
        <5>2. new.number <= created'
          BY <3>2, <3>5, <3>8
        <5>3. Listed(new.members)
          BY <3>3, <3>5
        <5> QED
          BY <5>1, <5>2, <5>3
      <4>2. CASE i # id
        BY <3>2, <3>6, <3>7, <3>8, <4>2
      <4> QED
        BY <4>1, <4>2
    <3>10. \A i, j \in RoomIds :
             rooms'[i] # Nothing /\ rooms'[j] # Nothing /\ rooms'[i].number = rooms'[j].number
               => i = j
      BY <2>1, <3>5, <3>6, <3>7, <3>8 DEF TableInv
    <3> QED
      BY <2>1, <3>2, <3>8, <3>9, <3>10 DEF TableInv
  <2>3. ASSUME NEW r \in requests, JoinRoom(r) PROVE TableInv'
    <3> DEFINE new == Admit(rooms[r.id], r.name)
    <3>1. rooms' = [rooms EXCEPT ![r.id] = new] /\ created' = created /\ rooms[r.id] # Nothing
      BY <2>3 DEF JoinRoom
    <3>2. r.id \in RoomIds /\ r.name \in Names
      BY <2>3 DEF JoinRoom, RequestInv, WellMade
    <3>3. /\ new \in RoomSet /\ new.number = rooms[r.id].number
          /\ Listed(rooms[r.id].members) => Listed(new.members)
      BY <3>1, <3>2, Admitted DEF TableInv
    <3> HIDE DEF new
    <3>4. \A i \in RoomIds : rooms'[i] = IF i = r.id THEN new ELSE rooms[i]
      BY <3>1 DEF TableInv
    <3> QED
      BY <2>1, <3>1, <3>2, <3>3, <3>4 DEF TableInv
  <2>4. ASSUME NEW r \in requests, GetRoom(r) \/ RefuseRoom(r) PROVE TableInv'
    BY <1>1, <2>1, <2>4 DEF GetRoom, RefuseRoom
  <2> QED
    BY <1>2, <2>1, <2>2, <2>3, <2>4 DEF NodeStep, BackendHandles
<1>3. CASE RustStep
  <2>1. server' = server /\ server = "rust"
    BY <1>3 DEF RustStep
  <2>2. ASSUME NEW t \in threads, Insert(t) PROVE TableInv'
    <3>1. rooms' = [rooms EXCEPT ![t.id] = RoomOf(t)] /\ created' = created
      BY <2>2 DEF Insert
    <3>2. /\ RoomOf(t) \in RoomSet /\ RoomOf(t).number <= created /\ t.id \in RoomIds
      <4>1. <<>> \in Seq(MemberSet)
        OBVIOUS
      <4> QED
        BY <4>1 DEF ThreadInv, RoomOf, Room, RoomSet
    <3> QED
      BY <2>1, <3>1, <3>2 DEF TableInv
  <2> QED
    BY <1>1, <1>3, <2>1, <2>2
       DEF RustStep, ApiServerStep, ReadCreate, ServeGet, NoRoute, Reply
<1>4. CASE ~NodeStep /\ ~RustStep
  <2>1. UNCHANGED <<rooms, created, server>>
    BY <1>4, NobodyElseServes
  <2> QED
    BY <1>1, <2>1
<1> QED
  BY <1>2, <1>3, <1>4

-----------------------------------------------------------------------------
(* Connections, step by step *)

LEMMA Emitted ==
  ASSUME ConnectionInv, NEW event \in EventSet, NEW id, Emit(event, id)
  PROVE  /\ downlink' \in [Connections -> Seq(EventSet)]
         /\ \A w \in Connections : \/ downlink'[w] = downlink[w] /\ id \notin subscribed[w]
                                   \/ /\ id \in subscribed[w]
                                      /\ downlink'[w] = Append(downlink[w], event)
<1>1. \A w \in Connections : downlink[w] \in Seq(EventSet)
  BY DEF ConnectionInv, ConnectionTypes
<1>2. \A w \in Connections : Append(downlink[w], event) \in Seq(EventSet)
  BY <1>1, OneMore
<1> QED
  BY <1>1, <1>2 DEF Emit, Audience

LEMMA OneLess ==
  ASSUME NEW S, NEW s \in Seq(S), s # <<>>
  PROVE  /\ Tail(s) \in Seq(S) /\ Head(s) = s[1] /\ 1 \in DOMAIN s /\ Head(s) \in S
         /\ \A i \in DOMAIN Tail(s) :
              Tail(s)[i] = s[i + 1] /\ i + 1 \in DOMAIN s /\ i \in Nat /\ 1 < i + 1
OBVIOUS

LEMMA OneConnectionMoves ==
  ASSUME ConnectionInv, NEW w \in Connections, parties' = parties, ConnectionTypes',
         OwnRoom(w)',
         \A v \in Connections : v # w =>
           /\ v \in mounted' <=> v \in mounted
           /\ code'[v] = code[v] /\ pushed'[v] = pushed[v] /\ link'[v] = link[v]
           /\ uplink'[v] = uplink[v] /\ downlink'[v] = downlink[v]
           /\ subscribed'[v] = subscribed[v]
  PROVE  ConnectionInv'
<1> SUFFICES ASSUME NEW v \in Connections, v # w PROVE OwnRoom(v)'
  BY DEF ConnectionInv
<1> QED
  BY DEF ConnectionInv, OwnRoom

LEMMA ConnectionsAlone ==
  ASSUME ConnectionInv, UNCHANGED <<sockets, waitingRooms, link, uplink, starts>>
  PROVE  ConnectionInv'
BY DEF ConnectionInv, ConnectionTypes, OwnRoom, sockets, waitingRooms

\* A waiting room that is entered was not mounted before, and has a connection of its
\* own.
LEMMA EnterStep ==
  ASSUME RequestInv, ConnectionInv, SeenInv, NEW a \in answers, Receive(a),
         EnterWaitingRoom(a)
  PROVE  ConnectionInv'
<1> DEFINE w == WaitingRoomOf(a.request)
           up == <<[event |-> "join-room", id |-> a.id, tap |-> 0]>>
<1>1. w \in Connections \ mounted /\ a.id \in RoomIds \cup {Nothing}
  BY DEF RequestInv
<1>2. a.room \in RoomSet
  BY DEF SeenInv, Copy, EnterWaitingRoom
<1>3. /\ mounted' = mounted \cup {w} /\ code' = [code EXCEPT ![w] = a.id]
      /\ shown' = [shown EXCEPT ![w] = a.room] /\ uplink' = [uplink EXCEPT ![w] = up]
      /\ link' = [link EXCEPT ![w] = "down"]
      /\ UNCHANGED <<pushed, downlink, subscribed, parties, starts>>
  BY DEF Receive, EnterWaitingRoom, sockets, bounds
<1>4. up \in Seq(UplinkSet) /\ \A i \in DOMAIN up : up[i].id = a.id
  BY <1>1 DEF UplinkSet
<1> HIDE DEF up, w
<1>5. ConnectionTypes'
  BY <1>1, <1>2, <1>3, <1>4 DEF ConnectionInv, ConnectionTypes
<1>6. pushed[w] = 0 /\ downlink[w] = <<>> /\ subscribed[w] = {}
  BY <1>1 DEF ConnectionInv, OwnRoom
<1>7. /\ w \in mounted' /\ code'[w] = a.id /\ uplink'[w] = up /\ link'[w] = "down"
      /\ pushed'[w] = 0 /\ downlink'[w] = <<>> /\ subscribed'[w] = {}
  BY <1>1, <1>3, <1>6 DEF ConnectionInv, ConnectionTypes
<1>8. OwnRoom(w)'
  BY <1>4, <1>7 DEF OwnRoom
<1>9. \A v \in Connections : v # w =>
        /\ v \in mounted' <=> v \in mounted
        /\ code'[v] = code[v] /\ pushed'[v] = pushed[v] /\ link'[v] = link[v]
        /\ uplink'[v] = uplink[v] /\ downlink'[v] = downlink[v]
        /\ subscribed'[v] = subscribed[v]
  BY <1>1, <1>3 DEF ConnectionInv, ConnectionTypes
<1> QED
  BY <1>1, <1>3, <1>5, <1>8, <1>9, OneConnectionMoves

\* Connections that end forget all that was on its way.
LEMMA CutOffEnds ==
  ASSUME ConnectionInv, NEW ended, NEW state, CutOff(ended, state),
         \A w \in ended : state[w] \in {"none", "down", "closed"}
  PROVE  /\ link' \in [Connections -> {"none", "down", "up", "closed"}]
         /\ uplink' \in [Connections -> Seq(UplinkSet)]
         /\ downlink' \in [Connections -> Seq(EventSet)]
         /\ subscribed' \in [Connections -> SUBSET (RoomIds \cup {Nothing})]
         /\ parties' = parties
         /\ \A w \in Connections :
              IF w \in ended
              THEN /\ link'[w] = state[w] /\ uplink'[w] = <<>>
                   /\ downlink'[w] = <<>> /\ subscribed'[w] = {}
              ELSE /\ link'[w] = link[w] /\ uplink'[w] = uplink[w]
                   /\ downlink'[w] = downlink[w] /\ subscribed'[w] = subscribed[w]
<1>1. /\ link' = [w \in Connections |-> IF w \in ended THEN state[w] ELSE link[w]]
      /\ uplink' = [w \in Connections |-> IF w \in ended THEN <<>> ELSE uplink[w]]
      /\ subscribed' = [w \in Connections |-> IF w \in ended THEN {} ELSE subscribed[w]]
      /\ downlink' = [w \in Connections |-> IF w \in ended THEN <<>> ELSE downlink[w]]
      /\ parties' = parties
  BY DEF CutOff, Disconnect
<1>2. <<>> \in Seq(UplinkSet) /\ <<>> \in Seq(EventSet)
  OBVIOUS
<1>3. uplink' \in [Connections -> Seq(UplinkSet)]
  BY <1>1, <1>2 DEF ConnectionInv, ConnectionTypes
<1>4. downlink' \in [Connections -> Seq(EventSet)]
  BY <1>1, <1>2 DEF ConnectionInv, ConnectionTypes
<1>5. link' \in [Connections -> {"none", "down", "up", "closed"}]
  BY <1>1 DEF ConnectionInv, ConnectionTypes
<1>6. subscribed' \in [Connections -> SUBSET (RoomIds \cup {Nothing})]
  BY <1>1 DEF ConnectionInv, ConnectionTypes
<1> QED
  BY <1>1, <1>3, <1>4, <1>5, <1>6

LEMMA DropStep ==
  ASSUME ConnectionInv, NEW w \in Connections, Drop(w)
  PROVE  ConnectionInv'
<1> DEFINE state == [v \in {w} |-> "down"]
<1>1. link[w] = "up" /\ CutOff({w}, state) /\ UNCHANGED <<waitingRooms, starts>>
  BY DEF Drop
<1>2. \A v \in {w} : state[v] = "down"
  OBVIOUS
<1> HIDE DEF state
<1>3. /\ link' \in [Connections -> {"none", "down", "up", "closed"}]
      /\ uplink' \in [Connections -> Seq(UplinkSet)]
      /\ downlink' \in [Connections -> Seq(EventSet)]
      /\ subscribed' \in [Connections -> SUBSET (RoomIds \cup {Nothing})]
      /\ parties' = parties
      /\ \A v \in Connections :
           IF v \in {w}
           THEN /\ link'[v] = state[v] /\ uplink'[v] = <<>>
                /\ downlink'[v] = <<>> /\ subscribed'[v] = {}
           ELSE /\ link'[v] = link[v] /\ uplink'[v] = uplink[v]
                /\ downlink'[v] = downlink[v] /\ subscribed'[v] = subscribed[v]
  BY <1>1, <1>2, CutOffEnds
<1>4. ConnectionTypes'
  BY <1>1, <1>3 DEF ConnectionInv, ConnectionTypes, waitingRooms
<1>5. /\ w \in mounted' /\ link'[w] = "down" /\ uplink'[w] = <<>> /\ downlink'[w] = <<>>
      /\ subscribed'[w] = {} /\ code' = code /\ pushed' = pushed
  BY <1>1, <1>2, <1>3 DEF ConnectionInv, OwnRoom, waitingRooms
<1>6. OwnRoom(w)'
  BY <1>3, <1>5 DEF ConnectionInv, OwnRoom
<1> QED
  BY <1>1, <1>3, <1>4, <1>6, OneConnectionMoves DEF waitingRooms

\* A waiting room that is gone is blank, and the one whose socket went with it keeps
\* what it shows.
LEMMA DisposeStep ==
  ASSUME SocketInv, ConnectionInv, NEW d \in Devices, NEW w \in mounted, Dispose(d, w)
  PROVE  ConnectionInv'
<1> DEFINE ended == {w, socket[d]} \ {Nothing}
           state == [v \in ended |-> IF v = w THEN "none" ELSE "closed"]
<1>1. /\ CutOff(ended, state) /\ mounted' = mounted \ {w}
      /\ code' = [code EXCEPT ![w] = Nothing] /\ shown' = [shown EXCEPT ![w] = Nothing]
      /\ pushed' = [pushed EXCEPT ![w] = 0] /\ starts' = starts
  BY DEF Dispose, bounds
<1>2. /\ w \in Connections /\ w # Nothing /\ w \in ended
      /\ \A v \in ended : v \in mounted
  BY WaitingAssumption DEF SocketInv, WaitingAssumption
<1>3. \A v \in ended : state[v] = IF v = w THEN "none" ELSE "closed"
  OBVIOUS
<1> HIDE DEF ended, state
<1>4. \A v \in ended : state[v] \in {"none", "down", "closed"}
  BY <1>3
<1>5. /\ link' \in [Connections -> {"none", "down", "up", "closed"}]
      /\ uplink' \in [Connections -> Seq(UplinkSet)]
      /\ downlink' \in [Connections -> Seq(EventSet)]
      /\ subscribed' \in [Connections -> SUBSET (RoomIds \cup {Nothing})]
      /\ parties' = parties
      /\ \A v \in Connections :
           IF v \in ended
           THEN /\ link'[v] = state[v] /\ uplink'[v] = <<>>
                /\ downlink'[v] = <<>> /\ subscribed'[v] = {}
           ELSE /\ link'[v] = link[v] /\ uplink'[v] = uplink[v]
                /\ downlink'[v] = downlink[v] /\ subscribed'[v] = subscribed[v]
  BY <1>1, <1>4, CutOffEnds
<1>6. /\ code' \in [Connections -> RoomIds \cup {Nothing}]
      /\ shown' \in [Connections -> RoomSet \cup {Nothing}]
      /\ pushed' \in [Connections -> Nat]
  <2>1. code' \in [Connections -> RoomIds \cup {Nothing}]
    BY <1>1 DEF ConnectionInv, ConnectionTypes
  <2>2. shown' \in [Connections -> RoomSet \cup {Nothing}]
    BY <1>1 DEF ConnectionInv, ConnectionTypes
  <2>3. pushed' \in [Connections -> Nat]
    BY <1>1 DEF ConnectionInv, ConnectionTypes
  <2> QED
    BY <2>1, <2>2, <2>3
<1>7. ConnectionTypes'
  BY <1>1, <1>5, <1>6 DEF ConnectionInv, ConnectionTypes
<1>8. /\ pushed'[w] = 0
      /\ \A v \in Connections : v # w => code'[v] = code[v] /\ pushed'[v] = pushed[v]
  BY <1>1, <1>2 DEF ConnectionInv, ConnectionTypes
<1>9. ASSUME NEW v \in Connections PROVE OwnRoom(v)'
  <2>1. OwnRoom(v)
    BY DEF ConnectionInv
  <2>2. CASE v = w
    <3>1. /\ v \notin mounted' /\ link'[v] = "none" /\ uplink'[v] = <<>>
          /\ downlink'[v] = <<>> /\ subscribed'[v] = {} /\ pushed'[v] = 0
      BY <1>1, <1>2, <1>3, <1>5, <1>8, <2>2
    <3>2. DOMAIN uplink'[v] = {} /\ DOMAIN downlink'[v] = {} /\ ~(pushed'[v] > 0)
      BY <3>1
    <3> QED
      BY <3>1, <3>2 DEF OwnRoom
  <2>3. CASE v # w /\ v \in ended
    <3>1. /\ v \in mounted' /\ link'[v] = "closed" /\ uplink'[v] = <<>>
          /\ downlink'[v] = <<>> /\ subscribed'[v] = {}
          /\ code'[v] = code[v] /\ pushed'[v] = pushed[v]
      BY <1>1, <1>2, <1>3, <1>5, <1>8, <2>3
    <3> QED
      BY <1>5, <2>1, <3>1 DEF OwnRoom
  <2>4. CASE v # w /\ v \notin ended
    <3>1. /\ v \in mounted' <=> v \in mounted
          /\ link'[v] = link[v] /\ uplink'[v] = uplink[v]
          /\ downlink'[v] = downlink[v] /\ subscribed'[v] = subscribed[v]
          /\ code'[v] = code[v] /\ pushed'[v] = pushed[v]
      BY <1>1, <1>5, <1>8, <2>4
    <3> QED
      BY <1>5, <2>1, <3>1 DEF OwnRoom
  <2> QED
    BY <2>2, <2>3, <2>4
<1> QED
  BY <1>7, <1>9 DEF ConnectionInv

LEMMA TapStartStep ==
  ASSUME SocketInv, ConnectionInv, NEW d \in Devices, TapStart(d)
  PROVE  ConnectionInv'
<1>0. socket[d] \in mounted /\ socket[d] \in Connections
  BY DEF SocketInv, TapStart
<1>2. PICK w \in Connections : w = socket[d] /\ w \in mounted
  BY <1>0
<1> DEFINE n == starts + 1
           e == [event |-> "start-party", id |-> code[w], tap |-> n]
<1>1. /\ uplink' = IF link[w] = "closed" THEN uplink ELSE [uplink EXCEPT ![w] = Append(@, e)]
      /\ starts' = n
      /\ UNCHANGED <<mounted, code, shown, pushed, link, downlink, subscribed, parties>>
  BY <1>2 DEF TapStart, sockets, waitingRooms
<1>3. n \in Nat
  BY DEF ConnectionInv, ConnectionTypes
<1> HIDE DEF n
<1>4. e \in UplinkSet /\ e.id = code[w] /\ uplink[w] \in Seq(UplinkSet)
  BY <1>2, <1>3 DEF ConnectionInv, ConnectionTypes, UplinkSet
<1> HIDE DEF e
<1>5. /\ uplink'[w] \in {uplink[w], Append(uplink[w], e)}
      /\ \A v \in Connections : v # w => uplink'[v] = uplink[v]
  BY <1>1, <1>2 DEF ConnectionInv, ConnectionTypes
<1>6. /\ uplink'[w] \in Seq(UplinkSet)
      /\ \A i \in DOMAIN uplink'[w] :
           uplink'[w][i] = e \/ (i \in DOMAIN uplink[w] /\ uplink'[w][i] = uplink[w][i])
  <2>1. CASE uplink'[w] = uplink[w]
    BY <1>4, <2>1
  <2>2. CASE uplink'[w] = Append(uplink[w], e)
    <3> DEFINE all == Append(uplink[w], e)
    <3>1. /\ all \in Seq(UplinkSet) /\ DOMAIN all = DOMAIN uplink[w] \cup {Len(uplink[w]) + 1}
          /\ \A i \in DOMAIN uplink[w] : all[i] = uplink[w][i]
          /\ all[Len(uplink[w]) + 1] = e
      BY <1>4, OneMore
    <3> HIDE DEF all
    <3>2. uplink'[w] = all
      BY <2>2 DEF all
    <3> QED
      BY <3>1, <3>2
  <2> QED
    BY <1>5, <2>1, <2>2
<1>7. ConnectionTypes'
  <2>1. uplink' \in [Connections -> Seq(UplinkSet)]
    BY <1>1, <1>2, <1>6 DEF ConnectionInv, ConnectionTypes
  <2> QED
    BY <1>1, <1>3, <2>1 DEF ConnectionInv, ConnectionTypes
<1>8. OwnRoom(w)'
  <2>1. OwnRoom(w)
    BY <1>2 DEF ConnectionInv
  <2>2. \A i \in DOMAIN uplink'[w] : uplink'[w][i].id = code[w]
    BY <1>4, <1>6, <2>1 DEF OwnRoom
  <2> QED
    BY <1>1, <1>2, <2>1, <2>2 DEF OwnRoom
<1>9. \A v \in Connections : v # w =>
        /\ v \in mounted' <=> v \in mounted
        /\ code'[v] = code[v] /\ pushed'[v] = pushed[v] /\ link'[v] = link[v]
        /\ uplink'[v] = uplink[v] /\ downlink'[v] = downlink[v]
        /\ subscribed'[v] = subscribed[v]
  BY <1>1, <1>5
<1> QED
  BY <1>1, <1>2, <1>7, <1>8, <1>9, OneConnectionMoves

LEMMA ConnectStep ==
  ASSUME ConnectionInv, NEW w \in Connections, Connect(w)
  PROVE  ConnectionInv'
<1>1. /\ link[w] = "down" /\ link' = [link EXCEPT ![w] = "up"]
      /\ UNCHANGED <<mounted, code, shown, pushed, uplink, downlink, subscribed, parties,
                     starts>>
  BY DEF Connect, sockets, waitingRooms, bounds
<1>2. ConnectionTypes'
  BY <1>1 DEF ConnectionInv, ConnectionTypes
<1>3. link'[w] = "up" /\ \A v \in Connections : v # w => link'[v] = link[v]
  BY <1>1 DEF ConnectionInv, ConnectionTypes
<1>4. OwnRoom(w)'
  BY <1>1, <1>3 DEF ConnectionInv, OwnRoom
<1> QED
  BY <1>1, <1>2, <1>3, <1>4, OneConnectionMoves

LEMMA OnEventStep ==
  ASSUME ConnectionInv, NEW w \in Connections, OnEvent(w)
  PROVE  ConnectionInv'
<1>1. /\ link[w] = "up" /\ downlink[w] # <<>> /\ downlink' = [downlink EXCEPT ![w] = Tail(@)]
      /\ \/ Head(downlink[w]).event = "room-updated" /\ pushed' = pushed
            /\ shown' = [shown EXCEPT ![w] = Head(downlink[w]).room]
         \/ Head(downlink[w]).event = "party-started" /\ shown' = shown
            /\ pushed' = [pushed EXCEPT ![w] = @ + 1]
      /\ UNCHANGED <<subscribed, parties, mounted, code, link, uplink, starts>>
  BY DEF OnEvent, OnRoomUpdated, OnPartyStarted, links, bounds
<1>2. downlink[w] \in Seq(EventSet)
  BY DEF ConnectionInv, ConnectionTypes
<1>3. /\ Tail(downlink[w]) \in Seq(EventSet) /\ Head(downlink[w]) = downlink[w][1]
      /\ 1 \in DOMAIN downlink[w] /\ Head(downlink[w]) \in EventSet
      /\ \A i \in DOMAIN Tail(downlink[w]) :
           Tail(downlink[w])[i] = downlink[w][i + 1] /\ i + 1 \in DOMAIN downlink[w]
  BY <1>1, <1>2, OneLess
<1>4. ConnectionTypes'
  <2>1. downlink' \in [Connections -> Seq(EventSet)]
    BY <1>1, <1>3 DEF ConnectionInv, ConnectionTypes
  <2>2. Head(downlink[w]).event = "room-updated" => Head(downlink[w]).room \in RoomSet
    BY <1>3 DEF EventSet
  <2>3. shown' \in [Connections -> RoomSet \cup {Nothing}]
    BY <1>1, <2>2 DEF ConnectionInv, ConnectionTypes
  <2>4. pushed' \in [Connections -> Nat]
    <3>1. pushed' = pushed \/ pushed' = [pushed EXCEPT ![w] = @ + 1]
      BY <1>1
    <3>2. pushed[w] + 1 \in Nat
      BY DEF ConnectionInv, ConnectionTypes
    <3> QED
      BY <3>1, <3>2 DEF ConnectionInv, ConnectionTypes
  <2> QED
    BY <1>1, <2>1, <2>3, <2>4 DEF ConnectionInv, ConnectionTypes
<1>5. /\ downlink'[w] = Tail(downlink[w])
      /\ \A v \in Connections : v # w => downlink'[v] = downlink[v] /\ pushed'[v] = pushed[v]
  BY <1>1 DEF ConnectionInv, ConnectionTypes
<1>6. Head(downlink[w]).event = "party-started" => code[w] \in parties
  BY <1>3 DEF ConnectionInv, OwnRoom
<1>7. OwnRoom(w)'
  <2>1. w \in mounted
    BY <1>1 DEF ConnectionInv, OwnRoom
  <2>2. \A i \in DOMAIN downlink'[w] :
          downlink'[w][i].event = "party-started" => code[w] \in parties
    BY <1>3, <1>5 DEF ConnectionInv, OwnRoom
  <2>3. pushed'[w] > 0 => code[w] \in parties
    BY <1>1, <1>6 DEF ConnectionInv, OwnRoom
  <2> QED
    BY <1>1, <2>1, <2>2, <2>3 DEF ConnectionInv, OwnRoom
<1> QED
  BY <1>1, <1>4, <1>5, <1>7, OneConnectionMoves

\* A party is started, of whichever room: it is told to those who wait in it.
LEMMA StartedStep ==
  ASSUME ConnectionInv, NEW id, OnStartParty(id),
         UNCHANGED <<waitingRooms, link, starts>>,
         uplink' \in [Connections -> Seq(UplinkSet)],
         \A w \in Connections :
           /\ w \notin mounted => uplink'[w] = <<>>
           /\ \A i \in DOMAIN uplink'[w] : uplink'[w][i].id = code[w]
  PROVE  ConnectionInv'
<1>0. UNCHANGED <<mounted, code, shown, pushed>>
  BY DEF waitingRooms
<1>1. Emit(PartyStarted, id) /\ parties' = parties \cup {id} /\ subscribed' = subscribed
  BY DEF OnStartParty
<1>2. PartyStarted \in EventSet
  BY DEF PartyStarted, EventSet
<1>3. /\ downlink' \in [Connections -> Seq(EventSet)]
      /\ \A w \in Connections : \/ downlink'[w] = downlink[w]
                                \/ /\ id \in subscribed[w]
                                   /\ downlink'[w] = Append(downlink[w], PartyStarted)
  BY <1>1, <1>2, Emitted
<1>4. ConnectionTypes'
  BY <1>0, <1>1, <1>3 DEF ConnectionInv, ConnectionTypes
<1>5. ASSUME NEW w \in Connections PROVE OwnRoom(w)'
  <2>1. OwnRoom(w) /\ downlink[w] \in Seq(EventSet)
    BY DEF ConnectionInv, ConnectionTypes
  <2>2. id \in subscribed[w] => code[w] = id /\ link[w] = "up"
    BY <2>1 DEF OwnRoom
  <2>3. \A i \in DOMAIN downlink'[w] :
          downlink'[w][i].event = "party-started" => code[w] \in parties'
    <3>1. CASE downlink'[w] = downlink[w]
      BY <1>1, <2>1, <3>1 DEF OwnRoom
    <3>2. CASE id \in subscribed[w]
      BY <1>1, <2>2, <3>2
    <3> QED
      BY <1>3, <3>1, <3>2
  <2>4. link[w] # "up" => downlink'[w] = <<>>
    BY <1>3, <2>1, <2>2 DEF OwnRoom
  <2> QED
    BY <1>0, <1>1, <2>1, <2>3, <2>4 DEF OwnRoom
<1> QED
  BY <1>4, <1>5 DEF ConnectionInv

LEMMA ServeEventStep ==
  ASSUME ConnectionInv, NEW w \in Connections, ServeEvent(w)
  PROVE  ConnectionInv'
<1> DEFINE e == Head(uplink[w])
<1>1. /\ link[w] = "up" /\ uplink[w] # <<>> /\ uplink' = [uplink EXCEPT ![w] = Tail(@)]
      /\ UNCHANGED <<waitingRooms, link, starts>>
      /\ OnJoinRoom(w, e.id) \/ OnStartParty(e.id)
  BY DEF ServeEvent, bounds
<1>2. uplink[w] \in Seq(UplinkSet)
  BY DEF ConnectionInv, ConnectionTypes
<1>3. /\ Tail(uplink[w]) \in Seq(UplinkSet) /\ e = uplink[w][1]
      /\ 1 \in DOMAIN uplink[w]
      /\ \A i \in DOMAIN Tail(uplink[w]) :
           Tail(uplink[w])[i] = uplink[w][i + 1] /\ i + 1 \in DOMAIN uplink[w]
  BY <1>1, <1>2, OneLess
<1>4. e.id = code[w] /\ w \in mounted
  BY <1>1, <1>3 DEF ConnectionInv, OwnRoom
<1> HIDE DEF e
<1>5. /\ uplink' \in [Connections -> Seq(UplinkSet)]
      /\ \A v \in Connections : v # w => uplink'[v] = uplink[v]
      /\ \A i \in DOMAIN uplink'[w] : uplink'[w][i].id = code[w]
  BY <1>1, <1>3 DEF ConnectionInv, ConnectionTypes, OwnRoom
<1>6. CASE OnJoinRoom(w, e.id)
  <2>1. /\ subscribed' = [subscribed EXCEPT ![w] = @ \cup {code[w]}]
        /\ UNCHANGED <<downlink, parties>>
    BY <1>4, <1>6 DEF OnJoinRoom
  <2>2. ConnectionTypes'
    BY <1>1, <1>5, <2>1 DEF ConnectionInv, ConnectionTypes, waitingRooms
  <2>3. /\ subscribed'[w] = subscribed[w] \cup {code[w]}
        /\ \A v \in Connections : v # w => subscribed'[v] = subscribed[v]
    BY <2>1 DEF ConnectionInv, ConnectionTypes
  <2>4. OwnRoom(w)'
    BY <1>1, <1>4, <1>5, <2>1, <2>3 DEF ConnectionInv, OwnRoom, waitingRooms
  <2> QED
    BY <1>1, <1>5, <2>1, <2>2, <2>3, <2>4, OneConnectionMoves DEF waitingRooms
<1>7. CASE OnStartParty(e.id)
  <2>1. \A v \in Connections :
          /\ v \notin mounted => uplink'[v] = <<>>
          /\ \A i \in DOMAIN uplink'[v] : uplink'[v][i].id = code[v]
    BY <1>4, <1>5 DEF ConnectionInv, OwnRoom
  <2> QED
    BY <1>1, <1>5, <1>7, <2>1, StartedStep
<1> QED
  BY <1>1, <1>6, <1>7

LEMMA ServeStrayStep ==
  ASSUME ConnectionInv, NEW e, ServeStray(e)
  PROVE  ConnectionInv'
<1>1. OnStartParty(e.id) /\ UNCHANGED <<waitingRooms, link, uplink, starts>>
  BY DEF ServeStray, bounds
<1>2. uplink' \in [Connections -> Seq(UplinkSet)]
  BY <1>1 DEF ConnectionInv, ConnectionTypes
<1>3. \A w \in Connections :
        /\ w \notin mounted => uplink'[w] = <<>>
        /\ \A i \in DOMAIN uplink'[w] : uplink'[w][i].id = code[w]
  BY <1>1 DEF ConnectionInv, OwnRoom
<1> QED
  BY <1>1, <1>2, <1>3, StartedStep

\* A join is broadcast: nothing but an update is added, and to whoever waits.
LEMMA BroadcastStep ==
  ASSUME ConnectionInv, RequestInv, TableInv, NEW r \in requests, JoinRoom(r),
         UNCHANGED <<waitingRooms, link, uplink, starts>>
  PROVE  ConnectionInv'
<1> DEFINE room == Admit(rooms[r.id], r.name)
<1>0. UNCHANGED <<mounted, code, shown, pushed>>
  BY DEF waitingRooms
<1>1. r.id \in RoomIds /\ r.name \in Names /\ rooms[r.id] \in RoomSet
  BY DEF JoinRoom, RequestInv, WellMade, TableInv
<1>2. Updated(room) \in EventSet /\ Updated(room).event = "room-updated"
  BY <1>1, Admitted DEF Updated, EventSet
<1>3. Emit(Updated(room), r.id) /\ UNCHANGED <<subscribed, parties>>
  BY DEF JoinRoom, Announced
<1> HIDE DEF room
<1>4. /\ downlink' \in [Connections -> Seq(EventSet)]
      /\ \A w \in Connections : \/ downlink'[w] = downlink[w]
                                \/ /\ r.id \in subscribed[w]
                                   /\ downlink'[w] = Append(downlink[w], Updated(room))
  BY <1>2, <1>3, Emitted
<1>5. ConnectionTypes'
  BY <1>0, <1>3, <1>4 DEF ConnectionInv, ConnectionTypes
<1>6. ASSUME NEW w \in Connections PROVE OwnRoom(w)'
  <2>1. OwnRoom(w) /\ downlink[w] \in Seq(EventSet)
    BY DEF ConnectionInv, ConnectionTypes
  <2>2. \A i \in DOMAIN downlink'[w] :
          downlink'[w][i].event = "party-started" => code[w] \in parties
    <3>1. CASE downlink'[w] = downlink[w]
      BY <2>1, <3>1 DEF OwnRoom
    <3>2. CASE downlink'[w] = Append(downlink[w], Updated(room))
      BY <1>2, <2>1, <3>2, OneMore DEF OwnRoom
    <3> QED
      BY <1>4, <3>1, <3>2
  <2>3. link[w] # "up" => downlink'[w] = <<>>
    BY <1>4, <2>1 DEF OwnRoom
  <2> QED
    BY <1>0, <1>3, <2>1, <2>2, <2>3 DEF OwnRoom
<1> QED
  BY <1>5, <1>6 DEF ConnectionInv

LEMMA ConnectionStep ==
  RequestInv /\ TableInv /\ SocketInv /\ ConnectionInv /\ SeenInv /\ [Next]_vars
    => ConnectionInv'
<1> SUFFICES ASSUME RequestInv, TableInv, SocketInv, ConnectionInv, SeenInv, [Next]_vars
             PROVE  ConnectionInv'
  OBVIOUS
<1>1. ASSUME NEW w \in Connections, Connect(w) \/ Drop(w) \/ OnEvent(w) \/ ServeEvent(w)
      PROVE  ConnectionInv'
  BY <1>1, ConnectStep, DropStep, OnEventStep, ServeEventStep
<1>2. ASSUME NEW a \in answers, Receive(a) PROVE ConnectionInv'
  <2>1. CASE StayOnForm(a)
    BY <1>2, <2>1, ConnectionsAlone DEF Receive, StayOnForm, links, bounds
  <2> QED
    BY <1>2, <2>1, EnterStep DEF Receive
<1>3. CASE NodeStep
  <2>1. PICK r \in requests : BackendHandles(r)
    BY <1>3 DEF NodeStep
  <2>2. UNCHANGED <<waitingRooms, link, uplink, starts>>
    BY <1>3 DEF NodeStep, links, bounds
  <2>3. CASE JoinRoom(r)
    BY <2>2, <2>3, BroadcastStep
  <2>4. CASE UNCHANGED sockets
    BY <2>2, <2>4, ConnectionsAlone
  <2> QED
    BY <2>1, <2>3, <2>4 DEF BackendHandles, CreateRoom, GetRoom, RefuseRoom
<1>4. ASSUME NEW d \in Devices, TapStart(d) \/ \E w \in mounted : Dispose(d, w)
      PROVE  ConnectionInv'
  BY <1>4, TapStartStep, DisposeStep
<1>5. ASSUME NEW e \in strays, ServeStray(e) PROVE ConnectionInv'
  BY <1>5, ServeStrayStep
<1>6. CASE /\ ~NodeStep /\ ~(\E a \in answers : Receive(a))
           /\ ~(\E d \in Devices : TapStart(d) \/ \E w \in mounted : Dispose(d, w))
           /\ ~(\E w \in Connections : Connect(w) \/ Drop(w) \/ OnEvent(w) \/ ServeEvent(w))
           /\ ~(\E e \in strays : ServeStray(e))
  <2>1. UNCHANGED <<sockets, waitingRooms, link, uplink, starts>>
    BY <1>6 DEF Next, User, TapCreate, TapJoin, LookUp, Request, GiveUp, Leave, RustStep,
       vars, links, bounds
  <2> QED
    BY <2>1, ConnectionsAlone
<1> QED
  BY <1>1, <1>2, <1>3, <1>4, <1>5, <1>6


-----------------------------------------------------------------------------
(* What is seen of a room, step by step *)

LEMMA BareStep ==
  /\ RequestInv /\ ThreadInv /\ TableInv /\ SocketInv /\ ConnectionInv /\ RustInv
  /\ [Next]_vars
  => RustInv'
<1> SUFFICES ASSUME RequestInv, ThreadInv, TableInv, SocketInv, ConnectionInv, Bare,
                    [Next]_vars, server = "rust"
             PROVE  Bare'
  BY TableStep DEF RustInv
<1>0. /\ \A w \in Connections : link[w] # "up"
      /\ \A w \in mounted : shown[w].members = <<>>
  BY DEF Bare
<1>1. ASSUME UNCHANGED <<rooms, link, mounted, shown>>, answers' \subseteq answers
      PROVE  Bare'
  BY <1>1 DEF Bare
<1>2. ASSUME NEW a \in answers, Receive(a), EnterWaitingRoom(a) PROVE Bare'
  <2> DEFINE w == WaitingRoomOf(a.request)
  <2>1. w \in Connections \ mounted /\ a.room.members = <<>>
    BY <1>2 DEF RequestInv, Bare, EnterWaitingRoom
  <2>2. /\ link' = [link EXCEPT ![w] = "down"] /\ shown' = [shown EXCEPT ![w] = a.room]
        /\ mounted' = mounted \cup {w} /\ answers' \subseteq answers /\ rooms' = rooms
    BY <1>2 DEF Receive, EnterWaitingRoom
  <2> HIDE DEF w
  <2>3. \A v \in Connections : link'[v] # "up"
    BY <1>0, <2>1, <2>2 DEF ConnectionInv, ConnectionTypes
  <2>4. \A v \in mounted' : shown'[v].members = <<>>
    BY <1>0, <2>1, <2>2 DEF ConnectionInv, ConnectionTypes, SocketInv
  <2> QED
    BY <2>2, <2>3, <2>4 DEF Bare
<1>3. ASSUME NEW d \in Devices, NEW w \in mounted, Dispose(d, w) PROVE Bare'
  <2> DEFINE ended == {w, socket[d]} \ {Nothing}
             state == [v \in ended |-> IF v = w THEN "none" ELSE "closed"]
  <2>1. /\ CutOff(ended, state) /\ mounted' = mounted \ {w}
        /\ shown' = [shown EXCEPT ![w] = Nothing] /\ UNCHANGED <<answers, rooms>>
    BY <1>3 DEF Dispose, api
  <2>2. \A v \in ended : state[v] \in {"none", "down", "closed"}
    OBVIOUS
  <2> HIDE DEF ended, state
  <2>3. \A v \in Connections : link'[v] = IF v \in ended THEN state[v] ELSE link[v]
    BY <2>1 DEF CutOff
  <2>4. \A v \in Connections : link'[v] # "up"
    BY <1>0, <2>2, <2>3
  <2>5. \A v \in mounted' : shown'[v].members = <<>>
    BY <1>0, <2>1 DEF ConnectionInv, ConnectionTypes, SocketInv
  <2> QED
    BY <2>1, <2>4, <2>5 DEF Bare
<1>4. CASE RustStep
  <2>1. UNCHANGED <<link, mounted, shown>>
    BY <1>4 DEF RustStep, links, waitingRooms
  <2>2. ASSUME NEW r \in requests, NEW room, NEW id, Answer(r, id, room), rooms' = rooms,
               room # Nothing => room.members = <<>>
        PROVE  Bare'
    <3> DEFINE a == [request |-> r, id |-> id, room |-> room]
    <3>1. answers' = answers \/ answers' = answers \cup {a}
      BY <2>2 DEF Answer
    <3>2. a.room = room
      OBVIOUS
    <3> HIDE DEF a
    <3> QED
      BY <2>1, <2>2, <3>1, <3>2 DEF Bare
  <2>3. ASSUME NEW r \in requests, ServeGet(r) \/ NoRoute(r) PROVE Bare'
    <3>1. CASE ServeGet(r) /\ rooms[r.id] # Nothing
      <4>1. r.id \in RoomIds
        BY <3>1 DEF ServeGet, RequestInv, WellMade
      <4> QED
        BY <2>2, <3>1, <4>1 DEF ServeGet, Bare
    <3>2. CASE NoRoute(r) \/ (ServeGet(r) /\ rooms[r.id] = Nothing)
      BY <2>2, <3>2 DEF ServeGet, NoRoute, NotFound
    <3> QED
      BY <2>3, <3>1, <3>2
  <2>4. ASSUME NEW t \in threads, Insert(t) PROVE Bare'
    <3>1. rooms' = [rooms EXCEPT ![t.id] = RoomOf(t)] /\ answers' = answers
      BY <2>4 DEF Insert
    <3>2. RoomOf(t).members = <<>>
      BY DEF RoomOf, Room
    <3>3. \A id \in RoomIds : rooms'[id] = rooms[id] \/ rooms'[id] = RoomOf(t)
      BY <3>1 DEF TableInv
    <3> QED
      BY <2>1, <3>1, <3>2, <3>3 DEF Bare
  <2>5. ASSUME NEW t \in threads, Reply(t) PROVE Bare'
    <3>1. RoomOf(t).members = <<>> /\ rooms' = rooms
      BY <2>5 DEF Reply, RoomOf, Room
    <3> DEFINE a == [request |-> t.request, id |-> t.id, room |-> RoomOf(t)]
    <3>2. answers' = answers \/ answers' = answers \cup {a}
      BY <2>5 DEF Reply, Answer
    <3>3. a.room = RoomOf(t)
      OBVIOUS
    <3> HIDE DEF a
    <3> QED
      BY <2>1, <3>1, <3>2, <3>3 DEF Bare
  <2>6. ASSUME NEW r \in requests, NEW complete \in BOOLEAN, ReadCreate(r, complete) PROVE Bare'
    BY <1>1, <2>1, <2>6 DEF ReadCreate
  <2> QED
    BY <1>4, <2>3, <2>4, <2>5, <2>6 DEF RustStep, ApiServerStep
<1>5. CASE \E w \in Connections : Connect(w) \/ Drop(w) \/ ServeEvent(w) \/ OnEvent(w)
  BY <1>0, <1>5 DEF Connect, Drop, ServeEvent, OnEvent
<1>6. CASE NodeStep
  BY <1>6 DEF NodeStep
<1>7. CASE /\ ~RustStep /\ ~NodeStep /\ ~(\E a \in answers : Receive(a))
           /\ ~(\E d \in Devices, w \in mounted : Dispose(d, w))
           /\ ~(\E w \in Connections : Connect(w) \/ Drop(w) \/ ServeEvent(w) \/ OnEvent(w))
  <2> DEFINE Still == UNCHANGED <<rooms, link, mounted, shown>> /\ answers' \subseteq answers
  <2>1. ASSUME NEW d \in Devices, TapCreate(d) \/ TapJoin(d) \/ LookUp(d) PROVE Still
    BY <2>1 DEF TapCreate, TapJoin, LookUp, Request, links, waitingRooms
  <2>2. ASSUME NEW d \in Devices, TapStart(d) \/ Leave(d) PROVE Still
    BY <2>2 DEF TapStart, Leave, links, waitingRooms, api
  <2>3. ASSUME NEW r \in awaited, GiveUp(r) PROVE Still
    BY <2>3 DEF GiveUp, links, waitingRooms
  <2>4. ASSUME NEW e \in strays, ServeStray(e) PROVE Still
    BY <2>4 DEF ServeStray, links, waitingRooms, api
  <2>5. ASSUME UNCHANGED vars PROVE Still
    BY <2>5 DEF vars, links, waitingRooms, api
  <2>6. Still
    BY <1>7, <2>1, <2>2, <2>3, <2>4, <2>5 DEF Next, User
  <2> QED
    BY <1>1, <2>6
<1>8. ASSUME NEW a \in answers, Receive(a), StayOnForm(a) PROVE Bare'
  BY <1>1, <1>8 DEF Receive, StayOnForm, links, waitingRooms
<1> QED
  BY <1>2, <1>3, <1>4, <1>5, <1>6, <1>7, <1>8 DEF Receive

LEMMA StillCopies ==
  ASSUME NEW here, NEW room, NEW events, NEW table, NEW last, NEW table2, NEW last2,
         UpToDate(here, room, events, table, last),
         \A c : Copy(c, table, last) => Copy(c, table2, last2)
  PROVE  UpToDate(here, room, events, table2, last2)
BY DEF UpToDate

LEMMA NothingComing ==
  ASSUME NEW here, NEW room, NEW table, NEW last, here => Copy(room, table, last)
  PROVE  UpToDate(here, room, <<>>, table, last)
BY DEF UpToDate

\* The next event is shown.
LEMMA NextShown ==
  ASSUME NEW room, NEW table, NEW last, NEW events \in Seq(EventSet), events # <<>>,
         UpToDate(TRUE, room, events, table, last)
  PROVE  /\ Head(events).event = "room-updated" =>
              UpToDate(TRUE, Head(events).room, Tail(events), table, last)
         /\ UpToDate(TRUE, room, Tail(events), table, last)
<1> DEFINE rest == Tail(events)
<1>1. /\ Head(events) = events[1] /\ 1 \in DOMAIN events
      /\ \A i \in DOMAIN rest : rest[i] = events[i + 1] /\ i + 1 \in DOMAIN events
                                /\ i \in Nat /\ 1 < i + 1
  BY OneLess
<1> HIDE DEF rest
<1>2. \A i, j \in DOMAIN rest : i < j => i + 1 < j + 1
  BY <1>1
<1>3. \A i, j \in DOMAIN rest :
        /\ i < j /\ rest[i].event = "room-updated" /\ rest[j].event = "room-updated"
        /\ rest[i].room.number = rest[j].room.number
        => Extends(rest[i].room.members, rest[j].room.members)
  BY <1>1, <1>2 DEF UpToDate
<1>4. \A i \in DOMAIN rest : rest[i].event = "room-updated" =>
        /\ Copy(rest[i].room, table, last)
        /\ room.number = rest[i].room.number => Extends(room.members, rest[i].room.members)
  BY <1>1 DEF UpToDate
<1>5. UpToDate(TRUE, room, rest, table, last)
  BY <1>3, <1>4 DEF UpToDate
<1>6. ASSUME Head(events).event = "room-updated"
      PROVE  UpToDate(TRUE, Head(events).room, rest, table, last)
  <2>1. \A i \in DOMAIN rest :
          rest[i].event = "room-updated" /\ Head(events).room.number = rest[i].room.number =>
            Extends(Head(events).room.members, rest[i].room.members)
    BY <1>1, <1>6 DEF UpToDate
  <2>2. Copy(Head(events).room, table, last)
    BY <1>1, <1>6 DEF UpToDate
  <2> QED
    BY <1>3, <1>4, <2>1, <2>2 DEF UpToDate
<1> QED
  BY <1>5, <1>6 DEF rest

\* One more event is on its way: the start of a party, or an update that extends
\* every copy there is of the room.
LEMMA OneMoreStart ==
  ASSUME NEW here, NEW room, NEW table, NEW last, NEW events \in Seq(EventSet),
         NEW x \in EventSet, x.event # "room-updated",
         UpToDate(here, room, events, table, last)
  PROVE  UpToDate(here, room, Append(events, x), table, last)
<1> DEFINE all == Append(events, x)
<1>1. \A i \in DOMAIN all : all[i].event = "room-updated" =>
        i \in DOMAIN events /\ all[i] = events[i]
  BY OneMore
<1> HIDE DEF all
<1>2. UpToDate(here, room, all, table, last)
  BY <1>1 DEF UpToDate
<1> QED
  BY <1>2 DEF all

LEMMA OneMoreUpdate ==
  ASSUME NEW room, NEW table, NEW last, NEW events \in Seq(EventSet),
         NEW table2, NEW last2, NEW x \in EventSet,
         UpToDate(TRUE, room, events, table, last),
         \A c : Copy(c, table, last) => Copy(c, table2, last2),
         Copy(x.room, table2, last2),
         \A c : Copy(c, table, last) /\ c.number = x.room.number =>
                  Extends(c.members, x.room.members)
  PROVE  UpToDate(TRUE, room, Append(events, x), table2, last2)
<1> DEFINE all == Append(events, x)
           k == Len(events) + 1
<1>1. /\ \A i \in DOMAIN events : all[i] = events[i] /\ i < k /\ i \in Nat
      /\ all[k] = x /\ k \in Nat /\ DOMAIN all = DOMAIN events \cup {k}
  BY OneMore
<1> HIDE DEF all, k
<1>2. /\ Copy(room, table, last)
      /\ \A i \in DOMAIN events : events[i].event = "room-updated" =>
           Copy(events[i].room, table, last)
  BY DEF UpToDate
<1>3. \A i \in DOMAIN all : all[i].event = "room-updated" =>
        /\ Copy(all[i].room, table2, last2)
        /\ room.number = all[i].room.number => Extends(room.members, all[i].room.members)
  BY <1>1, <1>2 DEF UpToDate
<1>4. ASSUME NEW i \in DOMAIN all, NEW j \in DOMAIN all, i < j,
             all[i].event = "room-updated", all[j].event = "room-updated",
             all[i].room.number = all[j].room.number
      PROVE  Extends(all[i].room.members, all[j].room.members)
  <2>1. i \in DOMAIN events
    BY <1>1, <1>4
  <2>2. CASE j \in DOMAIN events
    BY <1>1, <1>4, <2>1, <2>2 DEF UpToDate
  <2>3. CASE j = k
    BY <1>1, <1>2, <1>4, <2>1, <2>3
  <2> QED
    BY <1>1, <2>2, <2>3
<1>5. UpToDate(TRUE, room, all, table2, last2)
  BY <1>2, <1>3, <1>4 DEF UpToDate
<1> QED
  BY <1>5 DEF all

\* What one waiting room sees is up to date.
Seen(w) == UpToDate(w \in mounted, shown[w], downlink[w], rooms, created)

LEMMA CopyOfItself ==
  ASSUME TableInv, server = "node", NEW id \in RoomIds, rooms[id] # Nothing
  PROVE  Copy(rooms[id], rooms, created)
<1>1. rooms[id] \in RoomSet /\ rooms[id].members \in Seq(MemberSet)
  BY DEF TableInv, RoomSet
<1> QED
  BY <1>1, ExtendsItself DEF TableInv, Copy

LEMMA SeenAlone ==
  ASSUME SeenInv, answers' \subseteq answers, UNCHANGED <<rooms, created>>,
         \A w \in Connections : Seen(w)'
  PROVE  SeenInv'
BY DEF SeenInv, Seen

\* A socket's event is handled.
LEMMA SeenEvent ==
  ASSUME ConnectionInv, SeenInv, NEW w \in Connections, OnEvent(w)
  PROVE  SeenInv'
<1>1. /\ link[w] = "up" /\ downlink[w] # <<>> /\ downlink' = [downlink EXCEPT ![w] = Tail(@)]
      /\ UNCHANGED <<rooms, created, answers, mounted>>
      /\ \/ Head(downlink[w]).event = "room-updated"
            /\ shown' = [shown EXCEPT ![w] = Head(downlink[w]).room]
         \/ shown' = shown
  BY DEF OnEvent, OnRoomUpdated, OnPartyStarted, api
<1>2. w \in mounted /\ downlink[w] \in Seq(EventSet)
  BY <1>1 DEF ConnectionInv, ConnectionTypes, OwnRoom
<1>3. UpToDate(TRUE, shown[w], downlink[w], rooms, created)
  BY <1>2 DEF SeenInv, UpToDate
<1>4. /\ downlink'[w] = Tail(downlink[w])
      /\ \A v \in Connections : v # w => downlink'[v] = downlink[v] /\ shown'[v] = shown[v]
      /\ \/ shown'[w] = shown[w]
         \/ /\ Head(downlink[w]).event = "room-updated"
            /\ shown'[w] = Head(downlink[w]).room
  BY <1>1 DEF ConnectionInv, ConnectionTypes
<1>5. UpToDate(TRUE, shown'[w], downlink'[w], rooms, created)
  <2>1. /\ Head(downlink[w]).event = "room-updated" =>
             UpToDate(TRUE, Head(downlink[w]).room, Tail(downlink[w]), rooms, created)
        /\ UpToDate(TRUE, shown[w], Tail(downlink[w]), rooms, created)
    BY <1>1, <1>2, <1>3, NextShown
  <2> QED
    BY <1>4, <2>1
<1>6. ASSUME NEW v \in Connections PROVE Seen(v)'
  <2>1. CASE v = w
    <3>1. (w \in mounted') = TRUE
      BY <1>1, <1>2
    <3>2. UpToDate(w \in mounted', shown'[w], downlink'[w], rooms', created')
      BY <1>1, <1>5, <3>1
    <3> QED
      BY <2>1, <3>2 DEF Seen
  <2>2. CASE v # w
    BY <1>1, <1>4, <2>2 DEF Seen, SeenInv
  <2> QED
    BY <2>1, <2>2
<1> QED
  BY <1>1, <1>6, SeenAlone

\* A party is started, or a socket enters a socket room.
LEMMA SeenServed ==
  ASSUME ConnectionInv, SeenInv,
         (\E w \in Connections : ServeEvent(w)) \/ (\E e \in strays : ServeStray(e))
  PROVE  SeenInv'
<1>1. UNCHANGED <<rooms, created, answers, mounted, shown>>
  BY DEF ServeEvent, ServeStray, api, waitingRooms
<1>2. \/ downlink' = downlink
      \/ \E id : Emit(PartyStarted, id)
  BY DEF ServeEvent, ServeStray, OnJoinRoom, OnStartParty
<1>3. PartyStarted \in EventSet /\ PartyStarted.event # "room-updated"
  BY DEF PartyStarted, EventSet
<1>4. ASSUME NEW v \in Connections PROVE Seen(v)'
  <2>1. Seen(v) /\ downlink[v] \in Seq(EventSet)
    BY DEF SeenInv, Seen, ConnectionInv, ConnectionTypes
  <2>2. downlink'[v] = downlink[v] \/ downlink'[v] = Append(downlink[v], PartyStarted)
    BY <1>2, <1>3, Emitted
  <2> QED
    BY <1>1, <1>3, <2>1, <2>2, OneMoreStart DEF Seen
<1> QED
  BY <1>1, <1>4, SeenAlone

\* A waiting room is entered.
LEMMA SeenEntered ==
  ASSUME RequestInv, ConnectionInv, SeenInv, NEW a \in answers, Receive(a),
         EnterWaitingRoom(a)
  PROVE  SeenInv'
<1> DEFINE w == WaitingRoomOf(a.request)
<1>1. w \in Connections \ mounted /\ Copy(a.room, rooms, created)
  BY DEF RequestInv, SeenInv, EnterWaitingRoom
<1>2. downlink[w] = <<>>
  BY <1>1 DEF ConnectionInv, OwnRoom
<1>3. /\ shown' = [shown EXCEPT ![w] = a.room] /\ mounted' = mounted \cup {w}
      /\ UNCHANGED <<rooms, created, downlink>> /\ answers' \subseteq answers
  BY DEF Receive, EnterWaitingRoom, sockets
<1> HIDE DEF w
<1>4. \A v \in Connections : IF v = w THEN shown'[v] = a.room ELSE shown'[v] = shown[v]
  BY <1>3 DEF ConnectionInv, ConnectionTypes
<1>5. ASSUME NEW v \in Connections PROVE Seen(v)'
  <2>1. CASE v = w
    <3>1. UpToDate(v \in mounted', a.room, <<>>, rooms, created)
      BY <1>1, NothingComing
    <3> QED
      BY <1>2, <1>3, <1>4, <2>1, <3>1 DEF Seen
  <2>2. CASE v # w
    <3>1. UpToDate(v \in mounted, shown[v], downlink[v], rooms, created)
      BY DEF SeenInv
    <3>2. shown'[v] = shown[v] /\ (v \in mounted' <=> v \in mounted)
      BY <1>3, <1>4, <2>2
    <3> QED
      BY <1>3, <3>1, <3>2 DEF Seen, UpToDate
  <2> QED
    BY <2>1, <2>2
<1> QED
  BY <1>3, <1>5, SeenAlone

\* Connections end, and waiting rooms with them.
LEMMA SeenCutOff ==
  ASSUME SeenInv, NEW ended, NEW state, CutOff(ended, state), UNCHANGED api,
         mounted' \subseteq mounted,
         \A v \in Connections : v \in mounted' => shown'[v] = shown[v],
         \A v \in Connections : v \notin ended => shown'[v] = shown[v]
  PROVE  SeenInv'
<1>1. downlink' = [v \in Connections |-> IF v \in ended THEN <<>> ELSE downlink[v]]
  BY DEF CutOff, Disconnect
<1>2. UNCHANGED <<rooms, created, answers>>
  BY DEF api
<1>3. ASSUME NEW v \in Connections PROVE Seen(v)'
  <2>1. UpToDate(v \in mounted, shown[v], downlink[v], rooms, created)
    BY DEF SeenInv
  <2>2. v \in mounted' => Copy(shown'[v], rooms, created)
    BY <2>1 DEF UpToDate
  <2>3. CASE v \in ended
    <3>1. downlink'[v] = <<>>
      BY <1>1, <2>3
    <3>2. UpToDate(v \in mounted', shown'[v], <<>>, rooms, created)
      BY <2>2, NothingComing
    <3> QED
      BY <1>2, <3>1, <3>2 DEF Seen
  <2>4. CASE v \notin ended
    <3>1. downlink'[v] = downlink[v] /\ shown'[v] = shown[v]
      BY <1>1, <2>4
    <3> QED
      BY <1>2, <2>1, <2>2, <3>1 DEF Seen, UpToDate
  <2> QED
    BY <2>3, <2>4
<1> QED
  BY <1>2, <1>3, SeenAlone

\* A connection breaks, or a waiting room is gone.
LEMMA SeenAfresh ==
  ASSUME SocketInv, ConnectionInv, SeenInv,
         \/ \E w \in Connections : Drop(w)
         \/ \E d \in Devices, w \in mounted : Dispose(d, w)
  PROVE  SeenInv'
<1>1. ASSUME NEW w \in Connections, Drop(w) PROVE SeenInv'
  BY <1>1, SeenCutOff DEF Drop, waitingRooms
<1>2. ASSUME NEW d \in Devices, NEW w \in mounted, Dispose(d, w) PROVE SeenInv'
  <2> DEFINE ended == {w, socket[d]} \ {Nothing}
             state == [v \in ended |-> IF v = w THEN "none" ELSE "closed"]
  <2>1. /\ CutOff(ended, state) /\ UNCHANGED api /\ mounted' = mounted \ {w}
        /\ shown' = [shown EXCEPT ![w] = Nothing]
    BY <1>2 DEF Dispose
  <2>2. w \in Connections /\ w \in ended
    BY WaitingAssumption DEF SocketInv, WaitingAssumption
  <2> HIDE DEF ended, state
  <2>3. \A v \in Connections : v # w => shown'[v] = shown[v]
    BY <2>1 DEF ConnectionInv, ConnectionTypes
  <2> QED
    BY <2>1, <2>2, <2>3, SeenCutOff
<1> QED
  BY <1>1, <1>2

\* The node backend makes a room, or looks one up.
LEMMA SeenHandled ==
  ASSUME RequestInv, TableInv, ConnectionInv, SeenInv, server = "node", NEW r \in requests,
         CreateRoom(r) \/ GetRoom(r) \/ RefuseRoom(r), UNCHANGED <<mounted, shown>>
  PROVE  SeenInv'
<1>1. downlink' = downlink
  BY DEF CreateRoom, GetRoom, RefuseRoom, sockets
<1>2. ASSUME NEW room, NEW id, Answer(r, id, room),
             \A c : Copy(c, rooms, created) => Copy(c, rooms', created'),
             room # Nothing => Copy(room, rooms', created')
      PROVE  SeenInv'
  <2> DEFINE a == [request |-> r, id |-> id, room |-> room]
  <2>1. answers' = answers \/ answers' = answers \cup {a}
    BY <1>2 DEF Answer
  <2>2. a.room = room
    OBVIOUS
  <2> HIDE DEF a
  <2>3. \A b \in answers' : b.room # Nothing => Copy(b.room, rooms', created')
    BY <1>2, <2>1, <2>2 DEF SeenInv
  <2>4. \A w \in Connections : UpToDate(w \in mounted, shown[w], downlink[w], rooms', created')
    BY <1>2, StillCopies DEF SeenInv
  <2> QED
    BY <1>1, <2>3, <2>4 DEF SeenInv
<1>3. CASE CreateRoom(r)
  <2> DEFINE room == Room(created + 1, r.name, <<Member(r.name, TRUE)>>)
  <2>1. PICK id \in RoomIds : rooms' = [rooms EXCEPT ![id] = room] /\ Answer(r, id, room)
    BY <1>3 DEF CreateRoom
  <2>2. created' = created + 1 /\ r.name \in Names /\ created \in Nat
    BY <1>3 DEF CreateRoom, RequestInv, WellMade, TableInv
  <2>3. room \in RoomSet /\ room.number = created + 1
    <3>1. Member(r.name, TRUE) \in MemberSet /\ Member(r.name, TRUE).host = TRUE
      BY <2>2 DEF Member, MemberSet
    <3>2. PICK m \in Seq(MemberSet) : m = <<Member(r.name, TRUE)>>
      BY <3>1, OneMember
    <3>3. created + 1 \in Nat /\ room = Room(created + 1, r.name, m)
      BY <2>2, <3>2
    <3> HIDE DEF room
    <3> QED
      BY <2>2, <3>2, <3>3 DEF Room, RoomSet
  <2> HIDE DEF room
  <2>4. \A c : Copy(c, rooms, created) => Copy(c, rooms', created')
    BY <2>1, <2>2, <2>3, CopyBesideNew DEF TableInv
  <2>5. Copy(room, rooms', created')
    <3>1. \A i \in RoomIds : rooms'[i] = room \/ (rooms'[i] = rooms[i])
      BY <2>1 DEF TableInv
    <3>2. \A i \in RoomIds : rooms[i] # Nothing => rooms[i].number # room.number
      BY <2>2, <2>3 DEF TableInv, RoomSet
    <3>3. Extends(room.members, room.members)
      BY <2>3, ExtendsItself DEF RoomSet
    <3>4. room.number <= created'
      BY <2>2, <2>3
    <3> QED
      BY <2>3, <3>1, <3>2, <3>3, <3>4 DEF Copy
  <2> QED
    BY <1>2, <2>1, <2>4, <2>5
<1>4. CASE GetRoom(r)
  <2>1. rooms[r.id] # Nothing /\ Answer(r, r.id, rooms[r.id]) /\ UNCHANGED <<rooms, created>>
    BY <1>4 DEF GetRoom
  <2>2. r.id \in RoomIds
    BY <1>4 DEF GetRoom, RequestInv, WellMade
  <2> QED
    BY <1>2, <2>1, <2>2, CopyOfItself
<1>5. CASE RefuseRoom(r)
  BY <1>2, <1>5 DEF RefuseRoom, NotFound
<1> QED
  BY <1>3, <1>4, <1>5

\* It lets somebody join: every copy there is of the room is extended by the one
\* that is broadcast.
LEMMA SeenJoined ==
  ASSUME RequestInv, TableInv, ConnectionInv, SeenInv, server = "node", NEW r \in requests,
         JoinRoom(r), UNCHANGED <<mounted, shown>>, TableInv', server' = server
  PROVE  SeenInv'
<1> DEFINE old == rooms[r.id]
           new == Admit(rooms[r.id], r.name)
<1>1. /\ old # Nothing /\ old \in RoomSet /\ r.id \in RoomIds /\ r.name \in Names
      /\ created' = created
  BY DEF JoinRoom, RequestInv, WellMade, TableInv
<1>2. /\ rooms' = [rooms EXCEPT ![r.id] = new] /\ Emit(Updated(new), r.id)
      /\ Answer(r, r.id, new)
  BY DEF JoinRoom, Announced
<1>3. new \in RoomSet /\ new.number = old.number /\ Extends(old.members, new.members)
  BY <1>1, Admitted
<1> HIDE DEF new
<1>4. \A c : Copy(c, rooms, created) => Copy(c, rooms', created')
  BY <1>1, <1>2, <1>3, CopyBesideJoined DEF TableInv
<1>5. \A c : Copy(c, rooms, created) /\ c.number = new.number =>
               Extends(c.members, new.members)
  <2> SUFFICES ASSUME NEW c, Copy(c, rooms, created), c.number = new.number
               PROVE  Extends(c.members, new.members)
    OBVIOUS
  <2>1. Extends(c.members, old.members)
    BY <1>1, <1>3 DEF Copy
  <2>2. /\ c.members \in Seq(MemberSet) /\ old.members \in Seq(MemberSet)
        /\ new.members \in Seq(MemberSet)
    BY <1>1, <1>3 DEF Copy, RoomSet
  <2> QED
    BY <1>3, <2>1, <2>2, ExtendsTransitive
<1>6. Copy(new, rooms', created')
  <2>1. \A i \in RoomIds : rooms'[i] = IF i = r.id THEN new ELSE rooms[i]
    BY <1>2 DEF TableInv
  <2>2. \A i \in RoomIds : rooms[i] # Nothing /\ rooms[i].number = new.number => i = r.id
    BY <1>1, <1>3 DEF TableInv
  <2>3. Extends(new.members, new.members)
    BY <1>3, ExtendsItself DEF RoomSet
  <2>4. new.number <= created'
    BY <1>1, <1>3 DEF TableInv
  <2> QED
    BY <1>3, <2>1, <2>2, <2>3, <2>4 DEF Copy
<1>7. \A b \in answers' : b.room # Nothing => Copy(b.room, rooms', created')
  <2> DEFINE a == [request |-> r, id |-> r.id, room |-> new]
  <2>1. answers' = answers \/ answers' = answers \cup {a}
    BY <1>2 DEF Answer
  <2>2. a.room = new
    OBVIOUS
  <2> HIDE DEF a
  <2> QED
    BY <1>4, <1>6, <2>1, <2>2 DEF SeenInv
<1>8. ASSUME NEW w \in Connections
      PROVE  UpToDate(w \in mounted, shown[w], downlink'[w], rooms', created')
  <2>1. Updated(new) \in EventSet /\ Updated(new).room = new
    BY <1>3 DEF Updated, EventSet
  <2>2. \/ downlink'[w] = downlink[w]
        \/ r.id \in subscribed[w] /\ downlink'[w] = Append(downlink[w], Updated(new))
    BY <1>2, <2>1, Emitted
  <2>3. UpToDate(w \in mounted, shown[w], downlink[w], rooms, created) /\ downlink[w] \in Seq(EventSet)
    BY DEF SeenInv, ConnectionInv, ConnectionTypes
  <2>4. CASE downlink'[w] = downlink[w]
    BY <1>4, <2>3, <2>4, StillCopies
  <2>5. CASE r.id \in subscribed[w] /\ downlink'[w] = Append(downlink[w], Updated(new))
    <3>1. w \in mounted
      BY <2>5 DEF ConnectionInv, ConnectionTypes, OwnRoom
    <3>2. UpToDate(TRUE, shown[w], downlink[w], rooms, created)
      BY <2>3, <3>1 DEF UpToDate
    <3>3. UpToDate(TRUE, shown[w], downlink'[w], rooms', created')
      BY <1>4, <1>5, <1>6, <2>1, <2>3, <2>5, <3>2, OneMoreUpdate
    <3> QED
      BY <3>3 DEF UpToDate
  <2> QED
    BY <2>2, <2>4, <2>5
<1> QED
  BY <1>7, <1>8 DEF SeenInv

\* The Rust server's rooms are all alike: nobody is in them.
LEMMA SeenBare ==
  ASSUME RequestInv, ThreadInv, TableInv, ConnectionInv, SeenInv, RustStep, TableInv', ConnectionInv',
         RustInv'
  PROVE  SeenInv'
<1>1. /\ server' = "rust" /\ UNCHANGED <<mounted, shown>> /\ created \in Nat /\ created' \in Nat
      /\ created <= created'
  BY DEF RustStep, ApiServerStep, ReadCreate, ServeGet, NoRoute, Insert, Reply, waitingRooms, TableInv
<1>2. Bare' /\ rooms' \in [RoomIds -> RoomSet \cup {Nothing}]
  BY <1>1 DEF RustInv, TableInv
<1>3. ASSUME NEW room \in RoomSet, room.members = <<>>, room.number <= created
      PROVE  Copy(room, rooms', created')
  <2>1. room.number <= created'
    BY <1>1, <1>3 DEF RoomSet
  <2> QED
    BY <1>2, <1>3, <2>1, BareCopy
<1>4. ASSUME NEW w \in Connections PROVE UpToDate(w \in mounted', shown'[w], downlink'[w], rooms', created')
  <2>1. downlink'[w] = <<>> /\ (w \in mounted' => shown'[w].members = <<>>)
    BY <1>2 DEF Bare, ConnectionInv, OwnRoom
  <2>2. w \in mounted => shown[w] \in RoomSet /\ shown[w].number <= created
    BY DEF SeenInv, UpToDate, Copy
  <2> QED
    BY <1>1, <1>3, <2>1, <2>2, NothingComing
<1>5. ASSUME NEW b \in answers', b.room # Nothing PROVE Copy(b.room, rooms', created')
  <2>1. b.room.members = <<>>
    BY <1>2, <1>5 DEF Bare
  <2>2. CASE b \in answers
    BY <1>3, <1>5, <2>1, <2>2 DEF SeenInv, Copy
  <2>3. CASE b \notin answers
    <3> DEFINE Known == b.room \in RoomSet /\ b.room.number <= created
    <3>1. Known
      <4>1. ASSUME NEW t \in threads, Reply(t) PROVE Known
        <5>1. b.room = RoomOf(t)
          BY <1>5, <2>3, <4>1 DEF Reply, Answer
        <5>2. <<>> \in Seq(MemberSet)
          OBVIOUS
        <5> QED
          BY <5>1, <5>2 DEF ThreadInv, RoomOf, Room, RoomSet
      <4>2. ASSUME NEW q \in requests, ServeGet(q) \/ NoRoute(q) PROVE Known
        <5>1. b.room = rooms[q.id] /\ q.kind = "get"
          BY <1>5, <2>3, <4>2 DEF ServeGet, NoRoute, NotFound, Answer
        <5>2. q.id \in RoomIds
          BY <5>1 DEF RequestInv, WellMade
        <5> QED
          BY <1>5, <5>1, <5>2 DEF TableInv
      <4> QED
        BY <1>5, <2>3, <4>1, <4>2 DEF RustStep, ApiServerStep, ReadCreate, Insert
    <3> QED
      BY <1>3, <2>1, <3>1
  <2> QED
    BY <2>2, <2>3
<1> QED
  BY <1>4, <1>5 DEF SeenInv

LEMMA SeenStep ==
  /\ RequestInv /\ ThreadInv /\ TableInv /\ SocketInv /\ ConnectionInv /\ SeenInv /\ RustInv
  /\ [Next]_vars
  => SeenInv'
<1> SUFFICES ASSUME RequestInv, ThreadInv, TableInv, SocketInv, ConnectionInv, SeenInv,
                    RustInv, [Next]_vars
             PROVE  SeenInv'
  OBVIOUS
<1>0. TableInv' /\ ConnectionInv' /\ RustInv' /\ server' = server
  BY TableStep, ConnectionStep, BareStep
<1>1. CASE RustStep
  BY <1>0, <1>1, SeenBare
<1>2. CASE NodeStep
  <2>1. PICK r \in requests : BackendHandles(r)
    BY <1>2 DEF NodeStep
  <2>2. server = "node" /\ UNCHANGED <<mounted, shown>>
    BY <1>2 DEF NodeStep, waitingRooms
  <2> QED
    BY <1>0, <2>1, <2>2, SeenHandled, SeenJoined DEF BackendHandles
<1>3. ASSUME \/ \E w \in Connections : Drop(w) \/ OnEvent(w) \/ ServeEvent(w)
             \/ \E d \in Devices, w \in mounted : Dispose(d, w)
             \/ \E e \in strays : ServeStray(e)
      PROVE  SeenInv'
  BY <1>3, SeenAfresh, SeenEvent, SeenServed
<1>4. ASSUME NEW a \in answers, Receive(a), EnterWaitingRoom(a) PROVE SeenInv'
  BY <1>4, SeenEntered
<1>5. ASSUME UNCHANGED <<rooms, created, mounted, shown, downlink>>, answers' \subseteq answers
      PROVE  SeenInv'
  BY <1>5 DEF SeenInv
<1>6. ASSUME NEW a \in answers, Receive(a), StayOnForm(a) PROVE SeenInv'
  BY <1>5, <1>6 DEF Receive, StayOnForm, waitingRooms, sockets
<1>7. CASE /\ ~RustStep /\ ~NodeStep /\ ~(\E a \in answers : Receive(a))
           /\ ~(\E w \in Connections : Drop(w) \/ OnEvent(w) \/ ServeEvent(w))
           /\ ~(\E d \in Devices, w \in mounted : Dispose(d, w))
           /\ ~(\E e \in strays : ServeStray(e))
  <2> DEFINE Still == UNCHANGED <<rooms, created, mounted, shown, downlink>> /\ answers' \subseteq answers
  <2>1. ASSUME NEW d \in Devices, TapCreate(d) \/ TapJoin(d) \/ LookUp(d) PROVE Still
    BY <2>1 DEF TapCreate, TapJoin, LookUp, Request, sockets, waitingRooms
  <2>2. ASSUME NEW d \in Devices, TapStart(d) \/ Leave(d) PROVE Still
    BY <2>2 DEF TapStart, Leave, sockets, waitingRooms, api
  <2>3. ASSUME NEW r \in awaited, GiveUp(r) PROVE Still
    BY <2>3 DEF GiveUp, sockets, waitingRooms
  <2>4. ASSUME NEW w \in Connections, Connect(w) PROVE Still
    BY <2>4 DEF Connect, sockets, waitingRooms, api
  <2>5. ASSUME UNCHANGED vars PROVE Still
    BY <2>5 DEF vars, sockets, waitingRooms, api
  <2>6. Still
    BY <1>7, <2>1, <2>2, <2>3, <2>4, <2>5 DEF Next, User
  <2> QED
    BY <1>5, <2>6
<1> QED
  BY <1>1, <1>2, <1>3, <1>4, <1>6, <1>7 DEF Receive

-----------------------------------------------------------------------------
(* The theorems *)

WaitingInv ==
  /\ RequestInv /\ ThreadInv /\ TableInv /\ SocketInv /\ ConnectionInv /\ RustInv
  /\ SeenInv /\ AnswerIsOwn

LEMMA StartsInv == Init => WaitingInv
<1> SUFFICES ASSUME Init PROVE WaitingInv
  OBVIOUS
<1> USE DEF Init, ApiInit, BackendInit, ApiServerInit
<1>1. RequestInv /\ ThreadInv /\ AnswerIsOwn
  BY DEF RequestInv, ThreadInv, AnswerIsOwn
<1>2. TableInv
  BY DEF TableInv, Servers
<1>3. ConnectionInv
  <2>1. <<>> \in Seq(UplinkSet) /\ <<>> \in Seq(EventSet) /\ DOMAIN <<>> = {}
    OBVIOUS
  <2>2. ConnectionTypes
    BY <2>1 DEF ConnectionTypes
  <2>3. \A w \in Connections : /\ uplink[w] = <<>> /\ downlink[w] = <<>> /\ subscribed[w] = {}
                               /\ pushed[w] = 0 /\ link[w] = "none"
    OBVIOUS
  <2>4. ASSUME NEW w \in Connections PROVE OwnRoom(w)
    <3>1. DOMAIN uplink[w] = {} /\ DOMAIN downlink[w] = {} /\ ~(pushed[w] > 0)
      BY <2>1, <2>3
    <3> QED
      BY <2>3, <3>1 DEF OwnRoom
  <2> QED
    BY <2>2, <2>4 DEF ConnectionInv
<1>4. RustInv
  BY DEF RustInv, Bare
<1>5. SeenInv
  <2>1. \A w \in Connections : w \notin mounted /\ downlink[w] = <<>>
    OBVIOUS
  <2>2. \A w \in Connections : UpToDate(w \in mounted, shown[w], downlink[w], rooms, created)
    BY <2>1, NothingComing
  <2> QED
    BY <2>2 DEF SeenInv
<1>6. SocketInv
  BY DEF SocketInv
<1> QED
  BY <1>1, <1>2, <1>3, <1>4, <1>5, <1>6 DEF WaitingInv

LEMMA KeepsInv == WaitingInv /\ [Next]_vars => WaitingInv'
BY RequestStep, ThreadStep, TableStep, SocketStep, ConnectionStep, BareStep, SeenStep,
   AnswerStep DEF WaitingInv

LEMMA WaitingInvariant == Spec => []WaitingInv
BY StartsInv, KeepsInv, PTL DEF Spec

\* No room of the node backend lists a name twice, however often joining is
\* retried and whichever codes are given twice, and its host is the first and
\* only one marked (roomController.js:43-53).
THEOREM ListedOnce == Spec => []MembersListedOnce
<1>1. WaitingInv => MembersListedOnce
  BY DEF WaitingInv, TableInv, Listed, MembersListedOnce
<1> QED
  BY <1>1, WaitingInvariant, PTL

\* The answer a form awaits is to what it asked, from either server: a late or
\* overtaken request cannot give its answer to another one.
THEOREM AnswersAreOwn == Spec => []AnswerIsOwn
<1>1. WaitingInv => AnswerIsOwn
  BY DEF WaitingInv
<1> QED
  BY <1>1, WaitingInvariant, PTL

\* A waiting room opens a player only when the party of its own room was started,
\* also while two waiting rooms of a phone are mounted, whichever of their sockets
\* SocketService holds, and when the party was started by a tap of long ago
\* (socketHandler.js:30-36).
THEOREM PartiesAreOwn == Spec => []PartyInOwnRoom
<1>1. WaitingInv => PartyInOwnRoom
  BY DEF WaitingInv, ConnectionInv, OwnRoom, PartyInOwnRoom
<1> QED
  BY <1>1, WaitingInvariant, PTL

\* While a waiting room shows one and the same room, its list only grows at its
\* end, though the answer and the updates arrive by two ways and its connection may
\* break or be closed by another's disposal.
THEOREM ListsOnlyGrow == Spec => ShownOnlyGrows
<1> DEFINE Grows(w) == shown'[w].number = shown[w].number
                         => IsPrefix(shown[w].members, shown'[w].members)
<1>1. ASSUME WaitingInv, [Next]_vars, NEW w \in mounted \cap mounted' PROVE Grows(w)
  <2>0. /\ ConnectionInv /\ RequestInv /\ w \in Connections
        /\ UpToDate(w \in mounted, shown[w], downlink[w], rooms, created)
    BY <1>1 DEF WaitingInv, SeenInv, SocketInv
  <2> SUFFICES ASSUME shown'[w].number = shown[w].number
               PROVE  IsPrefix(shown[w].members, shown'[w].members)
    OBVIOUS
  <2>1. shown[w] \in RoomSet /\ shown[w].members \in Seq(MemberSet)
    BY <1>1, <2>0 DEF UpToDate, Copy, RoomSet
  <2>2. CASE shown'[w] = shown[w]
    BY <2>1, <2>2, PrefixElements, ExtendsItself
  <2>3. CASE OnEvent(w) /\ shown'[w] # shown[w]
    <3>1. /\ downlink[w] # <<>> /\ Head(downlink[w]).event = "room-updated"
          /\ shown' = [shown EXCEPT ![w] = Head(downlink[w]).room]
      <4>1. \/ shown' = shown
            \/ /\ Head(downlink[w]).event = "room-updated"
               /\ shown' = [shown EXCEPT ![w] = Head(downlink[w]).room]
        BY <2>3 DEF OnEvent, OnRoomUpdated, OnPartyStarted
      <4> QED
        BY <2>3, <4>1 DEF OnEvent
    <3>2. downlink[w] \in Seq(EventSet) /\ shown'[w] = Head(downlink[w]).room
      BY <2>0, <3>1 DEF ConnectionInv, ConnectionTypes
    <3>3. Head(downlink[w]) = downlink[w][1] /\ 1 \in DOMAIN downlink[w]
      BY <3>1, <3>2, OneLess
    <3>4. /\ Copy(shown'[w], rooms, created)
          /\ Extends(shown[w].members, shown'[w].members)
      BY <2>0, <3>1, <3>2, <3>3 DEF UpToDate
    <3>5. shown'[w].members \in Seq(MemberSet)
      BY <3>4 DEF Copy, RoomSet
    <3> QED
      BY <2>1, <3>4, <3>5, PrefixElements
  <2>4. ASSUME NEW v \in Connections, OnEvent(v), v # w PROVE shown'[w] = shown[w]
    BY <2>0, <2>4 DEF OnEvent, OnRoomUpdated, OnPartyStarted, ConnectionInv, ConnectionTypes
  <2>5. ASSUME NEW d \in Devices, NEW v \in mounted, Dispose(d, v) PROVE shown'[w] = shown[w]
    <3>1. shown' = [shown EXCEPT ![v] = Nothing] /\ mounted' = mounted \ {v}
      BY <2>5 DEF Dispose
    <3>2. v # w
      BY <3>1
    <3> QED
      BY <2>0, <3>1, <3>2 DEF ConnectionInv, ConnectionTypes
  <2>6. ASSUME NEW a \in answers, Receive(a) PROVE shown'[w] = shown[w]
    <3>1. CASE EnterWaitingRoom(a)
      <4>1. /\ WaitingRoomOf(a.request) # w
            /\ shown' = [shown EXCEPT ![WaitingRoomOf(a.request)] = a.room]
        BY <2>0, <3>1 DEF RequestInv, EnterWaitingRoom
      <4> QED
        BY <2>0, <4>1 DEF ConnectionInv, ConnectionTypes
    <3>2. CASE StayOnForm(a)
      BY <3>2 DEF StayOnForm, waitingRooms
    <3> QED
      BY <2>6, <3>1, <3>2 DEF Receive
  <2>7. CASE /\ ~(\E v \in Connections : OnEvent(v))
             /\ ~(\E d \in Devices, v \in mounted : Dispose(d, v))
             /\ ~(\E a \in answers : Receive(a))
    <3>1. shown' = shown
      BY <1>1, <2>7 DEF Next, User, TapCreate, TapJoin, LookUp, Request, GiveUp, TapStart,
         Leave, Connect, Drop, ServeEvent, ServeStray, NodeStep, RustStep, vars, waitingRooms
    <3> QED
      BY <2>2, <3>1
  <2> QED
    BY <2>2, <2>3, <2>4, <2>5, <2>6, <2>7
<1>2. WaitingInv /\ [Next]_vars => [\A w \in mounted \cap mounted' : Grows(w)]_vars
  BY <1>1
<1> QED
  BY <1>2, WaitingInvariant, PTL DEF Spec, ShownOnlyGrows

=============================================================================
