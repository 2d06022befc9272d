---------------------------- MODULE NetworkEngine ----------------------------
(***************************************************************************)
(* The node network engine (network_engine/): a host announces itself by   *)
(* mDNS, a device that finds it asks to join with one datagram, and what   *)
(* the host broadcasts goes to every address it has heard from.            *)
(*                                                                         *)
(* Datagrams are repeated and reordered, and lost: nothing says that one   *)
(* arrives.  Nothing is acknowledged or sent again, and nobody is          *)
(* forgotten: removeDevice() and stopAdvertising() have no caller.         *)
(***************************************************************************)
EXTENDS Integers, FiniteSets

CONSTANTS
  Addresses,   \* address and port of a device's socket
  Host,        \* the host's address
  MaxRepeats   \* bound: datagrams delivered twice

ASSUME NetworkAssumption == Host \notin Addresses /\ MaxRepeats \in Nat

VARIABLES
  bound,        \* the host's socket is open
  advertised,   \* its service is announced
  clients,      \* TransportModule.clients
  devices,      \* ConnectionManager.devices
  wire,         \* datagrams on their way
  repeats

hostVars == <<bound, advertised, clients, devices>>
networkVars == <<hostVars, wire, repeats>>

JoinRequest == "JOIN_PARTY_REQUEST"

Datagram(from, to, body) == [from |-> from, to |-> to, body |-> body]

NetworkInit ==
  /\ bound = FALSE /\ advertised = FALSE
  /\ clients = {} /\ devices = {}
  /\ wire = {} /\ repeats = 0

StartHostMode ==
  /\ ~bound /\ ~advertised /\ clients = {}
  /\ bound' = TRUE /\ advertised' = TRUE
  /\ UNCHANGED <<clients, devices, wire, repeats>>

\* close(), or an error of the socket: nothing is received or sent any more.
Close ==
  /\ bound
  /\ bound' = FALSE
  /\ UNCHANGED <<advertised, clients, devices, wire, repeats>>

\* scanForHosts() reports the service, once or many times: the device asks to join
\* each time.
FoundHost(a) ==
  /\ advertised
  /\ wire' = wire \cup {Datagram(a, Host, JoinRequest)}
  /\ UNCHANGED <<hostVars, repeats>>

\* A datagram reaches its address, and may do so again.
Arrives(m) ==
  /\ m \in wire
  /\ \/ wire' = wire \ {m} /\ UNCHANGED repeats
     \/ repeats < MaxRepeats /\ repeats' = repeats + 1 /\ UNCHANGED wire

\* Any message makes its sender a client and, by the callback, a device.
OnMessage(m) ==
  /\ m.to = Host /\ bound
  /\ Arrives(m)
  /\ clients' = clients \cup {m.from}
  /\ devices' = devices \cup {m.from}
  /\ UNCHANGED <<bound, advertised>>

BroadcastToClients(body) ==
  /\ bound
  /\ wire' = wire \cup {Datagram(Host, a, body) : a \in clients}
  /\ UNCHANGED <<hostVars, repeats>>

=============================================================================
