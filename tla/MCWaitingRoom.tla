---------------------------- MODULE MCWaitingRoom ----------------------------
(***************************************************************************)
(* Instances of WaitingRoom for TLC.                                       *)
(***************************************************************************)
EXTENDS WaitingRoom

CONSTANTS d1, d2, ana, ben

\* Each user has a name of their own; the phone that calls twice joins, or creates,
\* under the same name again.
MCNamesOf == [d \in Devices |-> IF d = d1 THEN {ana} ELSE {ben}]

\* Two creations are enough for a code given twice and for a waiting room that
\* replaces another.
MCMaxCalls == [node |-> [d \in Devices |-> IF d = d1 THEN 2 ELSE 1],
               rust |-> [d \in Devices |-> IF d = d1 THEN 2 ELSE 0]]

MCConnections == (Devices \X {1}) \cup {<<d1, 2>>}

=============================================================================
