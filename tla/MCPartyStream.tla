---------------------------- MODULE MCPartyStream ----------------------------
(***************************************************************************)
(* Instance of PartyStream for TLC.  The tasks that call receive_packet()  *)
(* are interchangeable, and so are those that operate the engine.          *)
(***************************************************************************)
EXTENDS PartyStream, TLC

Tasks == Permutations(Receivers) \cup Permutations(Operators)

=============================================================================
