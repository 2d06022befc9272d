---------------------------- MODULE MCSynchronizer ----------------------------
(***************************************************************************)
(* Instances of Synchronizer for TLC.                                      *)
(***************************************************************************)
EXTENDS Synchronizer

\* The limits on either side, one beyond, and nothing.
FarAndNear == {-5, -4, 0, 4}

=============================================================================
