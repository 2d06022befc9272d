------------------------ MODULE MCPlaybackScheduler ------------------------
(***************************************************************************)
(* Instances of PlaybackScheduler for TLC.                                 *)
(***************************************************************************)
EXTENDS PlaybackScheduler

CONSTANT p1

\* Two packets, the second again, and a third that finds the queue full or not.
ThreeAndACopy == [p \in {p1} |-> <<1, 2, 2, 3>>]

\* The offset falls by more than lies between two packets, and the first packet's
\* timestamp with it below zero; and rises again.
Falling == {0, -3}

\* What ReleasedInOrder relies on.
ASSUME InstanceAssumption == CapturedInOrder

=============================================================================
