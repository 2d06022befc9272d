----------------------------- MODULE BoundedFifo -----------------------------
(***************************************************************************)
(* What a packet queue promises its callers, with no mutex, no counter and *)
(* no call that waits or is dropped: a packet that finds room is handed    *)
(* out after those before it, unless it is thrown away in its turn.        *)
(***************************************************************************)
EXTENDS Integers, Sequences

CONSTANTS
  Packets,
  Capacity,   \* how many may wait
  Nobody      \* not a packet

VARIABLES
  waiting,    \* oldest first
  handed      \* the packet handed out last, or Nobody

Init == waiting = <<>> /\ handed = Nobody

Accept(p) ==
  /\ Len(waiting) < Capacity
  /\ waiting' = Append(waiting, p)
  /\ UNCHANGED handed

Take ==
  /\ waiting # <<>>
  /\ handed' = Head(waiting)
  /\ waiting' = Tail(waiting)

Discard ==
  /\ waiting # <<>>
  /\ waiting' = Tail(waiting)
  /\ UNCHANGED handed

Next == (\E p \in Packets : Accept(p)) \/ Take \/ Discard

Spec == Init /\ [][Next]_<<waiting, handed>>

=============================================================================
