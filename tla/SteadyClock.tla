----------------------------- MODULE SteadyClock -----------------------------
(***************************************************************************)
(* What clock synchronization promises those who read current_offset():    *)
(* nothing before a measurement, the first measurement as it is, and from  *)
(* then on steps towards the newest one, small and never beyond it.  No    *)
(* flag, lock, regression or counter.                                      *)
(***************************************************************************)
EXTENDS Integers

CONSTANTS
  MaxOffset,   \* config.max_allowed_offset
  MaxStep      \* config.max_correction_step

VARIABLES
  offset,      \* the applied offset
  target,      \* the newest measurement
  has_synced   \* there is one

vars == <<offset, target, has_synced>>

Allowed == (-MaxOffset)..MaxOffset

Distance(a, b) == IF a < b THEN b - a ELSE a - b

Init == offset = 0 /\ target = 0 /\ has_synced = FALSE

\* Where one correction may lead from o on the way to t.
Towards(o, t) ==
  {n \in Allowed : /\ Distance(o, n) <= MaxStep
                   /\ Distance(o, n) + Distance(n, t) = Distance(o, t)
                   /\ n = o => o = t}

\* A measurement becomes the target, and the offset is corrected once, unless
\* the estimated drift is refused.
Measure(m) ==
  /\ target' = m
  /\ has_synced' = TRUE
  /\ LET o == IF has_synced THEN offset ELSE m
     IN  offset' \in Towards(o, m) \cup {o}

Correct ==
  /\ offset' \in Towards(offset, target)
  /\ UNCHANGED <<target, has_synced>>

Reset == offset' = 0 /\ target' = 0 /\ has_synced' = FALSE

Next ==
  \/ \E m \in Allowed : Measure(m)
  \/ Correct
  \/ Reset

Spec == Init /\ [][Next]_vars

=============================================================================
