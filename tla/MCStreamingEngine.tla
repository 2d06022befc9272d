-------------------------- MODULE MCStreamingEngine --------------------------
(***************************************************************************)
(* Instances of StreamingEngine for TLC.                                   *)
(***************************************************************************)
EXTENDS StreamingEngine, TLC

\* Worker tasks, and the callers of the same operations, are interchangeable
\* for the invariants.
Symmetry == Permutations(Workers) \cup Permutations(Callers) \cup Permutations(Producers)

=============================================================================
