----------------------- MODULE MCAssignmentLifecycle -----------------------
(* Finite instances of AssignmentLifecycle for TLC. *)
EXTENDS AssignmentLifecycle, TLC

\* Attempts and flights are interchangeable; the workers are not, Init picks one.
Symmetry == Permutations(Attempts) \cup Permutations(Flights)

=============================================================================
