---------------------------- MODULE MCTaskWakes ----------------------------
(***************************************************************************)
(* Small instances of TaskWakes for TLC.                                   *)
(***************************************************************************)
EXTENDS TaskWakes, TLC

CONSTANTS a1, a2, w1, w2, r1, r2

\* One attempt with two waits.
OneOf == (w1 :> a1) @@ (w2 :> a1)

\* Two attempts with a wait each.
TwoOf == (w1 :> a1) @@ (w2 :> a2)

\* Runners are interchangeable.
Symmetry == Permutations(Runners)
=============================================================================
