----------------------------- MODULE MCTimeline -----------------------------
(* A small instance of Timeline for TLC.                                   *)
EXTENDS Timeline, TLC

Symmetry == Permutations(Workers) \cup Permutations(Tasks) \cup Permutations(Users)
=============================================================================
