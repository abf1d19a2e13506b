--------------------------- MODULE MCTeamService ---------------------------
(* Small instances of TeamService for TLC.                                 *)
EXTENDS TeamService, TLC

Symmetry == Permutations(Workers) \cup Permutations(Teams) \cup Permutations(Users)
=============================================================================
