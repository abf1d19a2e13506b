------------------------- MODULE MCCommentService -------------------------
(* Small instances of CommentService for TLC.                              *)
EXTENDS CommentService, TLC

Symmetry == Permutations(Workers) \cup Permutations(Users) \cup Permutations(Teams)
            \cup Permutations(Tasks)
=============================================================================
