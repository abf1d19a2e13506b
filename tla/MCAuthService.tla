--------------------------- MODULE MCAuthService ---------------------------
(* Small instances of AuthService for TLC.                                 *)
EXTENDS AuthService, TLC

\* A long password begins with a password of 72 bytes that can be registered.
MCKey == [p \in Passwords |-> IF p \in LongPasswords
                              THEN CHOOSE q \in Passwords \ LongPasswords : TRUE ELSE p]

Symmetry == Permutations(Workers) \cup Permutations(Emails) \cup Permutations(Ids)
=============================================================================
