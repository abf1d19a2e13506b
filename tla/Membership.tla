---------------------------- MODULE Membership -----------------------------
(***************************************************************************)
(* What the team service promises to the other services, which look only   *)
(* at who is a member: a team comes into being together with its founder   *)
(* as a member, members join it one at a time, and nobody ever leaves.     *)
(* The task service takes its role checks, calls before its writes, on     *)
(* this promise.                                                           *)
(***************************************************************************)
CONSTANTS Users, Teams, Nil

VARIABLES
    founder,    \* [Teams -> Users or Nil], Nil: there is no such team
    members     \* [Teams -> SUBSET Users]

Init ==
    /\ founder = [m \in Teams |-> Nil]
    /\ members = [m \in Teams |-> {}]

Found(m, u) ==
    /\ founder[m] = Nil
    /\ founder' = [founder EXCEPT ![m] = u]
    /\ members' = [members EXCEPT ![m] = {u}]

Join(m, u) ==
    /\ founder[m] # Nil
    /\ u \notin members[m]
    /\ members' = [members EXCEPT ![m] = @ \cup {u}]
    /\ UNCHANGED founder

Next == \E m \in Teams, u \in Users : Found(m, u) \/ Join(m, u)

Spec == Init /\ [][Next]_<<founder, members>>

=============================================================================
