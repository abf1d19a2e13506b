\* Comments of two users on two tasks race with lists, joins and failures.
CONSTANTS
    Workers = {w1, w2}
    Users = {u1, u2}
    Teams = {m1, m2}
    Tasks = {t1, t2}
    Nil = Nil
    MaxComments = 2
    MaxTime = 2
    Faults = {"mysql", "lost_reply", "crash"}
SYMMETRY Symmetry
SPECIFICATION Spec
INVARIANTS TypeOK OnlyMembersComment ListIsComplete RepliesFollow
