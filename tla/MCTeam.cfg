\* Creates, invitations and lists race, every failure may happen.
CONSTANTS
    Workers = {w1, w2}
    Users = {u1, u2}
    Strangers = {x1}
    Teams = {m1, m2}
    Nil = Nil
    Faults = {"mysql", "lost_reply", "mail", "crash"}
SYMMETRY Symmetry
SPECIFICATION Spec
INVARIANTS TypeOK OwnerIsFounder AckedIsMember MailAfterJoin
PROPERTIES KeepsPromise InvitedByOwnerOrAdmin
