\* An owner invites himself.
CONSTANTS
    Workers = {w1}
    Users = {u1}
    Strangers = {}
    Teams = {m1}
    Nil = Nil
    Faults = {}
SPECIFICATION Spec
INVARIANT SomebodyMayInvite
