\* Registrations, logins and sessions of two workers race with time and failures.
CONSTANTS
    Workers = {w1, w2}
    Emails = {e1, e2}
    Passwords = {p1, p2, long}
    LongPasswords = {long}
    Key <- MCKey
    Ids = {i1, i2}
    Nil = Nil
    Expiry = 2
    MaxTokens = 2
    Faults = {"mysql", "lost_reply", "crash"}
SYMMETRY Symmetry
SPECIFICATION Spec
INVARIANTS TypeOK RegisterTellsTheTruth OnlyOwnersGetIn
PROPERTIES AccountsAreStable SessionsEnd
