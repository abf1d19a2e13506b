\* A user with a token and a caller without one share a host and two goroutines.
CONSTANTS
    Workers = {w1, w2}
    Users = {u1}
    Hosts = {h1}
    Limiters = {l1, l2, l3}
    Nil = Nil
    RequestsPerMinute = 1
    IdleLimit = 2
    Period = 1
SPECIFICATION FairSpec
INVARIANTS TypeOK MinuteBound
PROPERTIES OnlyBusyAreDenied IdleEntriesGo
