\* Two goroutines create and update three tasks while a client reads pages of one.
CONSTANTS
    Workers = {w1, w2}
    Users = {u1, u2}
    Teams = {m1}
    Tasks = {t1, t2, t3}
    Nil = Nil
    Week = 1
    Month = 1
    Top = 1
    Limit = 1
    MaxTime = 2
    MaxUpdates = 2
SYMMETRY Symmetry
SPECIFICATION Spec
INVARIANTS ReportsAreComplete HistoryInOrder NothingSkipped
