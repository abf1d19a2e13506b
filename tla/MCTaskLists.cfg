\* Lists and histories of two teams with two tasks, for a caller who may or may not
\* belong to each team; replies are lost and Redis fails.
CONSTANTS
    w1 = w1  w2 = w2  u1 = u1  u2 = u2  m1 = m1  m2 = m2  t1 = t1  t2 = t2
    Nil = Nil
    Workers = {w1, w2}
    Users = {u1}
    Callers = {u1}
    Teams = {m1, m2}
    Tasks = {t1, t2}
    Fields <- MCFields
    Val <- MCVal
    Defaults <- MCDefaults
    CreateInputs <- PlainCreate
    UpdateInputs <- StatusUpdates
    Filters <- ThreePages
    DefaultLimit = 1
    MaxLimit = 1
    MaxUpdates = 1
    Faults = {"redis", "lost_reply"}
SYMMETRY Symmetry
SPECIFICATION Spec
INVARIANTS TypeOK AnswersStayInTeam PageCoversTotal
