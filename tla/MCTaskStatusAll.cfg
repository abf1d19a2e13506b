\* A list of status "all" and a list without status.
CONSTANTS
    w1 = w1  w2 = w2  u1 = u1  u2 = u2  m1 = m1  m2 = m2  t1 = t1  t2 = t2
    Nil = Nil
    Workers = {w1, w2}
    Users = {u1}
    Callers = {u1}
    Teams = {m1}
    Tasks = {t1}
    Fields <- MCFields
    Val <- ValWithAll
    Defaults <- MCDefaults
    CreateInputs <- PlainCreate
    UpdateInputs <- StatusUpdates
    Filters <- StatusAll
    DefaultLimit = 1
    MaxLimit = 1
    MaxUpdates = 1
    Faults = {}
SPECIFICATION Spec
INVARIANT ListHonoursFilter
