\* Two updates of different fields of one task race.
CONSTANTS
    w1 = w1  w2 = w2  u1 = u1  u2 = u2  m1 = m1  m2 = m2  t1 = t1  t2 = t2
    Nil = Nil
    Workers = {w1, w2}
    Users = {u1}
    Callers = {u1}
    Teams = {m1}
    Tasks = {t1}
    Fields <- MCFields
    Val <- MCVal
    Defaults <- MCDefaults
    CreateInputs <- PlainCreate
    UpdateInputs <- RacingUpdates
    Filters <- OneList
    DefaultLimit = 1
    MaxLimit = 1
    MaxUpdates = 2
    Faults = {}
SPECIFICATION Spec
PROPERTY EveryChangeRecorded
