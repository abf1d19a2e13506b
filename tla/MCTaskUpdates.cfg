\* Two requests race on one task and its list, every failure may happen.
CONSTANTS
    w1 = w1  w2 = w2  u1 = u1  u2 = u2  m1 = m1  m2 = m2  t1 = t1  t2 = t2
    Nil = Nil
    Workers = {w1, w2}
    Users = {u1, u2}
    Callers = {u1}
    Teams = {m1}
    Tasks = {t1}
    Fields <- MCFields
    Val <- MCVal
    Defaults <- MCDefaults
    CreateInputs <- PlainCreate
    UpdateInputs <- FieldUpdates
    Filters <- OneList
    DefaultLimit = 1
    MaxLimit = 1
    MaxUpdates = 2
    Faults = {"mysql", "lost_reply", "redis", "crash"}
SPECIFICATION FairSpec
INVARIANTS NoOrphanTasks OnlyMembersWrite AuditTrail NoValueWithoutEntry AckedUpdateAudited
PROPERTIES HistoryWithRow CacheConverges RequestsAnswered
