--------------------------- MODULE MCTaskService ---------------------------
(* Small instances of TaskService for TLC.                                 *)
EXTENDS TaskService, TLC

CONSTANTS w1, w2, u1, u2, m1, m2, t1, t2

MCFields   == {"title", "status", "assignee_id"}
MCVal      == {"A", "B", "todo", "done", u1, u2}
MCDefaults == [title |-> "A", status |-> "todo", assignee_id |-> Nil]

NoField == [f \in MCFields |-> Nil]
Body(fields) == [f \in MCFields |-> IF f \in DOMAIN fields THEN fields[f] ELSE Nil]

PlainCreate   == {NoField}
\* Bodies that race on different fields of one task.
FieldUpdates  == {Body([status |-> "done"]), Body([assignee_id |-> u2])}
RacingUpdates == {Body([title |-> "B"]), Body([status |-> "done"])}
StatusUpdates == {Body([status |-> "done"])}

\* A page of the list of a team; 0 is a parameter that the query does not have.
PageOf(m, p, l) == [team |-> m, status |-> Nil, assignee |-> Nil, page |-> p, limit |-> l]
AnyTask(m) == PageOf(m, 0, 0)

\* A query without a team is refused.
OneList    == {AnyTask(m1), AnyTask(Nil)}
\* The first two pages of one team and the first of another, with parameters
\* that List puts in their range.
ThreePages == {AnyTask(m1), PageOf(m1, 2, 9), PageOf(m2, -1, 0)}
\* The status parameter is not validated: a caller may ask for the status "all".
StatusAll  == {AnyTask(m1), [AnyTask(m1) EXCEPT !.status = "all"]}
ValWithAll == MCVal \cup {"all"}

\* No input names a worker or a task.
Symmetry == Permutations(Workers) \cup Permutations(Tasks)
=============================================================================
