------------------------------ MODULE Timeline ------------------------------
(***************************************************************************)
(* Tasks in time. created_at, updated_at and changed_at are read from the  *)
(* clock of the service before the row is saved, by goroutines that race;  *)
(* the queries that order or filter by them come later:                    *)
(*   TaskStorage.ListTasks            a page, newest tasks first           *)
(*   TaskStorage.ListHistory          by changed_at                        *)
(*   AnalyticsStorage.TeamSummaries, TopContributors   the last days       *)
(*                                                                         *)
(* Phases of a goroutine (job.phase): get (update only), stamp, write.     *)
(* The clock of the service and that of MySQL are one clock that does not  *)
(* go back. Caching is left to TaskService: pages here come from MySQL.    *)
(* Definitions marked "Mutant" are faulty variants that the specification  *)
(* does not use.                                                           *)
(***************************************************************************)
EXTENDS Integers, Sequences, FiniteSetsExt, Functions

CONSTANTS
    Workers, Users, Teams, Tasks, Nil,
    Week, Month,    \* INTERVAL 7 DAY and INTERVAL 30 DAY in ticks
    Top,            \* the last rank that TopContributors reports, 3 in the code
    Limit,          \* length of a page
    MaxTime,        \* bound on the clock
    MaxUpdates      \* bound on the updates that are begun

ASSUME TimelineConstants ==
    /\ {Week, Month, MaxTime, MaxUpdates} \subseteq Nat
    /\ {Top, Limit} \subseteq Nat \ {0}
    /\ Nil \notin Tasks \cup Users
    /\ Nil \notin [team : Teams, by : Users, status : {"todo", "done"}, created : Nat,
                   updated : Nat, doneAt : Nat \cup {Nil}]

VARIABLES
    clock,
    members,    \* table team_members: [Teams -> SUBSET Users]
    tasks,      \* table tasks: [Tasks -> row, or Nil]
    history,    \* table task_history: changed_at of the entries as they are committed
    job,        \* [Workers -> the request that is served, or Nil]
    updates,    \* number of updates begun
    reader,     \* a client that reads a list page by page, and what it has not seen of it
    raced       \* auxiliary: tasks with an update that was saved over another one

vars == <<clock, members, tasks, history, job, updates, reader, raced>>

\* Members and tasks of a row; doneAt, when the row was completed, is auxiliary.
NewRow(m, u) ==
    [team |-> m, by |-> u, status |-> "todo", created |-> Nil, updated |-> Nil, doneAt |-> Nil]

TeamTasks(m) == {t \in Tasks : tasks[t] # Nil /\ tasks[t].team = m}

-----------------------------------------------------------------------------
(* Service.Create and Service.Update.                                      *)

\* The creator is a member, and stays one; the id is new; time.Now() comes last.
Create(w, m, u, t) ==
    /\ job[w] = Nil /\ u \in members[m]
    /\ tasks[t] = Nil /\ \A v \in Workers : job[v] # Nil => job[v].task # t
    /\ job' = [job EXCEPT ![w] =
                [phase |-> "write", op |-> "create", task |-> t, input |-> Nil,
                 base |-> Nil, row |-> NewRow(m, u), at |-> clock]]
    /\ UNCHANGED <<clock, members, tasks, history, updates, reader, raced>>

\* The input is a status. Another field does nothing to the time stamps that a status,
\* the one the task has or another, would not do.
Update(w, t, input) ==
    /\ job[w] = Nil /\ tasks[t] # Nil
    /\ updates < MaxUpdates
    /\ updates' = updates + 1
    /\ job' = [job EXCEPT ![w] =
                [phase |-> "get", op |-> "update", task |-> t, input |-> input,
                 base |-> Nil, row |-> Nil, at |-> Nil]]
    /\ UNCHANGED <<clock, members, tasks, history, reader, raced>>

\* GetTaskByID, and buildHistoryEntries puts the input into the row.
GetTaskByID(w) ==
    /\ job[w] # Nil /\ job[w].phase = "get"
    /\ LET row == tasks[job[w].task]
       IN job' = [job EXCEPT ![w].phase = "stamp", ![w].base = row,
                             ![w].row = [row EXCEPT !.status = job[w].input]]
    /\ UNCHANGED <<clock, members, tasks, history, updates, reader, raced>>

\* task.UpdatedAt = time.Now(), and ChangedAt of the entries.
\* Mutant: the time is read before the row, when the request comes in.
TimeNowEarly(w) ==
    /\ job[w] # Nil
    /\ \/ /\ job[w].phase = "get" /\ job[w].at = Nil
          /\ job' = [job EXCEPT ![w].at = clock]
       \/ /\ job[w].phase = "stamp"
          /\ job' = [job EXCEPT ![w].phase = "write", ![w].at = IF @ = Nil THEN clock ELSE @]
    /\ UNCHANGED <<clock, members, tasks, history, updates, reader, raced>>
TimeNow(w) ==
    /\ job[w] # Nil /\ job[w].phase = "stamp"
    /\ job' = [job EXCEPT ![w].phase = "write", ![w].at = clock]
    /\ UNCHANGED <<clock, members, tasks, history, updates, reader, raced>>

SaveTask(w) ==
    /\ job[w] # Nil /\ job[w].phase = "write" /\ job[w].op = "create"
    /\ tasks' = [tasks EXCEPT ![job[w].task] =
                    [job[w].row EXCEPT !.created = job[w].at, !.updated = job[w].at]]
    /\ job' = [job EXCEPT ![w] = Nil]
    /\ UNCHANGED <<clock, members, history, updates, reader, raced>>

\* An update without a change has no entries, and renews updated_at all the same.
UpdateTaskWithHistory(w) ==
    /\ job[w] # Nil /\ job[w].phase = "write" /\ job[w].op = "update"
    /\ LET j == job[w]
           completes == j.row.status = "done" /\ j.base.status # "done"
       IN
       /\ tasks'   = [tasks EXCEPT ![j.task] =
                        [j.row EXCEPT !.updated = j.at,
                                      !.doneAt  = IF completes THEN j.at ELSE @]]
       /\ history' = [history EXCEPT ![j.task] =
                        IF j.input = j.base.status THEN @ ELSE Append(@, j.at)]
       /\ raced'   = IF tasks[j.task] = j.base THEN raced ELSE raced \cup {j.task}
    /\ job' = [job EXCEPT ![w] = Nil]
    /\ UNCHANGED <<clock, members, updates, reader>>

\* A storage error: the row is not saved.
SaveFails(w) ==
    /\ job[w] # Nil /\ job[w].phase = "write"
    /\ job' = [job EXCEPT ![w] = Nil]
    /\ UNCHANGED <<clock, members, tasks, history, updates, reader, raced>>

-----------------------------------------------------------------------------
(* The queries.                                                            *)

\* A part of the rows that ORDER BY created_at DESC may put first: rows of one
\* created_at come in any order.
\* Mutant: ORDER BY updated_at DESC.
RenewedComeFirst(part, rows) ==
    \A x \in part, y \in rows : tasks[y].updated > tasks[x].updated => y \in part
MayComeFirst(part, rows) ==
    \A x \in part, y \in rows : tasks[y].created > tasks[x].created => y \in part

\* LIMIT and OFFSET: a page begins after the rows of the pages before it.
Offset(page) == (page - 1) * Limit

\* The pages that a SELECT may answer.
Pages(rows, page) ==
    LET size(n) == Min({n, Cardinality(rows)})
        Parts(n) == {part \in kSubset(size(n), rows) : MayComeFirst(part, rows)}
    IN {p[2] \ p[1] : p \in
            {q \in Parts(Offset(page)) \X Parts(Offset(page) + Limit) : q[1] \subseteq q[2]}}

\* The orders in which the entries of a task may be answered: ORDER BY changed_at ASC.
ListHistory(t) ==
    LET entries == DOMAIN history[t]
    IN {order \in Bijection(entries, entries) :
            \A i, k \in entries : i < k => history[t][order[i]] <= history[t][order[k]]}

\* FROM teams LEFT JOIN team_members LEFT JOIN tasks
Joined(m) ==
    LET OrNull(rows) == IF rows = {} THEN {Nil} ELSE rows
    IN OrNull(members[m]) \X OrNull(TeamTasks(m))

\* COUNT(DISTINCT ...) over the rows of the join; NULL does not count.
\* Mutant: COUNT(...)
CountRows(rows, i) == Cardinality({row \in rows : row[i] # Nil})
CountDistinct(rows, i) == Cardinality({row[i] : row \in rows} \ {Nil})

TeamSummaries ==
    LET Done(t) == tasks[t].status = "done" /\ tasks[t].updated >= clock - Week
    IN [m \in Teams |->
            [member_count     |-> CountDistinct(Joined(m), 1),
             done_last_7_days |->
                CountDistinct({row \in Joined(m) : row[2] # Nil /\ Done(row[2])}, 2)]]

\* COUNT(*) of the tasks of the last 30 days, by team and creator.
TaskCount(m, u) ==
    Cardinality({t \in TeamTasks(m) : tasks[t].by = u /\ tasks[t].created >= clock - Month})

\* RANK() OVER (PARTITION BY team_id ORDER BY COUNT(*) DESC)
RankInTeam(m, u) == 1 + Cardinality({v \in Users : TaskCount(m, v) > TaskCount(m, u)})

TopContributors ==
    LET Ranked(m, u) ==
            [team |-> m, user |-> u,
             task_count |-> TaskCount(m, u), rank_in_team |-> RankInTeam(m, u)]
    IN {c \in {Ranked(m, u) : m \in Teams, u \in Users} :
            c.task_count > 0 /\ c.rank_in_team <= Top}

\* The handlers of the reports: any user with a token gets the rows of every team.
GetTeamSummaries(u)   == IF u = Nil THEN "unauthorized" ELSE TeamSummaries
GetTopContributors(u) == IF u = Nil THEN "unauthorized" ELSE TopContributors

-----------------------------------------------------------------------------
(* A client reads the tasks of a team page by page, until one is short.    *)

NotReading == [team |-> Nil, page |-> 1, missing |-> {}, ended |-> FALSE]

BeginReading(m) ==
    /\ reader.team = Nil
    /\ reader' = [NotReading EXCEPT !.team = m, !.missing = TeamTasks(m)]
    /\ UNCHANGED <<clock, members, tasks, history, job, updates, raced>>

ListTasks ==
    /\ reader.team # Nil /\ ~reader.ended
    /\ \E page \in Pages(TeamTasks(reader.team), reader.page) :
         reader' = [reader EXCEPT !.page = @ + 1, !.missing = @ \ page,
                                  !.ended = Cardinality(page) < Limit]
    /\ UNCHANGED <<clock, members, tasks, history, job, updates, raced>>

EndReading ==
    /\ reader.ended
    /\ reader' = NotReading
    /\ UNCHANGED <<clock, members, tasks, history, job, updates, raced>>

-----------------------------------------------------------------------------
Join(m, u) ==
    /\ u \notin members[m]
    /\ members' = [members EXCEPT ![m] = @ \cup {u}]
    /\ UNCHANGED <<clock, tasks, history, job, updates, reader, raced>>

Tick ==
    /\ clock < MaxTime
    /\ clock' = clock + 1
    /\ UNCHANGED <<members, tasks, history, job, updates, reader, raced>>

\* A team has its founder from the start.
Init ==
    /\ clock   = 0
    /\ members \in [Teams -> {{u} : u \in Users}]
    /\ tasks   = [t \in Tasks |-> Nil]
    /\ history = [t \in Tasks |-> <<>>]
    /\ job     = [w \in Workers |-> Nil]
    /\ updates = 0
    /\ reader  = NotReading
    /\ raced   = {}

Serve(w) ==
    \/ GetTaskByID(w) \/ TimeNow(w) \/ SaveTask(w) \/ UpdateTaskWithHistory(w) \/ SaveFails(w)

Next ==
    \/ \E w \in Workers, t \in Tasks :
         \/ \E m \in Teams, u \in Users : Create(w, m, u, t)
         \/ \E input \in {"todo", "done"} : Update(w, t, input)
    \/ \E w \in Workers : Serve(w)
    \/ \E m \in Teams : BeginReading(m) \/ \E u \in Users : Join(m, u)
    \/ ListTasks \/ EndReading \/ Tick

Spec == Init /\ [][Next]_vars

-----------------------------------------------------------------------------
(* Properties.                                                             *)

\* Tasks of the team that were completed within the week.
Completed(m) ==
    {t \in TeamTasks(m) : tasks[t].status = "done" /\ tasks[t].doneAt >= clock - Week}

\* TeamSummaries: members are counted once although the join repeats them, and every
\* task that was completed within the week and is still done is counted. A task that
\* was completed before it may be counted too: any later update renews updated_at.
SummariesComplete(user) ==
    LET summaries == GetTeamSummaries(user)
    IN \A m \in Teams :
            /\ summaries[m].member_count = Cardinality(members[m])
            /\ summaries[m].done_last_7_days
                 \in Cardinality(Completed(m))..Cardinality(TeamTasks(m))

\* TopContributors: who has created tasks in the last 30 days and is not reported is
\* behind Top others of the team.
TopAreReported(user) ==
    LET reported == GetTopContributors(user)
        Ahead(m, u) == {c \in reported : c.team = m /\ c.task_count > TaskCount(m, u)}
    IN \A m \in Teams, u \in Users :
            \/ TaskCount(m, u) = 0
            \/ \E c \in reported : c.team = m /\ c.user = u
            \/ Cardinality(Ahead(m, u)) >= Top

\* Neither report of AnalyticsStorage leaves out what it should tell, whoever asks.
ReportsAreComplete == \A user \in Users : SummariesComplete(user) /\ TopAreReported(user)

\* ListHistory answers the entries of a task in the order of the commits, except for
\* those of one moment, unless updates of the task raced: changed_at is read after the
\* row was, and before the transaction.
HistoryInOrder ==
    \A t \in Tasks \ raced : \A order \in ListHistory(t) : \A i, k \in DOMAIN order :
        i < k /\ order[i] > order[k] => history[t][order[i]] = history[t][order[k]]

\* Pages of TaskStorage.ListTasks: who reads them one after the other while tasks are
\* created and updated sees every task that was there from the start, except for tasks
\* that share created_at with another.
NothingSkipped ==
    reader.ended =>
        \A t \in reader.missing :
            \E other \in TeamTasks(reader.team) \ {t} : tasks[other].created = tasks[t].created

=============================================================================
