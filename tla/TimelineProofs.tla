--------------------------- MODULE TimelineProofs ---------------------------
(***************************************************************************)
(* Proofs about tasks in time: the order of the history, the pages of a    *)
(* list that grows while it is read, and the two reports.                  *)
(***************************************************************************)
EXTENDS Timeline, FiniteSetTheorems, TLAPS

-----------------------------------------------------------------------------
(* The inductive invariant.                                                *)

Rows == [team : Teams, by : Users, status : {"todo", "done"}, created : Nat, updated : Nat,
         doneAt : Nat \cup {Nil}]

\* A row as it is or was: it is not from the future, and if it is done it was last
\* saved when it was completed, or later.
Sound(row) ==
    /\ row \in Rows /\ row.updated <= clock
    /\ row.status = "done" => row.doneAt \in Nat /\ row.doneAt <= row.updated

Existing == {t \in Tasks : tasks[t] # Nil}

TablesOK ==
    /\ clock \in Nat /\ tasks \in [Tasks -> Rows \cup {Nil}] /\ history \in [Tasks -> Seq(Nat)]
    /\ IsFiniteSet(Existing)
    /\ \A t \in Existing : Sound(tasks[t])

\* What a request has read is a row of its task as it was, and its time is later.
JobOK(j) ==
    /\ j.task \in Tasks /\ j.op \in {"create", "update"} /\ j.phase \in {"get", "stamp", "write"}
    /\ j.op = "create" => /\ tasks[j.task] = Nil /\ j.phase = "write"
                          /\ j.at \in Nat /\ j.at <= clock
                          /\ \E m \in Teams, u \in Users : j.row = NewRow(m, u)
    /\ j.op = "update" => tasks[j.task] # Nil /\ j.input \in {"todo", "done"}
    /\ j.op = "update" /\ j.phase # "get" =>
          /\ Sound(j.base) /\ j.row = [j.base EXCEPT !.status = j.input]
          /\ j.base.created = tasks[j.task].created /\ j.base.team = tasks[j.task].team
    /\ j.op = "update" /\ j.phase = "write" => j.at \in Nat /\ j.base.updated <= j.at /\ j.at <= clock

JobsOK ==
    /\ DOMAIN job = Workers
    /\ \A w \in Workers : job[w] # Nil => JobOK(job[w])
    /\ \A v, w \in Workers :
          /\ job[v] # Nil /\ job[w] # Nil /\ job[v].op = "create" /\ job[v].task = job[w].task
          => v = w

\* Without a race the entries of a task are in order, and none is later than its row.
HistoryOK ==
    \A t \in Tasks :
        /\ tasks[t] = Nil => history[t] = <<>>
        /\ tasks[t] # Nil /\ t \notin raced =>
              /\ \A i \in 1..Len(history[t]) : history[t][i] <= tasks[t].updated
              /\ \A i, k \in 1..Len(history[t]) : i < k => history[t][i] <= history[t][k]

\* Another task of the list with the same created_at, and the tasks that are newer.
Twin(m, t)  == \E other \in TeamTasks(m) \ {t} : tasks[other].created = tasks[t].created
Ahead(m, t) == {y \in TeamTasks(m) : tasks[y].created > tasks[t].created}

\* A task that was not seen yet is behind what was read, unless it has a twin.
ReaderOK ==
    /\ reader.page \in Nat \ {0} /\ reader.ended \in BOOLEAN
    /\ reader = [team |-> reader.team, page |-> reader.page, missing |-> reader.missing,
                 ended |-> reader.ended]
    /\ reader.missing \subseteq TeamTasks(reader.team)
    /\ \A t \in reader.missing :
          \/ Twin(reader.team, t)
          \/ ~reader.ended /\ Cardinality(Ahead(reader.team, t)) >= Offset(reader.page)

TimelineInv == TablesOK /\ JobsOK /\ HistoryOK /\ ReaderOK

-----------------------------------------------------------------------------
(* Lemmas on the operators of the queries.                                 *)

LEMMA MinOfTwo ==
    ASSUME NEW a \in Nat, NEW b \in Nat
    PROVE  Min({a, b}) = IF a <= b THEN a ELSE b
<1>1. \E x \in {a, b} : \A y \in {a, b} : x =< y
  OBVIOUS
<1>2. Min({a, b}) \in {a, b} /\ \A y \in {a, b} : Min({a, b}) =< y
  BY <1>1 DEF Min
<1>. QED  BY <1>2

LEMMA OffsetNext ==
    ASSUME NEW p \in Nat \ {0}
    PROVE  Offset(p) \in Nat /\ Offset(p + 1) = Offset(p) + Limit /\ Offset(1) = 0
<1>1. Limit \in Nat
  BY TimelineConstants
<1>2. p - 1 \in Nat
  OBVIOUS
<1>3. (p - 1) * Limit \in Nat
  BY <1>1, <1>2
<1>4. ((p + 1) - 1) * Limit = (p - 1) * Limit + Limit
  BY <1>1, <1>2
<1>5. (1 - 1) * Limit = 0
  BY <1>1
<1>. QED  BY <1>3, <1>4, <1>5 DEF Offset

\* A page that does not have a task without a twin ends before it, if it begins before
\* it; and it is a full one.
LEMMA PageStopsBefore ==
    ASSUME NEW m, IsFiniteSet(TeamTasks(m)), NEW p \in Nat \ {0},
           \A y \in TeamTasks(m) : tasks[y].created \in Nat,
           NEW t \in TeamTasks(m), ~Twin(m, t),
           Cardinality(Ahead(m, t)) >= Offset(p),
           NEW page \in Pages(TeamTasks(m), p), t \notin page
    PROVE  Cardinality(page) >= Limit /\ Cardinality(Ahead(m, t)) >= Offset(p + 1)
<1>. DEFINE rows == TeamTasks(m)
            n    == Cardinality(rows)
            O    == Offset(p)
            A    == Ahead(m, t)
            size(k)  == Min({k, Cardinality(rows)})
            Parts(k) == {part \in kSubset(size(k), rows) : MayComeFirst(part, rows)}
<1>1. n \in Nat /\ O \in Nat /\ Limit \in Nat /\ Offset(p + 1) = O + Limit
  BY FS_CardinalityType, OffsetNext, TimelineConstants
<1>2. PICK from \in Parts(O), to \in Parts(O + Limit) : from \subseteq to /\ page = to \ from
  BY DEF Pages
<1>3. /\ from \subseteq rows /\ Cardinality(from) = Min({O, n}) /\ MayComeFirst(from, rows)
      /\ to \subseteq rows /\ Cardinality(to) = Min({O + Limit, n}) /\ MayComeFirst(to, rows)
  BY <1>2 DEF kSubset
<1>4. /\ Cardinality(from) = IF O <= n THEN O ELSE n
      /\ Cardinality(to) = IF O + Limit <= n THEN O + Limit ELSE n
  BY <1>1, <1>3, MinOfTwo
<1>5. A \subseteq rows /\ t \notin A /\ IsFiniteSet(A) /\ IsFiniteSet(from) /\ IsFiniteSet(to)
  <2>1. A \subseteq rows /\ t \notin A
    BY DEF Ahead
  <2>. QED  BY <1>3, <2>1, FS_Subset
<1>6. Cardinality(A) \in Nat /\ Cardinality(A \cup {t}) = Cardinality(A) + 1
  BY <1>5, FS_CardinalityType, FS_AddElement
<1>7. t \notin from
  <2>. SUFFICES ASSUME t \in from PROVE FALSE
    OBVIOUS
  <2>1. A \cup {t} \subseteq from
    BY <1>3 DEF Ahead, MayComeFirst
  <2>2. Cardinality(A \cup {t}) <= Cardinality(from)
    BY <1>5, <2>1, FS_Subset
  <2>. HIDE DEF n, O, A
  <2>. QED  BY <1>1, <1>4, <1>6, <2>2 DEF O, A
<1>8. t \notin to
  BY <1>2, <1>7
<1>9. to \subseteq A
  <2>. SUFFICES ASSUME NEW x \in to PROVE x \in A
    OBVIOUS
  <2>1. x \in rows /\ x # t /\ tasks[x].created \in Nat /\ tasks[t].created \in Nat
    BY <1>3, <1>8
  <2>2. ~(tasks[t].created > tasks[x].created)
    BY <1>3, <1>8 DEF MayComeFirst
  <2>3. tasks[x].created # tasks[t].created
    BY <2>1 DEF Twin
  <2>. QED  BY <2>1, <2>2, <2>3 DEF Ahead
<1>10. Cardinality(to) <= Cardinality(A) /\ Cardinality(A \cup {t}) <= n
  <2>1. A \cup {t} \subseteq rows
    BY <1>5
  <2>. QED  BY <1>5, <1>9, <2>1, FS_Subset
<1>11. Cardinality(page) = Cardinality(to) - Cardinality(from)
  <2>1. to \cap from = from
    BY <1>2
  <2>. QED  BY <1>2, <1>5, <2>1, FS_Difference
<1>. HIDE DEF n, O, A
<1>. QED  BY <1>1, <1>4, <1>6, <1>10, <1>11 DEF O, A

-----------------------------------------------------------------------------
(* What steps do to the tables.                                            *)

\* A row stays, in its team and with its created_at, and the clock does not go back.
Grows ==
    /\ clock' \in Nat /\ clock <= clock'
    /\ \A t \in Existing : /\ tasks'[t] # Nil /\ tasks'[t].created = tasks[t].created
                           /\ tasks'[t].team = tasks[t].team

\* Nothing happens to the tables.
Quiet == UNCHANGED <<clock, tasks, history, raced>>

LEMMA QuietKeeps ==
    ASSUME TimelineInv, Quiet
    PROVE  Grows /\ TablesOK' /\ HistoryOK'
BY DEF TimelineInv, TablesOK, HistoryOK, Quiet, Grows, Existing, Sound

\* The row of task t is saved.
Saves(t, row) ==
    /\ tasks' = [tasks EXCEPT ![t] = row] /\ row \in Rows
    /\ clock' = clock /\ row.updated <= clock
    /\ row.status = "done" => row.doneAt \in Nat /\ row.doneAt <= row.updated
    /\ tasks[t] # Nil => row.created = tasks[t].created /\ row.team = tasks[t].team

LEMMA SaveKeeps ==
    ASSUME TimelineInv, NEW t \in Tasks, NEW row, Saves(t, row), history' \in [Tasks -> Seq(Nat)]
    PROVE  Grows /\ TablesOK' /\ tasks'[t] = row
<1>1. TablesOK /\ row # Nil /\ row \in Rows
  BY TimelineConstants DEF TimelineInv, Saves, Rows
<1>2. tasks' \in [Tasks -> Rows \cup {Nil}] /\ tasks'[t] = row /\ clock' = clock
      /\ \A x \in Tasks \ {t} : tasks'[x] = tasks[x]
  BY <1>1 DEF TablesOK, Saves
<1>3. Existing' = Existing \cup {t}
  BY <1>1, <1>2 DEF Existing
<1>4. IsFiniteSet(Existing')
  BY <1>1, <1>3, FS_AddElement DEF TablesOK
<1>5. \A x \in Existing' : Sound(tasks[x])'
  BY <1>1, <1>2, <1>3 DEF TablesOK, Saves, Sound
<1>6. Grows
  BY <1>1, <1>2 DEF TablesOK, Grows, Existing, Saves
<1>. QED  BY <1>1, <1>2, <1>4, <1>5, <1>6 DEF TablesOK

\* What a client has not read stays behind what it has read: rows are only added.
LEMMA ReaderKeeps ==
    ASSUME TimelineInv, Grows, TablesOK', reader' = reader
    PROVE  ReaderOK'
<1>. DEFINE m == reader.team
<1>1. TablesOK /\ ReaderOK
  BY DEF TimelineInv
<1>2. TeamTasks(m) \subseteq TeamTasks(m)' /\ IsFiniteSet(TeamTasks(m)')
  <2>1. TeamTasks(m) \subseteq TeamTasks(m)'
    BY DEF TeamTasks, Grows, Existing
  <2>2. IsFiniteSet(Existing') /\ TeamTasks(m)' \subseteq Existing'
    BY DEF TablesOK, TeamTasks, Existing
  <2>. QED  BY <2>1, <2>2, FS_Subset
<1>3. \A t \in TeamTasks(m) : tasks'[t].created = tasks[t].created
  BY DEF TeamTasks, Grows, Existing
<1>4. ASSUME NEW t \in reader.missing
      PROVE  \/ Twin(m, t)'
             \/ ~reader.ended /\ Cardinality(Ahead(m, t)') >= Offset(reader.page)
  <2>1. t \in TeamTasks(m)
    BY <1>1 DEF ReaderOK
  <2>2. CASE Twin(m, t)
    BY <1>2, <1>3, <2>1, <2>2 DEF Twin
  <2>3. CASE ~reader.ended /\ Cardinality(Ahead(m, t)) >= Offset(reader.page)
    <3>1. Ahead(m, t) \subseteq Ahead(m, t)' /\ Ahead(m, t)' \subseteq TeamTasks(m)'
      BY <1>2, <1>3, <2>1 DEF Ahead
    <3>2. IsFiniteSet(Ahead(m, t)')
      BY <1>2, <3>1, FS_Subset
    <3>3. /\ Cardinality(Ahead(m, t)) <= Cardinality(Ahead(m, t)')
          /\ IsFiniteSet(Ahead(m, t))
      BY <3>1, <3>2, FS_Subset
    <3>4. Cardinality(Ahead(m, t)) \in Nat /\ Cardinality(Ahead(m, t)') \in Nat
      BY <3>2, <3>3, FS_CardinalityType
    <3>5. Offset(reader.page) \in Nat
      BY <1>1, OffsetNext DEF ReaderOK
    <3>. QED  BY <2>3, <3>3, <3>4, <3>5
  <2>. QED  BY <1>1, <2>2, <2>3 DEF ReaderOK
<1>. QED  BY <1>1, <1>2, <1>4 DEF ReaderOK, Offset

\* The other requests keep what is known of them while a row is saved.
LEMMA JobKept ==
    ASSUME TimelineInv, Grows, NEW j, JobOK(j),
           j.op = "create" => tasks'[j.task] = Nil
    PROVE  JobOK(j)'
<1>1. clock \in Nat /\ clock <= clock' /\ clock' \in Nat
  BY DEF TimelineInv, TablesOK, Grows
<1>2. tasks[j.task] # Nil => /\ tasks'[j.task] # Nil /\ tasks'[j.task].created = tasks[j.task].created
                             /\ tasks'[j.task].team = tasks[j.task].team
  BY DEF JobOK, Grows, Existing
<1>3. ASSUME NEW row, Sound(row) PROVE Sound(row)'
  BY <1>1, <1>3 DEF Sound, Rows
<1>4. j.op = "create" =>
          /\ tasks'[j.task] = Nil /\ j.phase = "write" /\ j.at \in Nat /\ j.at <= clock'
          /\ \E m \in Teams, u \in Users : j.row = NewRow(m, u)
  BY <1>1 DEF JobOK
<1>5. j.op = "update" /\ j.phase # "get" =>
          /\ Sound(j.base)' /\ j.row = [j.base EXCEPT !.status = j.input]
          /\ j.base.created = tasks'[j.task].created /\ j.base.team = tasks'[j.task].team
  BY <1>2, <1>3 DEF JobOK
<1>6. j.op = "update" /\ j.phase = "write" =>
          j.at \in Nat /\ j.base.updated <= j.at /\ j.at <= clock'
  BY <1>1 DEF JobOK
<1>. QED  BY <1>2, <1>4, <1>5, <1>6 DEF JobOK

-----------------------------------------------------------------------------
(* The steps.                                                              *)

\* A request that is new, or goes on, while the tables stay as they are.
LEMMA JobStep ==
    ASSUME TimelineInv, NEW w \in Workers, NEW j, job' = [job EXCEPT ![w] = j],
           Quiet, reader' = reader, j # Nil => JobOK(j),
           j # Nil => \/ job[w] # Nil /\ j.op = job[w].op /\ j.task = job[w].task
                      \/ \A v \in Workers : job[v] # Nil =>
                            /\ j.op = "create" => job[v].task # j.task
                            /\ job[v].op = "create" => job[v].task # j.task
    PROVE  TimelineInv'
<1>1. Grows /\ TablesOK' /\ HistoryOK'
  BY QuietKeeps
<1>2. ReaderOK'
  BY <1>1, ReaderKeeps
<1>3. JobsOK /\ job'[w] = j /\ DOMAIN job' = Workers /\ \A v \in Workers \ {w} : job'[v] = job[v]
  BY DEF TimelineInv, JobsOK
<1>4. ASSUME NEW k, JobOK(k) PROVE JobOK(k)'
  <2>1. k.op = "create" => tasks'[k.task] = Nil
    BY <1>4 DEF JobOK, Quiet
  <2>. QED  BY <1>1, <1>4, <2>1, JobKept
<1>5. \A v \in Workers : job'[v] # Nil => JobOK(job[v])'
  <2>. SUFFICES ASSUME NEW v \in Workers, job'[v] # Nil PROVE JobOK(job[v])'
    OBVIOUS
  <2>1. JobOK(job'[v])
    BY <1>3 DEF JobsOK
  <2>2. ASSUME NEW k, k = job'[v] PROVE JobOK(job[v])'
    BY <1>4, <2>1, <2>2 DEF JobOK, Sound
  <2>. QED  BY <2>2
<1>6. JobsOK'
  BY <1>3, <1>5 DEF JobsOK
<1>. QED  BY <1>1, <1>2, <1>6 DEF TimelineInv

LEMMA BeginKeeps ==
    ASSUME TimelineInv, NEW w \in Workers, NEW t \in Tasks,
           \/ \E m \in Teams, u \in Users : Create(w, m, u, t)
           \/ \E input \in {"todo", "done"} : Update(w, t, input)
    PROVE  TimelineInv'
<1>1. ASSUME NEW m \in Teams, NEW u \in Users, Create(w, m, u, t) PROVE TimelineInv'
  <2>. DEFINE j == [phase |-> "write", op |-> "create", task |-> t, input |-> Nil,
                    base |-> Nil, row |-> NewRow(m, u), at |-> clock]
  <2>1. /\ job' = [job EXCEPT ![w] = j] /\ Quiet /\ reader' = reader /\ tasks[t] = Nil
        /\ \A v \in Workers : job[v] # Nil => job[v].task # t
    BY <1>1 DEF Create, Quiet
  <2>2. clock \in Nat
    BY DEF TimelineInv, TablesOK
  <2>3. j.task = t /\ j.op = "create" /\ JobOK(j)
    BY <2>1, <2>2 DEF JobOK
  <2>. HIDE DEF j
  <2>. QED  BY <2>1, <2>3, JobStep
<1>2. ASSUME NEW input \in {"todo", "done"}, Update(w, t, input) PROVE TimelineInv'
  <2>. DEFINE j == [phase |-> "get", op |-> "update", task |-> t, input |-> input,
                    base |-> Nil, row |-> Nil, at |-> Nil]
  <2>1. job' = [job EXCEPT ![w] = j] /\ Quiet /\ reader' = reader /\ tasks[t] # Nil
    BY <1>2 DEF Update, Quiet
  <2>2. j.task = t /\ j.op = "update" /\ JobOK(j)
    BY <2>1 DEF JobOK
  <2>3. \A v \in Workers : job[v] # Nil /\ job[v].op = "create" => job[v].task # t
    BY <2>1 DEF TimelineInv, JobsOK, JobOK
  <2>. HIDE DEF j
  <2>. QED  BY <2>1, <2>2, <2>3, JobStep
<1>. QED  BY <1>1, <1>2

\* GetTaskByID, time.Now() and a failed save.
LEMMA ServeKeeps ==
    ASSUME TimelineInv, NEW w \in Workers, GetTaskByID(w) \/ TimeNow(w) \/ SaveFails(w)
    PROVE  TimelineInv'
<1>1. JobOK(job[w]) /\ TablesOK /\ DOMAIN job = Workers /\ job[w] # Nil
  BY DEF TimelineInv, JobsOK, GetTaskByID, TimeNow, SaveFails
<1>2. CASE GetTaskByID(w)
  <2>. DEFINE row == tasks[job[w].task]
              j == [job[w] EXCEPT !.phase = "stamp", !.base = row,
                                  !.row = [row EXCEPT !.status = job[w].input]]
  <2>1. job' = [job EXCEPT ![w] = j] /\ Quiet /\ reader' = reader /\ job[w].phase = "get"
    BY <1>2 DEF GetTaskByID, Quiet
  <2>2. job[w].op = "update" /\ job[w].task \in Tasks /\ row # Nil /\ job[w].input \in {"todo", "done"}
    BY <1>1, <2>1 DEF JobOK
  <2>3. Sound(row)
    BY <1>1, <2>2 DEF TablesOK, Existing
  <2>4. j.task = job[w].task /\ j.op = job[w].op /\ j.phase = "stamp" /\ j.base = row
        /\ j.row = [row EXCEPT !.status = job[w].input] /\ j.input = job[w].input
    OBVIOUS
  <2>. HIDE DEF j
  <2>5. JobOK(j)
    BY <2>2, <2>3, <2>4 DEF JobOK
  <2>. QED  BY <1>1, <2>1, <2>4, <2>5, JobStep
<1>3. CASE TimeNow(w)
  <2>. DEFINE j == [job[w] EXCEPT !.phase = "write", !.at = clock]
  <2>1. job' = [job EXCEPT ![w] = j] /\ Quiet /\ reader' = reader /\ job[w].phase = "stamp"
    BY <1>3 DEF TimeNow, Quiet
  <2>2. /\ j.task = job[w].task /\ j.op = job[w].op /\ j.phase = "write" /\ j.base = job[w].base
        /\ j.row = job[w].row /\ j.input = job[w].input /\ j.at = clock
    OBVIOUS
  <2>. HIDE DEF j
  <2>3. JobOK(j)
    BY <1>1, <2>1, <2>2 DEF JobOK, Sound, TablesOK
  <2>. QED  BY <1>1, <2>1, <2>2, <2>3, JobStep
<1>4. CASE SaveFails(w)
  BY <1>4, JobStep DEF SaveFails, Quiet
<1>. QED  BY <1>2, <1>3, <1>4

\* A request saves its row and ends; the others go on.
LEMMA JobEnds ==
    ASSUME TimelineInv, NEW w \in Workers, job[w] # Nil, job' = [job EXCEPT ![w] = Nil], Grows,
           \A t \in Tasks \ {job[w].task} : tasks'[t] = tasks[t],
           job[w].op = "update" => tasks[job[w].task] # Nil
    PROVE  JobsOK'
<1>1. JobsOK /\ job'[w] = Nil /\ DOMAIN job' = Workers /\ \A v \in Workers \ {w} : job'[v] = job[v]
  BY DEF TimelineInv, JobsOK
<1>2. ASSUME NEW v \in Workers \ {w}, job[v] # Nil PROVE JobOK(job[v])'
  <2>1. JobOK(job[v]) /\ JobOK(job[w])
    BY <1>1, <1>2 DEF JobsOK
  <2>2. job[v].op = "create" => tasks'[job[v].task] = Nil
    BY <1>1, <1>2, <2>1 DEF JobsOK, JobOK
  <2>3. ASSUME NEW k, k = job[v] PROVE JobOK(job[v])'
    <3>1. JobOK(k)'
      BY <2>1, <2>2, <2>3, JobKept
    <3>2. job'[v] = k
      BY <1>1, <2>3
    <3>. QED  BY <3>1, <3>2 DEF JobOK, Sound
  <2>. QED  BY <2>3
<1>. QED  BY <1>1, <1>2 DEF JobsOK

LEMMA CreateKeeps ==
    ASSUME TimelineInv, NEW w \in Workers, SaveTask(w)
    PROVE  TimelineInv'
<1>. DEFINE j == job[w]
            row == [j.row EXCEPT !.created = j.at, !.updated = j.at]
<1>1. JobOK(j) /\ TablesOK /\ HistoryOK /\ j # Nil /\ j.op = "create"
  BY DEF TimelineInv, JobsOK, SaveTask
<1>2. /\ tasks' = [tasks EXCEPT ![j.task] = row] /\ job' = [job EXCEPT ![w] = Nil]
      /\ UNCHANGED <<clock, history, reader, raced>>
  BY DEF SaveTask
<1>3. PICK m \in Teams, u \in Users : j.row = NewRow(m, u)
  BY <1>1 DEF JobOK
<1>4. j.task \in Tasks /\ tasks[j.task] = Nil /\ j.at \in Nat /\ j.at <= clock
  BY <1>1 DEF JobOK
<1>5. row \in Rows /\ row.status = "todo" /\ row.updated = j.at
  <2>1. row = [NewRow(m, u) EXCEPT !.created = j.at, !.updated = j.at]
    BY <1>3
  <2>. DEFINE at == j.at
              new == [NewRow(m, u) EXCEPT !.created = at, !.updated = at]
  <2>2. at \in Nat
    BY <1>4
  <2>. HIDE DEF at
  <2>3. new \in Rows /\ new.status = "todo" /\ new.updated = at
    BY <2>2 DEF NewRow, Rows
  <2>. QED  BY <2>1, <2>3 DEF at
<1>6. Saves(j.task, row)
  BY <1>2, <1>4, <1>5 DEF Saves
<1>7. history' \in [Tasks -> Seq(Nat)]
  BY <1>1, <1>2 DEF TablesOK
<1>. HIDE DEF row
<1>8. Grows /\ TablesOK' /\ tasks'[j.task] = row
  BY <1>4, <1>6, <1>7, SaveKeeps
<1>9. \A t \in Tasks \ {j.task} : tasks'[t] = tasks[t]
  BY <1>1, <1>2 DEF TablesOK
<1>10. JobsOK'
  BY <1>1, <1>2, <1>8, <1>9, JobEnds
<1>11. HistoryOK'
  <2>1. history[j.task] = <<>> /\ Len(<<>>) = 0
    BY <1>1, <1>4 DEF HistoryOK
  <2>2. \A i \in 1..0 : FALSE
    OBVIOUS
  <2>3. ASSUME NEW x \in Tasks
        PROVE  /\ tasks'[x] = Nil => history'[x] = <<>>
               /\ tasks'[x] # Nil /\ x \notin raced' =>
                    /\ \A i \in 1..Len(history'[x]) : history'[x][i] <= tasks'[x].updated
                    /\ \A i, k \in 1..Len(history'[x]) : i < k => history'[x][i] <= history'[x][k]
    <3>1. CASE x = j.task
      BY <1>2, <2>1, <2>2, <3>1
    <3>2. CASE x # j.task
      BY <1>1, <1>2, <1>9, <3>2 DEF HistoryOK
    <3>. QED  BY <3>1, <3>2
  <2>. QED  BY <2>3 DEF HistoryOK
<1>12. ReaderOK'
  BY <1>2, <1>8, ReaderKeeps
<1>. QED  BY <1>8, <1>10, <1>11, <1>12 DEF TimelineInv

\* An update renews the row, and appends an entry that is not before the others unless
\* somebody else saved the row since it was read.
LEMMA UpdateKeeps ==
    ASSUME TimelineInv, NEW w \in Workers, UpdateTaskWithHistory(w)
    PROVE  TimelineInv'
<1>. DEFINE j == job[w]
            completes == j.row.status = "done" /\ j.base.status # "done"
            row == [j.row EXCEPT !.updated = j.at, !.doneAt = IF completes THEN j.at ELSE @]
            t == j.task
<1>1. JobOK(j) /\ TablesOK /\ HistoryOK /\ j # Nil /\ j.op = "update" /\ j.phase = "write"
  BY DEF TimelineInv, JobsOK, UpdateTaskWithHistory
<1>2. /\ tasks' = [tasks EXCEPT ![t] = row] /\ job' = [job EXCEPT ![w] = Nil]
      /\ history' = [history EXCEPT ![t] = IF j.input = j.base.status THEN history[t]
                                           ELSE Append(history[t], j.at)]
      /\ raced' = IF tasks[t] = j.base THEN raced ELSE raced \cup {t}
      /\ UNCHANGED <<clock, reader>>
  BY DEF UpdateTaskWithHistory
<1>3. /\ t \in Tasks /\ tasks[t] # Nil /\ j.input \in {"todo", "done"}
      /\ Sound(j.base) /\ j.row = [j.base EXCEPT !.status = j.input]
      /\ j.base.created = tasks[t].created /\ j.base.team = tasks[t].team
      /\ j.at \in Nat /\ j.base.updated <= j.at /\ j.at <= clock
  BY <1>1 DEF JobOK
<1>4. /\ row \in Rows /\ row.updated = j.at /\ row.status = j.input
      /\ row.created = j.base.created /\ row.team = j.base.team
      /\ row.doneAt = IF j.input = "done" /\ j.base.status # "done" THEN j.at ELSE j.base.doneAt
  <2>. DEFINE input == j.input
              at    == j.at
              base  == j.base
              new(c) == [[base EXCEPT !.status = input] EXCEPT !.updated = at, !.doneAt = IF c THEN at ELSE @]
  <2>1. base \in Rows /\ input \in {"todo", "done"} /\ at \in Nat
    BY <1>3 DEF Sound
  <2>2. row = new(completes)
    BY <1>3
  <2>3. j.row.status = input
    BY <1>3, <2>1 DEF Rows
  <2>. HIDE DEF input, at, base
  <2>4. \A c : /\ new(c) \in Rows /\ new(c).updated = at /\ new(c).status = input
                /\ new(c).created = base.created /\ new(c).team = base.team
                /\ new(c).doneAt = IF c THEN at ELSE base.doneAt
    BY <2>1 DEF Rows
  <2>. HIDE DEF new, row
  <2>. QED  BY <2>2, <2>3, <2>4 DEF input, at, base
<1>5. Saves(t, row)
  <2>1. /\ j.base.status = "done" => j.base.doneAt \in Nat /\ j.base.doneAt <= j.base.updated
        /\ j.base.updated \in Nat
    BY <1>3 DEF Sound, Rows
  <2>. HIDE DEF row
  <2>2. row.status = "done" => row.doneAt \in Nat /\ row.doneAt <= row.updated
    BY <1>3, <1>4, <2>1
  <2>. QED  BY <1>2, <1>3, <1>4, <2>2 DEF Saves
<1>6. history' \in [Tasks -> Seq(Nat)]
  BY <1>1, <1>2, <1>3 DEF TablesOK
<1>7. row.updated = j.at
  BY <1>4
<1>. HIDE DEF row
<1>8. Grows /\ TablesOK' /\ tasks'[t] = row
  BY <1>3, <1>5, <1>6, SaveKeeps
<1>9. \A x \in Tasks \ {t} : tasks'[x] = tasks[x] /\ history'[x] = history[x]
  BY <1>1, <1>2 DEF TablesOK
<1>10. JobsOK'
  BY <1>1, <1>2, <1>3, <1>8, <1>9, JobEnds
<1>11. HistoryOK'
  <2>1. ASSUME t \notin raced'
        PROVE  /\ \A i \in 1..Len(history'[t]) : history'[t][i] <= j.at
               /\ \A i, k \in 1..Len(history'[t]) : i < k => history'[t][i] <= history'[t][k]
    <3>1. t \notin raced /\ tasks[t].updated = j.base.updated
      BY <1>2, <2>1
    <3>2. /\ history[t] \in Seq(Nat) /\ j.base.updated \in Nat
          /\ \A i \in 1..Len(history[t]) : history[t][i] <= j.base.updated
          /\ \A i, k \in 1..Len(history[t]) : i < k => history[t][i] <= history[t][k]
      <4>1. history[t] \in Seq(Nat)
        BY <1>1, <1>3 DEF TablesOK
      <4>2. j.base.updated \in Nat
        BY <1>3 DEF Sound, Rows
      <4>3. /\ \A i \in 1..Len(history[t]) : history[t][i] <= tasks[t].updated
            /\ \A i, k \in 1..Len(history[t]) : i < k => history[t][i] <= history[t][k]
        BY <1>1, <1>3, <3>1 DEF HistoryOK
      <4>. QED  BY <3>1, <4>1, <4>2, <4>3
    <3>3. \A i \in 1..Len(history[t]) : history[t][i] \in Nat /\ history[t][i] <= j.at
      <4>. SUFFICES ASSUME NEW i \in 1..Len(history[t])
                    PROVE  history[t][i] \in Nat /\ history[t][i] <= j.at
        OBVIOUS
      <4>1. history[t][i] \in Nat /\ history[t][i] <= j.base.updated
        BY <3>2
      <4>2. j.at \in Nat /\ j.base.updated \in Nat /\ j.base.updated <= j.at
        BY <1>3, <3>2
      <4>. QED  BY <4>1, <4>2
    <3>4. CASE history'[t] = history[t]
      BY <3>2, <3>3, <3>4
    <3>5. CASE history'[t] = Append(history[t], j.at)
      <4>1. /\ Len(history'[t]) = Len(history[t]) + 1 /\ Len(history[t]) \in Nat
            /\ history'[t][Len(history[t]) + 1] = j.at
            /\ \A i \in 1..Len(history[t]) : history'[t][i] = history[t][i]
        BY <1>3, <3>2, <3>5
      <4>2. \A i \in 1..Len(history'[t]) : i \in 1..Len(history[t]) \/ i = Len(history[t]) + 1
        BY <4>1
      <4>3. \A i \in 1..Len(history'[t]) : history'[t][i] <= j.at
        BY <1>3, <3>3, <4>1, <4>2
      <4>4. ASSUME NEW i \in 1..Len(history'[t]), NEW k \in 1..Len(history'[t]), i < k
            PROVE  history'[t][i] <= history'[t][k]
        <5>1. i \in 1..Len(history[t])
          BY <4>1, <4>4
        <5>2. CASE k = Len(history[t]) + 1
          BY <4>1, <4>3, <5>2
        <5>3. CASE k \in 1..Len(history[t])
          BY <3>2, <4>1, <4>4, <5>1, <5>3
        <5>. QED  BY <4>2, <5>2, <5>3
      <4>. QED  BY <4>3, <4>4
    <3>. QED  BY <1>1, <1>2, <1>3, <3>4, <3>5 DEF TablesOK
  <2>2. tasks'[t] # Nil /\ tasks'[t].updated = j.at
    BY <1>3, <1>7, <1>8 DEF Grows, Existing
  <2>3. ASSUME NEW x \in Tasks \ {t}
        PROVE  /\ tasks'[x] = Nil => history'[x] = <<>>
               /\ tasks'[x] # Nil /\ x \notin raced' =>
                    /\ \A i \in 1..Len(history'[x]) : history'[x][i] <= tasks'[x].updated
                    /\ \A i, k \in 1..Len(history'[x]) : i < k => history'[x][i] <= history'[x][k]
    BY <1>1, <1>2, <1>9 DEF HistoryOK
  <2>. QED  BY <2>1, <2>2, <2>3 DEF HistoryOK
<1>12. ReaderOK'
  BY <1>2, <1>8, ReaderKeeps
<1>. QED  BY <1>8, <1>10, <1>11, <1>12 DEF TimelineInv

\* Steps of the client, of the teams and of the clock leave the requests alone.
LEMMA JobsStay ==
    ASSUME TimelineInv, Grows, UNCHANGED <<job, tasks>>
    PROVE  JobsOK'
<1>1. JobsOK
  BY DEF TimelineInv
<1>2. ASSUME NEW w \in Workers, job[w] # Nil PROVE JobOK(job[w])'
  <2>1. JobOK(job[w])
    BY <1>1, <1>2 DEF JobsOK
  <2>2. job[w].op = "create" => tasks'[job[w].task] = Nil
    BY <2>1 DEF JobOK
  <2>3. ASSUME NEW k, k = job[w] PROVE JobOK(job[w])'
    <3>1. JobOK(k)'
      BY <2>1, <2>2, <2>3, JobKept
    <3>2. job'[w] = k
      BY <2>3
    <3>. QED  BY <3>1, <3>2 DEF JobOK, Sound
  <2>. QED  BY <2>3
<1>. QED  BY <1>1, <1>2 DEF JobsOK

LEMMA TickKeeps ==
    ASSUME TimelineInv, Tick
    PROVE  TimelineInv'
<1>1. /\ clock' = clock + 1 /\ clock \in Nat /\ TablesOK /\ HistoryOK
      /\ UNCHANGED <<tasks, history, job, reader, raced>>
  BY DEF TimelineInv, TablesOK, Tick
<1>2. Grows
  BY <1>1 DEF Grows, Existing
<1>3. Existing' = Existing /\ \A t \in Existing : Sound(tasks[t])
  BY <1>1 DEF Existing, TablesOK
<1>4. ASSUME NEW t \in Existing PROVE Sound(tasks[t])'
  <2>1. Sound(tasks[t])
    BY <1>3
  <2>2. tasks[t].updated \in Nat
    BY <2>1 DEF Sound, Rows
  <2>. QED  BY <1>1, <2>1, <2>2 DEF Sound, Rows
<1>5. TablesOK'
  BY <1>1, <1>3, <1>4 DEF TablesOK, Rows
<1>6. HistoryOK'
  BY <1>1 DEF HistoryOK
<1>7. ReaderOK'
  BY <1>1, <1>2, <1>5, ReaderKeeps
<1>8. JobsOK'
  BY <1>1, <1>2, JobsStay
<1>. QED  BY <1>5, <1>6, <1>7, <1>8 DEF TimelineInv

LEMMA ReaderNow ==
    ASSUME NEW m, reader'.team = m, reader'.page \in Nat \ {0}, reader'.ended \in BOOLEAN,
           reader' = [team |-> reader'.team, page |-> reader'.page, missing |-> reader'.missing,
                      ended |-> reader'.ended],
           reader'.missing \subseteq TeamTasks(m)',
           \A t \in reader'.missing :
              \/ Twin(m, t)'
              \/ ~reader'.ended /\ Cardinality(Ahead(m, t)') >= Offset(reader'.page)
    PROVE  ReaderOK'
BY DEF ReaderOK, Twin, Ahead, TeamTasks

\* A page moves the reader on: what the page does not have is behind it.
LEMMA ReadKeeps ==
    ASSUME TimelineInv, ListTasks
    PROVE  ReaderOK'
<1>. DEFINE p == reader.page
            missing == reader.missing
<1>. PICK m : m = reader.team
  OBVIOUS
<1>1. PICK page \in Pages(TeamTasks(m), p) :
         reader' = [reader EXCEPT !.page = @ + 1, !.missing = @ \ page,
                                  !.ended = Cardinality(page) < Limit]
  BY DEF ListTasks
<1>2. ~reader.ended /\ UNCHANGED tasks
  BY DEF ListTasks
<1>3. TablesOK /\ ReaderOK
  BY DEF TimelineInv
<1>4. /\ p \in Nat \ {0} /\ missing \subseteq TeamTasks(m)
      /\ reader = [team |-> m, page |-> p, missing |-> missing, ended |-> reader.ended]
      /\ \A t \in missing : Twin(m, t) \/ Cardinality(Ahead(m, t)) >= Offset(p)
  BY <1>2, <1>3 DEF ReaderOK
<1>5. /\ reader'.team = m /\ reader'.page = p + 1 /\ reader'.missing = missing \ page
      /\ reader'.ended = (Cardinality(page) < Limit)
      /\ reader' = [team |-> reader'.team, page |-> reader'.page, missing |-> reader'.missing,
                    ended |-> reader'.ended]
  BY <1>1, <1>4
<1>6. IsFiniteSet(TeamTasks(m)) /\ \A y \in TeamTasks(m) : tasks[y].created \in Nat
  <2>1. IsFiniteSet(Existing) /\ TeamTasks(m) \subseteq Existing
    BY <1>3 DEF TablesOK, TeamTasks, Existing
  <2>2. \A y \in Existing : tasks[y].created \in Nat
    BY <1>3 DEF TablesOK, Sound, Rows
  <2>. QED  BY <2>1, <2>2, FS_Subset
<1>7. ASSUME NEW t \in missing \ page
      PROVE  \/ Twin(m, t)
             \/ ~(Cardinality(page) < Limit) /\ Cardinality(Ahead(m, t)) >= Offset(p + 1)
  <2>1. t \in TeamTasks(m) /\ t \notin page /\ (Twin(m, t) \/ Cardinality(Ahead(m, t)) >= Offset(p))
    BY <1>4
  <2>2. IsFiniteSet(page)
    BY <1>6, FS_Subset, FS_Difference DEF Pages, kSubset
  <2>3. Cardinality(page) \in Nat /\ Limit \in Nat
    BY <2>2, FS_CardinalityType, TimelineConstants
  <2>4. ASSUME ~Twin(m, t)
        PROVE  Cardinality(page) >= Limit /\ Cardinality(Ahead(m, t)) >= Offset(p + 1)
    BY <1>1, <1>4, <1>6, <2>1, <2>4, PageStopsBefore
  <2>. QED  BY <2>3, <2>4
<1>8. \A n, t : /\ TeamTasks(n)' = TeamTasks(n) /\ Ahead(n, t)' = Ahead(n, t)
                /\ Twin(n, t) => Twin(n, t)'
  BY <1>2 DEF TeamTasks, Twin, Ahead
<1>9. reader'.page \in Nat \ {0} /\ reader'.ended \in BOOLEAN
  BY <1>4, <1>5
<1>10. reader'.missing \subseteq TeamTasks(m)'
  BY <1>4, <1>5, <1>8
<1>11. ASSUME NEW t \in reader'.missing
       PROVE  \/ Twin(m, t)'
              \/ ~reader'.ended /\ Cardinality(Ahead(m, t)') >= Offset(reader'.page)
  <2>1. t \in missing \ page /\ (reader'.ended = (Cardinality(page) < Limit)) /\ reader'.page = p + 1
    BY <1>5
  <2>. QED  BY <1>7, <1>8, <2>1
<1>. QED  BY <1>5, <1>9, <1>10, <1>11, ReaderNow

LEMMA ReaderStep ==
    ASSUME TimelineInv, ListTasks \/ EndReading \/ \E m \in Teams : BeginReading(m)
    PROVE  TimelineInv'
<1>1. Quiet /\ UNCHANGED <<job, tasks>>
  BY DEF ListTasks, EndReading, BeginReading, Quiet
<1>2. Grows /\ TablesOK' /\ HistoryOK'
  BY <1>1, QuietKeeps
<1>3. JobsOK'
  BY <1>1, <1>2, JobsStay
<1>4. CASE ListTasks
  BY <1>2, <1>3, <1>4, ReadKeeps DEF TimelineInv
<1>5. CASE EndReading
  <2>1. reader' = NotReading
    BY <1>5 DEF EndReading
  <2>2. ReaderOK'
    BY <2>1 DEF ReaderOK, NotReading
  <2>. QED  BY <1>2, <1>3, <2>2 DEF TimelineInv
<1>6. ASSUME NEW m \in Teams, BeginReading(m) PROVE TimelineInv'
  <2>1. /\ reader'.team = m /\ reader'.page = 1 /\ reader'.missing = TeamTasks(m) /\ reader'.ended = FALSE
        /\ reader' = [team |-> reader'.team, page |-> reader'.page, missing |-> reader'.missing,
                      ended |-> reader'.ended]
    BY <1>6 DEF BeginReading, NotReading
  <2>2. TeamTasks(m)' = TeamTasks(m)
    BY <1>1 DEF TeamTasks
  <2>3. ASSUME NEW t \in TeamTasks(m) PROVE Cardinality(Ahead(m, t)') >= 0
    <3>1. IsFiniteSet(Existing') /\ Ahead(m, t)' \subseteq Existing'
      BY <1>2 DEF TablesOK, Ahead, TeamTasks, Existing
    <3>2. IsFiniteSet(Ahead(m, t)')
      BY <3>1, FS_Subset
    <3>. QED  BY <3>2, FS_CardinalityType
  <2>4. Offset(1) = 0
    BY OffsetNext
  <2>5. ASSUME NEW t \in reader'.missing
        PROVE  \/ Twin(m, t)'
               \/ ~reader'.ended /\ Cardinality(Ahead(m, t)') >= Offset(reader'.page)
    BY <2>1, <2>3, <2>4
  <2>6. reader'.missing \subseteq TeamTasks(m)'
    BY <2>1, <2>2
  <2>7. reader'.ended \in BOOLEAN
    BY <2>1, Zenon
  <2>8. ReaderOK'
    BY <2>1, <2>5, <2>6, <2>7, ReaderNow
  <2>. QED  BY <1>2, <1>3, <2>8 DEF TimelineInv
<1>. QED  BY <1>4, <1>5, <1>6

\* A step that does not touch what the invariant is about.
LEMMA JoinKeeps ==
    ASSUME TimelineInv, UNCHANGED <<clock, tasks, history, job, reader, raced>>
    PROVE  TimelineInv'
<1>1. Quiet /\ Grows /\ TablesOK' /\ HistoryOK'
  BY QuietKeeps DEF Quiet
<1>. QED  BY <1>1, JobsStay, ReaderKeeps DEF TimelineInv

-----------------------------------------------------------------------------
LEMMA TimelineInvInit ==
    ASSUME Init
    PROVE  TimelineInv
<1>1. Existing = {}
  BY DEF Init, Existing
<1>2. <<>> \in Seq(Nat) /\ history \in [Tasks -> Seq(Nat)]
  BY DEF Init
<1>3. TablesOK
  BY <1>1, <1>2, FS_EmptySet DEF Init, TablesOK
<1>4. JobsOK
  BY DEF Init, JobsOK
<1>5. HistoryOK
  BY DEF Init, HistoryOK
<1>6. ReaderOK
  BY DEF Init, ReaderOK, NotReading
<1>. QED  BY <1>3, <1>4, <1>5, <1>6 DEF TimelineInv

LEMMA TimelineInvNext ==
    ASSUME TimelineInv, [Next]_vars
    PROVE  TimelineInv'
<1>1. ASSUME NEW w \in Workers, NEW t \in Tasks,
             \/ \E m \in Teams, u \in Users : Create(w, m, u, t)
             \/ \E input \in {"todo", "done"} : Update(w, t, input)
      PROVE  TimelineInv'
  BY <1>1, BeginKeeps
<1>2. ASSUME NEW w \in Workers, Serve(w) PROVE TimelineInv'
  BY <1>2, ServeKeeps, CreateKeeps, UpdateKeeps DEF Serve
<1>3. ASSUME NEW m \in Teams, NEW u \in Users, Join(m, u) PROVE TimelineInv'
  BY <1>3, JoinKeeps DEF Join
<1>4. CASE ListTasks \/ EndReading \/ \E m \in Teams : BeginReading(m)
  BY <1>4, ReaderStep
<1>5. CASE Tick
  BY <1>5, TickKeeps
<1>6. CASE UNCHANGED vars
  BY <1>6, JoinKeeps DEF vars
<1>. QED  BY <1>1, <1>2, <1>3, <1>4, <1>5, <1>6 DEF Next

\* Rows come from the past and stay in their place, what a request has read of a task is
\* not newer than the task, and a client that reads page by page has not passed a task
\* that it has not seen.
THEOREM TimelineInvariant == Spec => []TimelineInv
<1>1. Init => TimelineInv
  BY TimelineInvInit
<1>2. TimelineInv /\ [Next]_vars => TimelineInv'
  BY TimelineInvNext
<1>. QED  BY <1>1, <1>2, PTL DEF Spec

\* ListHistory answers the entries of a task in the order of the commits, except for
\* those of one moment, unless updates of the task raced.
THEOREM HistoryKeepsOrder == Spec => []HistoryInOrder
<1>1. ASSUME TimelineInv PROVE HistoryInOrder
  <2>. SUFFICES ASSUME NEW t \in Tasks \ raced, NEW order \in ListHistory(t),
                       NEW i \in DOMAIN order, NEW k \in DOMAIN order,
                       i < k, order[i] > order[k]
                PROVE  history[t][order[i]] = history[t][order[k]]
    BY DEF HistoryInOrder
  <2>. DEFINE h == history[t]
  <2>1. h \in Seq(Nat) /\ DOMAIN h = 1..Len(h) /\ Len(h) \in Nat
    BY <1>1 DEF TimelineInv, TablesOK
  <2>2. order \in [1..Len(h) -> 1..Len(h)]
    BY <2>1 DEF ListHistory, Bijection, Injection, Surjection
  <2>3. h[order[i]] <= h[order[k]]
    BY <2>1, <2>2 DEF ListHistory
  <2>4. \A x, y \in 1..Len(h) : x < y => h[x] <= h[y]
    <3>1. tasks[t] = Nil => h = <<>>
      BY <1>1 DEF TimelineInv, HistoryOK
    <3>2. tasks[t] # Nil => \A x, y \in 1..Len(h) : x < y => h[x] <= h[y]
      BY <1>1 DEF TimelineInv, HistoryOK
    <3>. QED  BY <3>1, <3>2
  <2>5. h[order[i]] \in Nat /\ h[order[k]] \in Nat
    <3>1. order[i] \in 1..Len(h) /\ order[k] \in 1..Len(h)
      BY <2>2
    <3>. HIDE DEF h
    <3>2. \A x \in 1..Len(h) : h[x] \in Nat
      BY <2>1
    <3>. QED  BY <3>1, <3>2
  <2>6. h[order[k]] <= h[order[i]]
    <3>1. order[i] \in 1..Len(h) /\ order[k] \in 1..Len(h)
      BY <2>2
    <3>. QED  BY <2>4, <3>1
  <2>. QED  BY <2>3, <2>5, <2>6
<1>. QED  BY <1>1, TimelineInvariant, PTL

\* Who reads the pages of a list one after the other while tasks are created and updated
\* sees every task that was there from the start, except for tasks that share created_at
\* with another.
THEOREM PagesSkipNothing == Spec => []NothingSkipped
<1>1. ASSUME TimelineInv PROVE NothingSkipped
  BY <1>1 DEF TimelineInv, ReaderOK, NothingSkipped, Twin
<1>. QED  BY <1>1, TimelineInvariant, PTL

-----------------------------------------------------------------------------
(* The reports. The argument does not depend on how the state came about,  *)
(* beyond the types of the tables and doneAt <= updated.                   *)

MembersOK == members \in [Teams -> SUBSET Users]

LEMMA MembersAreUsers == Spec => []MembersOK
<1>1. Init => MembersOK
  BY DEF Init, MembersOK
<1>2. MembersOK /\ [Next]_vars => MembersOK'
  <2>. SUFFICES ASSUME MembersOK, [Next]_vars PROVE MembersOK'
    OBVIOUS
  <2>1. members' = members \/ \E m \in Teams, u \in Users : Join(m, u)
    BY DEF Next, vars, Serve, Create, Update, GetTaskByID, TimeNow, SaveTask, SaveFails,
           UpdateTaskWithHistory, BeginReading, ListTasks, EndReading, Tick
  <2>2. ASSUME NEW m \in Teams, NEW u \in Users, Join(m, u) PROVE MembersOK'
    BY <2>2 DEF Join, MembersOK
  <2>. QED  BY <2>1, <2>2 DEF MembersOK
<1>. QED  BY <1>1, <1>2, PTL DEF Spec

LEMMA TeamTasksFinite ==
    ASSUME TimelineInv, NEW m
    PROVE  IsFiniteSet(TeamTasks(m)) /\ TeamTasks(m) \subseteq Existing
<1>1. IsFiniteSet(Existing) /\ TeamTasks(m) \subseteq Existing
  BY DEF TimelineInv, TablesOK, TeamTasks, Existing
<1>. QED  BY <1>1, FS_Subset

\* COUNT(DISTINCT user_id) over the join counts the members.
LEMMA JoinedMembers ==
    ASSUME MembersOK, NEW m \in Teams
    PROVE  CountDistinct(Joined(m), 1) = Cardinality(members[m])
<1>. DEFINE B == IF TeamTasks(m) = {} THEN {Nil} ELSE TeamTasks(m)
            A == IF members[m] = {} THEN {Nil} ELSE members[m]
<1>1. Joined(m) = A \X B
  BY DEF Joined
<1>2. Nil \notin members[m]
  BY TimelineConstants DEF MembersOK
<1>3. PICK b : b \in B
  OBVIOUS
<1>. HIDE DEF B
<1>4. {row[1] : row \in A \X B} = A
  <2>. HIDE DEF A
  <2>1. \A a \in A : <<a, b>> \in A \X B /\ <<a, b>>[1] = a
    BY <1>3
  <2>2. \A row \in A \X B : row[1] \in A
    OBVIOUS
  <2>. QED  BY <2>1, <2>2
<1>5. {row[1] : row \in A \X B} \ {Nil} = members[m]
  BY <1>2, <1>4
<1>. QED  BY <1>1, <1>5 DEF CountDistinct

\* COUNT(DISTINCT task id) over the join counts the tasks.
LEMMA JoinedTasks ==
    ASSUME NEW m \in Teams, NEW D, D \subseteq TeamTasks(m)
    PROVE  CountDistinct({row \in Joined(m) : row[2] # Nil /\ row[2] \in D}, 2) = Cardinality(D)
<1>. DEFINE A == IF members[m] = {} THEN {Nil} ELSE members[m]
            B == IF TeamTasks(m) = {} THEN {Nil} ELSE TeamTasks(m)
            R == {row \in Joined(m) : row[2] # Nil /\ row[2] \in D}
<1>1. Joined(m) = A \X B
  BY DEF Joined
<1>2. Nil \notin D /\ D \subseteq B
  BY TimelineConstants DEF TeamTasks
<1>3. PICK a : a \in A
  OBVIOUS
<1>. HIDE DEF A, B
<1>4. \A t \in D : <<a, t>> \in R /\ <<a, t>>[2] = t
  BY <1>1, <1>2, <1>3
<1>5. \A row \in R : row[2] \in D
  OBVIOUS
<1>. HIDE DEF R
<1>6. {row[2] : row \in R} = D
  BY <1>4, <1>5
<1>7. {row[2] : row \in R} \ {Nil} = D
  BY <1>2, <1>6
<1>. QED  BY <1>7 DEF R, CountDistinct

LEMMA SummariesAreComplete ==
    ASSUME TimelineInv, MembersOK, NEW user \in Users
    PROVE  SummariesComplete(user)
<1>1. GetTeamSummaries(user) = TeamSummaries
  BY TimelineConstants DEF GetTeamSummaries
<1>. SUFFICES ASSUME NEW m \in Teams
              PROVE  /\ TeamSummaries[m].member_count = Cardinality(members[m])
                     /\ TeamSummaries[m].done_last_7_days
                          \in Cardinality(Completed(m))..Cardinality(TeamTasks(m))
  BY <1>1 DEF SummariesComplete
<1>. DEFINE D == {t \in TeamTasks(m) : tasks[t].status = "done" /\ tasks[t].updated >= clock - Week}
            rows == {row \in Joined(m) : /\ row[2] # Nil
                                         /\ tasks[row[2]].status = "done"
                                         /\ tasks[row[2]].updated >= clock - Week}
<1>2. TeamSummaries[m].member_count = CountDistinct(Joined(m), 1)
      /\ TeamSummaries[m].done_last_7_days = CountDistinct(rows, 2)
  BY DEF TeamSummaries
<1>3. rows = {row \in Joined(m) : row[2] # Nil /\ row[2] \in D}
  BY DEF Joined
<1>4. CountDistinct(rows, 2) = Cardinality(D)
  BY <1>3, JoinedTasks
<1>5. IsFiniteSet(TeamTasks(m)) /\ TeamTasks(m) \subseteq Existing
  BY TeamTasksFinite
<1>6. Completed(m) \subseteq D
  <2>. SUFFICES ASSUME NEW t \in Completed(m) PROVE t \in D
    OBVIOUS
  <2>1. t \in TeamTasks(m) /\ tasks[t].status = "done" /\ tasks[t].doneAt >= clock - Week
    BY DEF Completed
  <2>2. Sound(tasks[t]) /\ clock \in Nat
    BY <1>5, <2>1 DEF TimelineInv, TablesOK
  <2>3. tasks[t].doneAt \in Nat /\ tasks[t].doneAt <= tasks[t].updated /\ tasks[t].updated \in Nat
    BY <2>1, <2>2 DEF Sound, Rows
  <2>4. tasks[t].updated >= clock - Week
    BY <2>1, <2>2, <2>3, TimelineConstants
  <2>. QED  BY <2>1, <2>4
<1>7. /\ Cardinality(Completed(m)) \in Nat /\ Cardinality(D) \in Nat /\ Cardinality(TeamTasks(m)) \in Nat
      /\ Cardinality(Completed(m)) <= Cardinality(D) /\ Cardinality(D) <= Cardinality(TeamTasks(m))
  <2>1. D \subseteq TeamTasks(m)
    OBVIOUS
  <2>. HIDE DEF D
  <2>2. IsFiniteSet(D) /\ Cardinality(D) <= Cardinality(TeamTasks(m))
    BY <1>5, <2>1, FS_Subset
  <2>3. IsFiniteSet(Completed(m)) /\ Cardinality(Completed(m)) <= Cardinality(D)
    BY <1>6, <2>2, FS_Subset
  <2>. QED  BY <1>5, <2>2, <2>3, FS_CardinalityType
<1>. HIDE DEF D, rows
<1>. QED  BY <1>2, <1>4, <1>7, JoinedMembers

\* A set of numbers that has an element has a smallest one.
LEMMA SmallestOf ==
    ASSUME NEW S, S \subseteq Nat, S # {}
    PROVE  \E x \in S : \A y \in S : x <= y
<1>. DEFINE less == OpToRel(<, Nat)
<1>1. IsWellFoundedOn(less, Nat)
  BY NatLessThanWellFounded
<1>2. \A a, b \in Nat : a < b => <<a, b>> \in less
  BY DEF OpToRel
<1>. HIDE DEF less
<1>3. PICK x \in S : \A y \in S : ~(<<y, x>> \in less)
  BY <1>1, WFMin
<1>4. ASSUME NEW y \in S PROVE x <= y
  <2>1. ~(y < x) /\ x \in Nat /\ y \in Nat
    BY <1>2, <1>3
  <2>. QED  BY <2>1
<1>. QED  BY <1>4

\* The users of a team with more tasks than u; RANK() is one more than their number.
Above(m, u) == {v \in Users : TaskCount(m, v) > TaskCount(m, u)}

LEMMA CountsAreFinite ==
    ASSUME TimelineInv, NEW m
    PROVE  /\ \A u : TaskCount(m, u) \in Nat /\ TaskCount(m, u) <= Cardinality(TeamTasks(m))
           /\ \A u : IsFiniteSet(Above(m, u))
<1>1. IsFiniteSet(TeamTasks(m))
  BY TeamTasksFinite
<1>. DEFINE Own(u) == {t \in TeamTasks(m) : tasks[t].by = u /\ tasks[t].created >= clock - Month}
<1>2. \A u : /\ IsFiniteSet(Own(u)) /\ Cardinality(Own(u)) \in Nat
             /\ Cardinality(Own(u)) <= Cardinality(TeamTasks(m))
  <2>. SUFFICES ASSUME NEW u
                PROVE  /\ IsFiniteSet(Own(u)) /\ Cardinality(Own(u)) \in Nat
                       /\ Cardinality(Own(u)) <= Cardinality(TeamTasks(m))
    OBVIOUS
  <2>1. Own(u) \subseteq TeamTasks(m)
    OBVIOUS
  <2>. HIDE DEF Own
  <2>. QED  BY <1>1, <2>1, FS_Subset, FS_CardinalityType
<1>3. \A u : TaskCount(m, u) = Cardinality(Own(u))
  BY DEF TaskCount
<1>. DEFINE f == [t \in TeamTasks(m) |-> tasks[t].by]
            Creators == {tasks[t].by : t \in TeamTasks(m)}
<1>4. f \in Surjection(TeamTasks(m), Creators)
  BY DEF Surjection
<1>5. IsFiniteSet(Creators)
  BY <1>1, <1>4, FS_Surjection
<1>6. ASSUME NEW u PROVE IsFiniteSet(Above(m, u))
  <2>1. Above(m, u) \subseteq Creators
    <3>. SUFFICES ASSUME NEW v \in Above(m, u) PROVE v \in Creators
      OBVIOUS
    <3>1. TaskCount(m, v) # 0
      <4>1. TaskCount(m, v) > TaskCount(m, u)
        BY DEF Above
      <4>2. TaskCount(m, v) \in Nat /\ TaskCount(m, u) \in Nat
        BY <1>2, <1>3
      <4>. QED  BY <4>1, <4>2
    <3>2. Own(v) # {}
      BY <1>3, <3>1, FS_EmptySet
    <3>. QED  BY <3>2
  <2>. QED  BY <1>5, <2>1, FS_Subset
<1>. QED  BY <1>2, <1>3, <1>6

\* If Top users or more are ahead of u, then Top of them have a rank that is reported:
\* otherwise take the first of those with a later rank. Who is ahead of him is reported,
\* so that his rank is not a later one.
LEMMA TopOfThoseAbove ==
    ASSUME TimelineInv, NEW m, NEW u, Cardinality(Above(m, u)) >= Top
    PROVE  LET R == {v \in Above(m, u) : RankInTeam(m, v) <= Top}
           IN IsFiniteSet(R) /\ Cardinality(R) >= Top
<1>. DEFINE A == Above(m, u)
            R == {v \in A : RankInTeam(m, v) <= Top}
            n == Cardinality(TeamTasks(m))
            S == {n - TaskCount(m, v) : v \in A \ R}
<1>1. /\ \A v : TaskCount(m, v) \in Nat /\ TaskCount(m, v) <= n
      /\ \A v : IsFiniteSet(Above(m, v))
  BY CountsAreFinite
<1>2. n \in Nat /\ Top \in Nat
  BY TeamTasksFinite, FS_CardinalityType, TimelineConstants
<1>3. \A v : RankInTeam(m, v) = 1 + Cardinality(Above(m, v))
  BY DEF RankInTeam, Above
<1>4. IsFiniteSet(R) /\ Cardinality(R) \in Nat /\ Cardinality(A) \in Nat
  <2>1. R \subseteq A /\ IsFiniteSet(A)
    BY <1>1
  <2>. HIDE DEF A, R
  <2>. QED  BY <2>1, FS_Subset, FS_CardinalityType
<1>. SUFFICES ASSUME Cardinality(R) < Top PROVE FALSE
  BY <1>2, <1>4
<1>5. A \ R # {}
  <2>1. A # R
    BY <1>2, <1>4
  <2>. QED  BY <2>1
<1>6. S \subseteq Nat /\ S # {}
  <2>. HIDE DEF A, R, n
  <2>. QED  BY <1>1, <1>2, <1>5
<1>7. PICK v \in A \ R : \A x \in A \ R : n - TaskCount(m, v) <= n - TaskCount(m, x)
  <2>1. PICK s \in S : \A y \in S : s <= y
    BY <1>6, SmallestOf
  <2>. HIDE DEF A, R, n
  <2>. QED  BY <2>1
<1>8. Above(m, v) \subseteq R
  <2>. SUFFICES ASSUME NEW x \in Above(m, v) PROVE x \in R
    OBVIOUS
  <2>1. /\ TaskCount(m, x) > TaskCount(m, v) /\ TaskCount(m, v) > TaskCount(m, u) /\ x \in Users
        /\ TaskCount(m, x) \in Nat /\ TaskCount(m, v) \in Nat /\ TaskCount(m, u) \in Nat
    BY <1>1, <1>7 DEF Above
  <2>2. x \in A
    BY <2>1 DEF Above
  <2>3. ~(n - TaskCount(m, v) <= n - TaskCount(m, x))
    <3>. HIDE DEF n
    <3>. QED  BY <1>2, <2>1
  <2>. HIDE DEF A, R
  <2>. QED  BY <1>7, <2>2, <2>3
<1>9. Cardinality(Above(m, v)) <= Cardinality(R) /\ Cardinality(Above(m, v)) \in Nat
  BY <1>1, <1>4, <1>8, FS_Subset, FS_CardinalityType
<1>10. RankInTeam(m, v) <= Top
  <2>. HIDE DEF R
  <2>. QED  BY <1>2, <1>3, <1>4, <1>9
<1>. QED  BY <1>7, <1>10

LEMMA TopIsComplete ==
    ASSUME TimelineInv, NEW user \in Users
    PROVE  TopAreReported(user)
<1>. DEFINE Ranked(m, u) == [team |-> m, user |-> u,
                             task_count |-> TaskCount(m, u), rank_in_team |-> RankInTeam(m, u)]
            reported == TopContributors
            AheadOf(m, u) == {c \in reported : c.team = m /\ c.task_count > TaskCount(m, u)}
<1>1. GetTopContributors(user) = reported
  BY TimelineConstants DEF GetTopContributors
<1>2. reported = {c \in {Ranked(m, u) : m \in Teams, u \in Users} :
                    c.task_count > 0 /\ c.rank_in_team <= Top}
  BY DEF TopContributors
<1>. HIDE DEF reported
<1>. SUFFICES ASSUME NEW m \in Teams, NEW u \in Users, TaskCount(m, u) # 0,
                     \A c \in reported : ~(c.team = m /\ c.user = u)
              PROVE  Cardinality(AheadOf(m, u)) >= Top
  BY <1>1 DEF TopAreReported
<1>. DEFINE R == {v \in Above(m, u) : RankInTeam(m, v) <= Top}
            f == [v \in R |-> Ranked(m, v)]
<1>3. /\ \A v : TaskCount(m, v) \in Nat
      /\ \A v : Cardinality(Above(m, v)) \in Nat /\ RankInTeam(m, v) = 1 + Cardinality(Above(m, v))
  BY CountsAreFinite, FS_CardinalityType DEF RankInTeam, Above
<1>4. Top \in Nat
  BY TimelineConstants
<1>5. Cardinality(Above(m, u)) >= Top
  <2>1. Ranked(m, u) \notin reported
    OBVIOUS
  <2>2. ~(RankInTeam(m, u) <= Top)
    BY <1>2, <1>3, <2>1
  <2>. QED  BY <1>3, <1>4, <2>2
<1>6. IsFiniteSet(R) /\ Cardinality(R) >= Top
  BY <1>5, TopOfThoseAbove
<1>7. \A v \in R : Ranked(m, v) \in AheadOf(m, u)
  <2>. SUFFICES ASSUME NEW v \in R PROVE Ranked(m, v) \in AheadOf(m, u)
    OBVIOUS
  <2>1. v \in Users /\ TaskCount(m, v) > TaskCount(m, u) /\ RankInTeam(m, v) <= Top
    BY DEF Above
  <2>2. TaskCount(m, v) > 0
    BY <1>3, <2>1
  <2>. QED  BY <1>2, <2>1, <2>2
<1>8. ASSUME NEW c \in AheadOf(m, u) PROVE \E v \in R : c = Ranked(m, v)
  <2>1. PICK n \in Teams, v \in Users : c = Ranked(n, v)
    BY <1>2
  <2>2. n = m /\ TaskCount(m, v) > TaskCount(m, u) /\ RankInTeam(m, v) <= Top
    BY <1>2, <2>1
  <2>. QED  BY <2>1, <2>2 DEF Above
<1>9. \A v, x \in R : Ranked(m, v) = Ranked(m, x) => v = x
  OBVIOUS
<1>. HIDE DEF R, AheadOf, Ranked
<1>10. f \in Bijection(R, AheadOf(m, u))
  <2>1. f \in [R -> AheadOf(m, u)] /\ \A v \in R : f[v] = Ranked(m, v)
    BY <1>7
  <2>. HIDE DEF f
  <2>2. f \in Injection(R, AheadOf(m, u))
    BY <1>9, <2>1 DEF Injection, IsInjective
  <2>3. f \in Surjection(R, AheadOf(m, u))
    BY <1>8, <2>1 DEF Surjection
  <2>. QED  BY <2>2, <2>3 DEF Bijection
<1>11. Cardinality(AheadOf(m, u)) = Cardinality(R)
  BY <1>6, <1>10, FS_Bijection DEF ExistsBijection
<1>. QED  BY <1>6, <1>11

\* TeamSummaries counts every member once and every task that was completed within the
\* week, and TopContributors leaves nobody out who is not behind Top others.
THEOREM ReportsLeaveNothingOut == Spec => []ReportsAreComplete
<1>1. ASSUME TimelineInv, MembersOK PROVE ReportsAreComplete
  BY <1>1, SummariesAreComplete, TopIsComplete DEF ReportsAreComplete
<1>. QED  BY <1>1, TimelineInvariant, MembersAreUsers, PTL

=============================================================================
