---------------------------- MODULE TaskService ----------------------------
(***************************************************************************)
(* The task service: task.Service (Create, Update, List, History) with the *)
(* MySQL task storage and the Redis list cache it works on.                *)
(*                                                                         *)
(* Every HTTP request runs in its own goroutine, a worker here. A request  *)
(* is a sequence of calls to MySQL and Redis; one action is one such call, *)
(* so the calls of different requests interleave as they do in the server. *)
(* Phases of a request (pc):                                               *)
(*   create   role, [assignee], save, scan/del                             *)
(*   update   get, role, [assignee], update_row, insert_history, commit,   *)
(*            scan/del                                                     *)
(*   list     role, cache_get, [count, select, set]                        *)
(*   history  get, role, list_history                                      *)
(* and every request ends in done, with a code, and idle.                  *)
(*                                                                         *)
(* Values are abstracted: a column holds a member of Val or Nil. There are  *)
(* no time stamps, so a page of a list is any set of rows of the right     *)
(* size; the order of lists and histories is the matter of Timeline.       *)
(*                                                                         *)
(* A few definitions come after a faulty variant of the code, marked      *)
(* "Mutant"; the specification does not use them. The runs use them to     *)
(* show that a property notices the fault.                                 *)
(***************************************************************************)
EXTENDS Integers, FiniteSets

CONSTANTS
    Workers,        \* goroutines serving requests
    Users, Teams,   \* ids of the rows of users and teams
    Callers,        \* the users who send requests
    Tasks,          \* the ids uuid.NewV7 may hand out
    Fields,         \* columns that an update may change
    Val,            \* the values of those columns
    Nil,            \* nil pointer, SQL NULL, no row, no cache entry
    Defaults,       \* column values of a task created with an empty body
    CreateInputs,   \* bodies of POST /tasks
    UpdateInputs,   \* bodies of PUT /tasks/{id}
    Filters,        \* query parameters of GET /tasks
    DefaultLimit,   \* rows of a page when the query does not say, 20
    MaxLimit,       \* most rows of a page, 100
    MaxUpdates,     \* bound on the number of update requests
    Faults          \* the failures that may happen

\* A JSON body: Nil at a field is the nil pointer, the field is not in the body.
Input == [Fields -> Val \cup {Nil}]

\* A row of the table tasks, and one of the table task_history.
Row   == [team : Teams, by : Users, val : [Fields -> Val \cup {Nil}]]
Entry == [id : Nat, task : Tasks, by : Users, field : Fields,
          old : Val \cup {Nil, ""}, new : Val]

\* What List answers with and caches.
Page == [total : Nat, rows : SUBSET (Tasks \X Row)]

\* A page or a limit that is not in the query is 0.
Filter == [team : Teams \cup {Nil}, status : Val \cup {Nil}, assignee : Users \cup {Nil},
           page : Int, limit : Int]

ASSUME ConstantTypes ==
    /\ {"status", "assignee_id"} \subseteq Fields
    /\ Users \subseteq Val /\ Callers \subseteq Users
    /\ Defaults \in Input /\ Defaults["assignee_id"] = Nil
    /\ CreateInputs \subseteq Input /\ UpdateInputs \subseteq Input
    /\ \A in \in CreateInputs : in["status"] = Nil      \* CreateTaskInput has no status
    /\ \A in \in CreateInputs \cup UpdateInputs : in["assignee_id"] \in Users \cup {Nil}
    /\ Filters \subseteq Filter /\ Filters # {}
    /\ MaxLimit \in Nat /\ DefaultLimit \in 1..MaxLimit
    /\ MaxUpdates \in Nat
    /\ IsFiniteSet(Tasks)
    /\ Faults \subseteq {"mysql", "lost_reply", "redis", "crash"}

ASSUME NilIsNoValue ==
    Nil \notin Val \cup Row \cup Page \cup Workers \cup Users \cup Teams \cup Tasks \cup Input
               \cup {"", "all"}

\* No uuid is written "all".
ASSUME NoIdIsAll == "all" \notin Users \cup Teams

VARIABLES
    tasks,      \* committed table tasks: [Tasks -> Row or Nil]
    history,    \* committed table task_history: a set of entries
    nextId,     \* AUTO_INCREMENT of task_history, one per batch of entries
    lock,       \* row locks of open transactions: [Tasks -> Workers or Nil]
    members,    \* table team_members: [Teams -> SUBSET Users]
    cache,      \* Redis: [CacheKeys -> Page or Nil]
    pc,         \* phase of each worker
    call,       \* the request each worker serves
    read,       \* the row its GetTaskByID returned
    buf,        \* the entries its open transaction has inserted
    page,       \* the list it answers with
    trail,      \* the history it answers with
    scan,       \* the rest of its SCAN, and the keys of its next DEL
    code,       \* its answer
    updates,    \* update requests received so far, for the bound
    born,       \* auxiliary: every row as it was inserted
    raced       \* auxiliary: tasks written over a row that had changed since it was read

tables == <<tasks, history, nextId, born, raced>>
locals == <<call, read, buf, page, trail, scan, code>>
vars   == <<tables, lock, members, cache, pc, locals, updates>>

-----------------------------------------------------------------------------
(* Requests.                                                               *)

Request(op, u, m, t, in, f) ==
    [op |-> op, user |-> u, team |-> m, task |-> t, input |-> in, filter |-> f]
NoCall == Request("none", Nil, Nil, Nil, Nil, Nil)
NoScan == [todo |-> {}, batch |-> {}]

Call == [op     : {"none", "create", "update", "list", "history"},
         user   : Users \cup {Nil},
         team   : Teams \cup {Nil},
         task   : Tasks \cup {Nil},
         input  : CreateInputs \cup UpdateInputs \cup {Nil},
         filter : Filters \cup {Nil}]

Phases == {"idle", "get", "role", "assignee", "save", "update_row", "insert_history",
           "commit", "scan", "del", "cache_get", "count", "select", "set",
           "list_history", "done"}

\* Phases that wait for an answer of MySQL, and of Redis.
MySQLPhases == {"get", "role", "assignee", "save", "update_row", "insert_history",
                "commit", "count", "select", "list_history"}

Goto(w, phase) == pc' = [pc EXCEPT ![w] = phase]
Reply(w, c)    == Goto(w, "done") /\ code' = [code EXCEPT ![w] = c]

\* The team whose membership the request needs.
TeamOf(w) == IF call[w].op \in {"update", "history"} THEN read[w].team ELSE call[w].team

-----------------------------------------------------------------------------
(* Pure parts of the service.                                              *)

\* The fields of the body that differ from the row.
\* Mutant: a nil pointer counts as a change.
ChangedOrNil(row, in) == {f \in Fields : in[f] # row.val[f]}
\* Mutant: a change of status is not recorded.
ChangedButStatus(row, in) == {f \in Fields \ {"status"} : in[f] # Nil /\ in[f] # row.val[f]}
Changed(row, in) == {f \in Fields : in[f] # Nil /\ in[f] # row.val[f]}

\* The row that an update writes: the row it read, with the fields of the body.
Applied(row, in) ==
    [row EXCEPT !.val = [f \in Fields |-> IF in[f] # Nil THEN in[f] ELSE row.val[f]]]

\* An old assignee or due date that is nil is recorded as the empty string,
\* an old description that is nil as NULL.
OldValue(f, x) == IF x = Nil /\ f \in {"assignee_id", "due_date"} THEN "" ELSE x

\* One entry per changed field, all of one update under one batch id.
buildHistoryEntries(id, w) ==
    {[id |-> id, task |-> call[w].task, by |-> call[w].user, field |-> f,
      old |-> OldValue(f, read[w].val[f]), new |-> call[w].input[f]]
        : f \in Changed(read[w], call[w].input)}

\* The row that Create inserts.
NewRow(team, by, in) ==
    [team |-> team, by |-> by,
     val  |-> [f \in Fields |-> IF in[f] # Nil THEN in[f] ELSE Defaults[f]]]

\* The WHERE clause of ListTasks.
Matches(row, f) ==
    /\ row.team = f.team
    /\ f.status # Nil => row.val["status"] = f.status
    /\ f.assignee # Nil => row.val["assignee_id"] = f.assignee

Rows(f) == {<<t, tasks[t]>> : t \in {u \in Tasks : tasks[u] # Nil /\ Matches(tasks[u], f)}}

\* List puts the page and the limit in their range.
Clamp(f) ==
    [f EXCEPT !.page  = IF f.page <= 0 THEN 1 ELSE f.page,
              !.limit = IF f.limit <= 0 THEN DefaultLimit
                        ELSE IF f.limit > MaxLimit THEN MaxLimit ELSE f.limit]

\* How many of n rows LIMIT and OFFSET leave.
Offset(f) == (f.page - 1) * f.limit
PageSize(f, n) ==
    IF n <= Offset(f) THEN 0 ELSE IF n - Offset(f) < f.limit THEN n - Offset(f) ELSE f.limit

\* The pages that the SELECT of ListTasks may answer with.
Selections(f) == {S \in SUBSET Rows(f) : Cardinality(S) = PageSize(f, Cardinality(Rows(f)))}

\* A nil pointer in the filter is written "all".
OrAll(x) == IF x = Nil THEN "all" ELSE x
\* Mutant: the key leaves out the team.
KeyWithoutTeam(f) == <<OrAll(Nil), OrAll(f.status), OrAll(f.assignee), f.page, f.limit>>
\* Mutant: the key leaves out the page.
KeyWithoutPage(f) == <<OrAll(f.team), OrAll(f.status), OrAll(f.assignee), 1, f.limit>>
cacheKey(f) == <<OrAll(f.team), OrAll(f.status), OrAll(f.assignee), f.page, f.limit>>
KeyOf(f) == cacheKey(Clamp(f))
CacheKeys == {KeyOf(f) : f \in Filters}

\* The keys that match "tasks:<team>:*".
cachePattern(team) == {k \in CacheKeys : k[1] = team}

-----------------------------------------------------------------------------
(* Requests arrive.                                                        *)

Begin(w, c, phase) ==
    /\ pc[w] = "idle"
    /\ call' = [call EXCEPT ![w] = c]
    /\ Goto(w, phase)
    /\ UNCHANGED <<tables, lock, members, cache, read, buf, page, trail, scan, code>>

\* The fresh id of the new task is chosen here: nobody sees it before the INSERT.
BeginCreate(w) ==
    \E u \in Callers, m \in Teams, t \in Tasks, in \in CreateInputs :
        /\ tasks[t] = Nil
        /\ \A v \in Workers : ~(call[v].op = "create" /\ call[v].task = t)
        /\ Begin(w, Request("create", u, m, t, in, Nil), "role")
        /\ UNCHANGED updates

BeginUpdate(w) ==
    \E u \in Callers, t \in Tasks, in \in UpdateInputs :
        /\ updates < MaxUpdates
        /\ updates' = updates + 1
        /\ Begin(w, Request("update", u, Nil, t, in, Nil), "get")

BeginList(w) ==
    \E u \in Callers, f \in Filters :
        /\ f.team # Nil
        /\ Begin(w, Request("list", u, f.team, Nil, Nil, f), "role")
        /\ UNCHANGED updates

\* List answers 403 before any call when the query has no team_id.
ListWithoutTeam(w) ==
    \E u \in Callers, f \in Filters :
        /\ f.team = Nil
        /\ pc[w] = "idle"
        /\ call' = [call EXCEPT ![w] = Request("list", u, Nil, Nil, Nil, f)]
        /\ Reply(w, "forbidden")
        /\ UNCHANGED <<tables, lock, members, cache, read, buf, page, trail, scan, updates>>

BeginHistory(w) ==
    \E u \in Callers, t \in Tasks :
        /\ Begin(w, Request("history", u, Nil, t, Nil, Nil), "get")
        /\ UNCHANGED updates

\* The response is written and the goroutine ends.
Respond(w) ==
    /\ pc[w] = "done"
    /\ Goto(w, "idle")
    /\ call'   = [call EXCEPT ![w] = NoCall]
    /\ read'   = [read EXCEPT ![w] = Nil]
    /\ page'   = [page EXCEPT ![w] = Nil]
    /\ trail'  = [trail EXCEPT ![w] = {}]
    /\ code'   = [code EXCEPT ![w] = "none"]
    /\ UNCHANGED <<tables, lock, members, cache, buf, scan, updates>>

-----------------------------------------------------------------------------
(* Reads and checks that requests share.                                   *)

\* GetTaskByID: a plain SELECT, outside of any transaction.
GetTaskByID(w) ==
    /\ pc[w] = "get"
    /\ \/ /\ tasks[call[w].task] = Nil
          /\ Reply(w, "not_found")
          /\ UNCHANGED read
       \/ /\ tasks[call[w].task] # Nil
          /\ read' = [read EXCEPT ![w] = tasks[call[w].task]]
          /\ Goto(w, "role")
          /\ UNCHANGED code
    /\ UNCHANGED <<tables, lock, members, cache, call, buf, page, trail, scan, updates>>

\* A new assignee is checked, the one the row already has is not.
AssigneeIsNew(w) ==
    /\ call[w].input["assignee_id"] # Nil
    /\ call[w].op = "update" => call[w].input["assignee_id"] # read[w].val["assignee_id"]

WriteOf(op) == IF op = "create" THEN "save" ELSE "update_row"

NextAfterRole(w) ==
    CASE call[w].op = "list"    -> "cache_get"
      [] call[w].op = "history" -> "list_history"
      [] OTHER -> IF AssigneeIsNew(w) THEN "assignee" ELSE WriteOf(call[w].op)

\* GetMemberRole of the caller.
\* Mutant: the role of the caller is not checked.
CheckNobody(w) ==
    /\ pc[w] = "role"
    /\ Goto(w, NextAfterRole(w))
    /\ UNCHANGED <<tables, lock, members, cache, locals, updates>>
CheckCaller(w) ==
    /\ pc[w] = "role"
    /\ \/ /\ call[w].user \notin members[TeamOf(w)]
          /\ Reply(w, "forbidden")
       \/ /\ call[w].user \in members[TeamOf(w)]
          /\ Goto(w, NextAfterRole(w))
          /\ UNCHANGED code
    /\ UNCHANGED <<tables, lock, members, cache, call, read, buf, page, trail, scan, updates>>

\* GetMemberRole of the assignee.
\* Mutant: only Create checks the assignee.
CheckAssigneeOfCreate(w) ==
    /\ pc[w] = "assignee"
    /\ \/ /\ call[w].op = "create"
          /\ call[w].input["assignee_id"] \notin members[TeamOf(w)]
          /\ Reply(w, "forbidden")
       \/ /\ call[w].op = "create" => call[w].input["assignee_id"] \in members[TeamOf(w)]
          /\ Goto(w, WriteOf(call[w].op))
          /\ UNCHANGED code
    /\ UNCHANGED <<tables, lock, members, cache, call, read, buf, page, trail, scan, updates>>
CheckAssignee(w) ==
    /\ pc[w] = "assignee"
    /\ \/ /\ call[w].input["assignee_id"] \notin members[TeamOf(w)]
          /\ Reply(w, "forbidden")
       \/ /\ call[w].input["assignee_id"] \in members[TeamOf(w)]
          /\ Goto(w, WriteOf(call[w].op))
          /\ UNCHANGED code
    /\ UNCHANGED <<tables, lock, members, cache, call, read, buf, page, trail, scan, updates>>

-----------------------------------------------------------------------------
(* Writes.                                                                 *)

Insert(t, row) ==
    /\ tasks' = [tasks EXCEPT ![t] = row]
    /\ born'  = [born EXCEPT ![t] = row]
    /\ UNCHANGED <<history, nextId, raced>>

\* Invalidate starts at cursor 0: every key of the pattern is ahead of it.
StartScan(w) == scan' = [scan EXCEPT ![w] = [todo |-> cachePattern(TeamOf(w)), batch |-> {}]]

SaveTask(w) ==
    /\ pc[w] = "save"
    /\ Insert(call[w].task, NewRow(call[w].team, call[w].user, call[w].input))
    /\ StartScan(w)
    /\ Goto(w, "scan")
    /\ UNCHANGED <<lock, members, cache, call, read, buf, page, trail, code, updates>>

\* BEGIN and UPDATE of the whole row, which waits for the lock of the row and
\* keeps it to the end of the transaction. Nobody else sees the new row before
\* COMMIT, so the table changes there.
UpdateRow(w) ==
    /\ pc[w] = "update_row"
    /\ lock[call[w].task] = Nil
    /\ lock' = [lock EXCEPT ![call[w].task] = w]
    /\ Goto(w, "insert_history")
    /\ UNCHANGED <<tables, members, cache, locals, updates>>

\* The INSERTs of the history entries; that some of them fail is a failure of
\* the whole transaction. The id is taken here, not at COMMIT.
\* Mutant: the entries are inserted with s.db, not with tx.
InsertOutsideTx(w) ==
    LET entries == buildHistoryEntries(nextId, w) IN
    /\ pc[w] = "insert_history"
    /\ history' = history \cup entries
    /\ nextId' = nextId + 1
    /\ Goto(w, "commit")
    /\ UNCHANGED <<tasks, born, raced, lock, members, cache, locals, updates>>
InsertHistory(w) ==
    LET entries == buildHistoryEntries(nextId, w) IN
    /\ pc[w] = "insert_history"
    /\ buf' = [buf EXCEPT ![w] = entries]
    /\ nextId' = IF entries = {} THEN nextId ELSE nextId + 1
    /\ Goto(w, "commit")
    /\ UNCHANGED <<tasks, history, born, raced, lock, members, cache,
                   call, read, page, trail, scan, code, updates>>

\* What COMMIT makes visible. The row that is written derives from the row that
\* was read, not from the row that is there now.
CommitTx(w) ==
    LET t == call[w].task IN
    /\ tasks'   = [tasks EXCEPT ![t] = Applied(read[w], call[w].input)]
    /\ history' = history \cup buf[w]
    /\ raced'   = [raced EXCEPT ![t] = @ \/ read[w] # tasks[t]]
    /\ lock'    = [lock EXCEPT ![t] = Nil]
    /\ buf'     = [buf EXCEPT ![w] = {}]
    /\ UNCHANGED <<nextId, born>>

Commit(w) ==
    /\ pc[w] = "commit"
    /\ CommitTx(w)
    /\ StartScan(w)
    /\ Goto(w, "scan")
    /\ UNCHANGED <<members, cache, call, read, page, trail, code, updates>>

-----------------------------------------------------------------------------
(* TaskCache.Invalidate: SCAN and DEL until the cursor is 0 again. A SCAN   *)
(* call covers some of the keys of the pattern that are still ahead (calls *)
(* that cover none change nothing and are left out); a key that is set     *)
(* behind the cursor is not found.                                         *)

AfterScan(w, todo) ==
    IF todo = {} THEN Reply(w, "ok") ELSE Goto(w, "scan") /\ UNCHANGED code

Scan(w) ==
    /\ pc[w] = "scan"
    /\ \E part \in SUBSET scan[w].todo :
        LET todo  == scan[w].todo \ part
            found == {k \in part : cache[k] # Nil}
        IN
        /\ scan[w].todo # {} => part # {}
        /\ scan' = [scan EXCEPT ![w] = [todo |-> todo, batch |-> found]]
        /\ IF found # {} THEN Goto(w, "del") /\ UNCHANGED code ELSE AfterScan(w, todo)
    /\ UNCHANGED <<tables, lock, members, cache, call, read, buf, page, trail, updates>>

Del(w) ==
    /\ pc[w] = "del"
    /\ cache' = [k \in CacheKeys |-> IF k \in scan[w].batch THEN Nil ELSE cache[k]]
    /\ scan' = [scan EXCEPT ![w].batch = {}]
    /\ AfterScan(w, scan[w].todo)
    /\ UNCHANGED <<tables, lock, members, call, read, buf, page, trail, updates>>

-----------------------------------------------------------------------------
(* List: cache-aside over two separate queries. History: one query.        *)

CacheGet(w) ==
    /\ pc[w] = "cache_get"
    /\ LET hit == cache[KeyOf(call[w].filter)] IN
       \/ /\ hit # Nil
          /\ page' = [page EXCEPT ![w] = hit]
          /\ Reply(w, "ok")
       \/ /\ hit = Nil
          /\ Goto(w, "count")
          /\ UNCHANGED <<page, code>>
    /\ UNCHANGED <<tables, lock, members, cache, call, read, buf, trail, scan, updates>>

\* SELECT COUNT(*).
CountTasks(w) ==
    /\ pc[w] = "count"
    /\ page' = [page EXCEPT ![w] = [total |-> Cardinality(Rows(call[w].filter)), rows |-> {}]]
    /\ Goto(w, "select")
    /\ UNCHANGED <<tables, lock, members, cache, call, read, buf, trail, scan, code, updates>>

\* SELECT of the page.
SelectTasks(w) ==
    /\ pc[w] = "select"
    /\ \E S \in Selections(Clamp(call[w].filter)) : page' = [page EXCEPT ![w].rows = S]
    /\ Goto(w, "set")
    /\ UNCHANGED <<tables, lock, members, cache, call, read, buf, trail, scan, code, updates>>

CacheSet(w) ==
    /\ pc[w] = "set"
    /\ cache' = [cache EXCEPT ![KeyOf(call[w].filter)] = page[w]]
    /\ Reply(w, "ok")
    /\ UNCHANGED <<tables, lock, members, call, read, buf, page, trail, scan, updates>>

ListHistory(w) ==
    /\ pc[w] = "list_history"
    /\ trail' = [trail EXCEPT ![w] = {e \in history : e.task = call[w].task}]
    /\ Reply(w, "ok")
    /\ UNCHANGED <<tables, lock, members, cache, call, read, buf, page, scan, updates>>

-----------------------------------------------------------------------------
(* The environment: the TTL of a cache entry, the team service, failures.  *)

\* Mutant: the entry is set without a TTL.
NeverExpire(k) == FALSE /\ UNCHANGED vars
Expire(k) ==
    /\ cache[k] # Nil
    /\ cache' = [cache EXCEPT ![k] = Nil]
    /\ UNCHANGED <<tables, lock, members, pc, locals, updates>>

\* SaveMember of the team service adds members; nothing removes one.
Join(m, u) ==
    /\ u \notin members[m]
    /\ members' = [members EXCEPT ![m] = @ \cup {u}]
    /\ UNCHANGED <<tables, lock, cache, pc, locals, updates>>

\* The deferred Rollback of UpdateTaskWithHistory: what the transaction wrote is
\* gone and so is its lock.
Rollback(w) ==
    /\ buf'  = [buf EXCEPT ![w] = {}]
    /\ lock' = [t \in Tasks |-> IF lock[t] = w THEN Nil ELSE lock[t]]

\* A call to MySQL fails, or the client is gone and the context is cancelled:
\* the transaction is rolled back and the answer is 500.
\* Mutant: the error of Commit is not looked at.
StorageErrorIgnored(w) ==
    /\ "mysql" \in Faults
    /\ pc[w] \in MySQLPhases
    /\ Rollback(w)
    /\ Reply(w, IF pc[w] = "commit" THEN "ok" ELSE "error")
    /\ UNCHANGED <<tables, members, cache, call, read, page, trail, scan, updates>>
\* Mutant: Rollback is not deferred, the transaction stays open.
StorageErrorKeepsTx(w) ==
    /\ "mysql" \in Faults
    /\ pc[w] \in MySQLPhases
    /\ buf' = [buf EXCEPT ![w] = {}]
    /\ Reply(w, "error")
    /\ UNCHANGED <<tables, lock, members, cache, call, read, page, trail, scan, updates>>
StorageError(w) ==
    /\ "mysql" \in Faults
    /\ pc[w] \in MySQLPhases
    /\ Rollback(w)
    /\ Reply(w, "error")
    /\ UNCHANGED <<tables, members, cache, call, read, page, trail, scan, updates>>

\* The write is durable and its answer is lost: 500, and no invalidation.
LostReply(w) ==
    /\ "lost_reply" \in Faults
    /\ \/ /\ pc[w] = "save"
          /\ Insert(call[w].task, NewRow(call[w].team, call[w].user, call[w].input))
          /\ UNCHANGED <<buf, lock>>
       \/ /\ pc[w] = "commit"
          /\ CommitTx(w)
    /\ Reply(w, "error")
    /\ UNCHANGED <<members, cache, call, read, page, trail, scan, updates>>

\* A failure of Redis is logged: a read goes to MySQL, a write is skipped.
CacheError(w) ==
    /\ "redis" \in Faults
    /\ \/ /\ pc[w] \in {"scan", "del", "set"}
          /\ scan' = [scan EXCEPT ![w] = NoScan]
          /\ Reply(w, "ok")
       \/ /\ pc[w] = "cache_get"
          /\ Goto(w, "count")
          /\ UNCHANGED <<scan, code>>
    /\ UNCHANGED <<tables, lock, members, cache, call, read, buf, page, trail, updates>>

\* The process dies and is restarted: open transactions are rolled back.
Crash ==
    /\ "crash" \in Faults
    /\ lock'   = [t \in Tasks |-> Nil]
    /\ pc'     = [w \in Workers |-> "idle"]
    /\ call'   = [w \in Workers |-> NoCall]
    /\ read'   = [w \in Workers |-> Nil]
    /\ buf'    = [w \in Workers |-> {}]
    /\ page'   = [w \in Workers |-> Nil]
    /\ trail'  = [w \in Workers |-> {}]
    /\ scan'   = [w \in Workers |-> NoScan]
    /\ code'   = [w \in Workers |-> "none"]
    /\ UNCHANGED <<tables, members, cache, updates>>

-----------------------------------------------------------------------------
Init ==
    /\ tasks   = [t \in Tasks |-> Nil]
    /\ history = {}
    /\ nextId  = 1
    /\ lock    = [t \in Tasks |-> Nil]
    /\ members \in [Teams -> SUBSET Users]      \* besides those no request is about
    /\ cache   = [k \in CacheKeys |-> Nil]
    /\ pc      = [w \in Workers |-> "idle"]
    /\ call    = [w \in Workers |-> NoCall]
    /\ read    = [w \in Workers |-> Nil]
    /\ buf     = [w \in Workers |-> {}]
    /\ page    = [w \in Workers |-> Nil]
    /\ trail   = [w \in Workers |-> {}]
    /\ scan    = [w \in Workers |-> NoScan]
    /\ code    = [w \in Workers |-> "none"]
    /\ updates = 0
    /\ born    = [t \in Tasks |-> Nil]
    /\ raced   = [t \in Tasks |-> FALSE]

\* The server works on a request it has.
Serve(w) ==
    \/ GetTaskByID(w) \/ CheckCaller(w) \/ CheckAssignee(w)
    \/ SaveTask(w) \/ UpdateRow(w) \/ InsertHistory(w) \/ Commit(w)
    \/ Scan(w) \/ Del(w)
    \/ CacheGet(w) \/ CountTasks(w) \/ SelectTasks(w) \/ CacheSet(w) \/ ListHistory(w)
    \/ Respond(w)

\* A call of the request fails.
Fail(w) == StorageError(w) \/ LostReply(w) \/ CacheError(w)

Arrive(w) ==
    \/ BeginCreate(w) \/ BeginUpdate(w) \/ BeginList(w) \/ ListWithoutTeam(w) \/ BeginHistory(w)

Next ==
    \/ \E w \in Workers : Arrive(w) \/ Serve(w) \/ Fail(w)
    \/ \E k \in CacheKeys : Expire(k)
    \/ \E m \in Teams, u \in Users : Join(m, u)
    \/ Crash

Spec == Init /\ [][Next]_vars

\* A goroutine that can run runs, every call to a store returns unless it waits
\* for a lock, and Redis drops an entry whose TTL has passed. Requests need not
\* arrive, and no failure is needed to end a wait.
Fairness ==
    /\ \A w \in Workers : WF_vars(Serve(w))
    /\ \A k \in CacheKeys : WF_vars(Expire(k))

FairSpec == Spec /\ Fairness

-----------------------------------------------------------------------------
(* Properties.                                                             *)

\* Every variable has its type; the row a request has read is there from the
\* role check on.
TypeOK ==
    /\ tasks   \in [Tasks -> Row \cup {Nil}]
    /\ history \in SUBSET Entry
    /\ nextId  \in Nat
    /\ lock    \in [Tasks -> Workers \cup {Nil}]
    /\ members \in [Teams -> SUBSET Users]
    /\ cache   \in [CacheKeys -> Page \cup {Nil}]
    /\ pc      \in [Workers -> Phases]
    /\ call    \in [Workers -> Call]
    /\ read    \in [Workers -> Row \cup {Nil}]
    /\ buf     \in [Workers -> SUBSET Entry]
    /\ page    \in [Workers -> Page \cup {Nil}]
    /\ trail   \in [Workers -> SUBSET Entry]
    /\ scan    \in [Workers -> [todo : SUBSET CacheKeys, batch : SUBSET CacheKeys]]
    /\ code    \in [Workers -> {"none", "ok", "forbidden", "not_found", "error"}]
    /\ updates \in 0..MaxUpdates
    /\ born    \in [Tasks -> Row \cup {Nil}]
    /\ raced   \in [Tasks -> BOOLEAN]

\* AnalyticsStorage.OrphanTasks: WHERE assignee_id IS NOT NULL AND NOT EXISTS a member.
OrphanTasks ==
    {t \in Tasks :
        /\ tasks[t] # Nil
        /\ tasks[t].val["assignee_id"] # Nil
        /\ tasks[t].val["assignee_id"] \notin members[tasks[t].team]}

\* The assignee of a task is a member of its team, whatever updates race: an
\* update checks only a new assignee, writes back the one it read, and relies on
\* nothing removing members. The orphan report of the analytics is empty.
NoOrphanTasks == OrphanTasks = {}

\* Tasks are created and changed by members of the team only, although the role
\* is checked calls before the write.
OnlyMembersWrite ==
    /\ \A t \in Tasks : tasks[t] # Nil => tasks[t].by \in members[tasks[t].team]
    /\ \A e \in history : tasks[e.task] # Nil /\ e.by \in members[tasks[e.task].team]

Answered(w, op) == pc[w] = "done" /\ code[w] = "ok" /\ call[w].op = op

\* A list or a history is answered to members of the team, and a list holds
\* only tasks of that team, also when it comes from the cache.
AnswersStayInTeam ==
    \A w \in Workers :
        /\ Answered(w, "list") =>
              /\ call[w].user \in members[call[w].team]
              /\ \A r \in page[w].rows : r[2].team = call[w].team
        /\ Answered(w, "history") =>
              /\ call[w].user \in members[tasks[call[w].task].team]
              /\ \A e \in trail[w] : e.task = call[w].task

\* Every task of a list has the status and the assignee the caller asked for,
\* also when the list comes from the cache.
ListHonoursFilter ==
    \A w \in Workers : Answered(w, "list") =>
        \A r \in page[w].rows :
            /\ call[w].filter.status # Nil => r[2].val["status"] = call[w].filter.status
            /\ call[w].filter.assignee # Nil => r[2].val["assignee_id"] = call[w].filter.assignee

\* A page of the list of a whole team has all the rows its total promises for
\* that page, although the count and the rows come from two queries or from a
\* cache that pages share: tasks are not deleted and do not move to another team.
PageCoversTotal ==
    \A w \in Workers :
        /\ Answered(w, "list")
        /\ call[w].filter.status = Nil /\ call[w].filter.assignee = Nil
        => PageSize(Clamp(call[w].filter), page[w].total) <= Cardinality(page[w].rows)

EntriesOf(t, f) == {e \in history : e.task = t /\ e.field = f}
Latest(e, S) == e \in S /\ \A d \in S : d.id <= e.id

\* The history of a task whose updates did not race tells all of its life: the
\* row holds the new value of the latest entry of each field, or the value it was
\* created with, and the old value of each entry is the one before it.
AuditTrail ==
    \A t \in Tasks, f \in Fields : tasks[t] # Nil /\ ~raced[t] =>
        /\ \/ EntriesOf(t, f) = {} /\ tasks[t].val[f] = born[t].val[f]
           \/ \E e \in EntriesOf(t, f) : Latest(e, EntriesOf(t, f)) /\ tasks[t].val[f] = e.new
        /\ \A e \in EntriesOf(t, f) :
              LET before == {d \in EntriesOf(t, f) : d.id < e.id} IN
              \/ before = {} /\ e.old = OldValue(f, born[t].val[f])
              \/ \E d \in before : Latest(d, before) /\ e.old = d.new

\* Even when updates race, a value of a row is the one the task was created with
\* or the new value of some entry of its history.
NoValueWithoutEntry ==
    \A t \in Tasks, f \in Fields : tasks[t] # Nil =>
        \/ tasks[t].val[f] = born[t].val[f]
        \/ \E e \in EntriesOf(t, f) : tasks[t].val[f] = e.new

\* An update that is answered 200 has its entries in the history.
AckedUpdateAudited ==
    \A w \in Workers : Answered(w, "update") =>
        \A f \in Fields :
            call[w].input[f] \notin {Nil, read[w].val[f]} =>
                \E e \in EntriesOf(call[w].task, f) :
                    /\ e.by = call[w].user /\ e.new = call[w].input[f]
                    /\ e.old = OldValue(f, read[w].val[f])

\* The history only grows, and an entry appears in the step that puts its value
\* in the row: no failure leaves an entry without its change.
HistoryWithRow ==
    [][/\ history \subseteq history'
       /\ \A e \in history' \ history : tasks'[e.task].val[e.field] = e.new]_vars

\* README: each changed field is a separate history record.
EveryChangeRecorded ==
    [][\A t \in Tasks, f \in Fields :
          /\ tasks[t] # Nil
          /\ tasks'[t].val[f] # tasks[t].val[f]
          => \E e \in history' \ history : e.task = t /\ e.field = f]_vars

PagesOf(f) == {[total |-> Cardinality(Rows(f)), rows |-> S] : S \in Selections(Clamp(f))}
Coherent == \A f \in Filters : cache[KeyOf(f)] \in PagesOf(f) \cup {Nil}

\* When writes end, lists in the cache become and stay true, whatever failed or
\* raced: the TTL repairs what invalidation missed.
CacheConverges == <>[]Coherent

\* Every request is answered: the row lock an update waits for is released
\* however the transaction that holds it ends, and no SCAN loop is endless.
RequestsAnswered == \A w \in Workers : pc[w] # "idle" ~> pc[w] = "idle"

=============================================================================
