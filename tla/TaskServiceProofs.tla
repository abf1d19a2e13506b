------------------------- MODULE TaskServiceProofs -------------------------
(***************************************************************************)
(* Proofs about TaskService, for any number of workers, users, teams,      *)
(* tasks, fields and updates, and for every set of failures.               *)
(*                                                                         *)
(*   Part 1  the shape of requests, and types                              *)
(*   Part 2  who may write and who is written: the membership checks, each *)
(*           made some calls before the write it guards, protect the       *)
(*           tables in every interleaving                                  *)
(*   Part 3  what List and History answer                                  *)
(*   Part 4  the history of a task: the row and its history are written    *)
(*           together, and what the history tells about the row, with and  *)
(*           without racing updates                                        *)
(***************************************************************************)
EXTENDS TaskService, FiniteSetTheorems, TLAPS

-----------------------------------------------------------------------------
(* Part 1. The shape of requests, and types.                               *)

\* What a request carries.
Carries(c) ==
    /\ c.op = "none" => c = NoCall
    /\ c.op # "none" => c.user \in Users
    /\ c.op = "create" => c.team \in Teams /\ c.task \in Tasks /\ c.input \in CreateInputs
    /\ c.op = "update" => c.task \in Tasks /\ c.input \in UpdateInputs
    /\ c.op = "list" => c.filter \in Filters /\ c.team = c.filter.team
    /\ c.op = "history" => c.task \in Tasks

\* Which operation a phase belongs to.
PhaseOf(phase, op) ==
    /\ phase = "idle" <=> op = "none"
    /\ phase = "get" => op \in {"update", "history"}
    /\ phase = "assignee" => op \in {"create", "update"}
    /\ phase = "save" => op = "create"
    /\ phase \in {"update_row", "insert_history", "commit"} => op = "update"
    /\ phase \in {"scan", "del"} => op \in {"create", "update"}
    /\ phase \in {"cache_get", "count", "select", "set"} => op = "list"
    /\ phase = "list_history" => op = "history"

\* A request that has not failed, and so far has got all it asked for.
Succeeding(w) == pc[w] # "done" \/ code[w] = "ok"

\* Every request is in a phase of its operation and has what that phase uses.
RequestOK(w) ==
    /\ Carries(call[w])
    /\ PhaseOf(pc[w], call[w].op)
    /\ call[w].op = "list" /\ Succeeding(w) => call[w].team \in Teams
    /\ call[w].op \in {"update", "history"} /\ pc[w] # "get" /\ Succeeding(w) => read[w] \in Row
    /\ pc[w] \in {"select", "set"} \/ Answered(w, "list") => page[w] \in Page

TypeInv == TypeOK /\ \A w \in Workers : RequestOK(w)

LEMMA RowsType ==
    ASSUME TypeOK, NEW f
    PROVE  /\ Rows(f) \in SUBSET (Tasks \X Row)
           /\ IsFiniteSet(Rows(f))
           /\ Cardinality(Rows(f)) \in Nat
<1>. DEFINE L == {u \in Tasks : tasks[u] # Nil /\ Matches(tasks[u], f)}
            S == {<<t, tasks[t]>> : t \in L}
            g == [t \in L |-> <<t, tasks[t]>>]
<1>1. Rows(f) \in SUBSET (Tasks \X Row)
  BY DEF TypeOK, Rows
<1>2. IsFiniteSet(L)
  BY FS_Subset, ConstantTypes DEF ConstantTypes
<1>3. g \in Surjection(L, S)
  BY DEF Surjection
<1>4. IsFiniteSet(S)
  BY <1>2, <1>3, FS_Surjection
<1>. QED  BY <1>1, <1>4, FS_CardinalityType DEF Rows

LEMMA CallersAreUsers == Callers \subseteq Users
BY ConstantTypes DEF ConstantTypes

LEMMA PatternKeys == \A m : cachePattern(m) \in SUBSET CacheKeys
BY DEF cachePattern

LEMMA WrittenRowType ==
    ASSUME NEW row \in Row, NEW in \in Input
    PROVE  Applied(row, in) \in Row
BY DEF Applied, Row, Input

LEMMA NewRowType ==
    ASSUME NEW m \in Teams, NEW u \in Users, NEW in \in CreateInputs
    PROVE  NewRow(m, u, in) \in Row
BY ConstantTypes DEF ConstantTypes, NewRow, Row, Input

LEMMA EntriesType ==
    ASSUME NEW w \in Workers, NEW i \in Nat, read[w] \in Row,
           call[w].task \in Tasks, call[w].user \in Users, call[w].input \in Input
    PROVE  buildHistoryEntries(i, w) \in SUBSET Entry
<1>. SUFFICES ASSUME NEW e \in buildHistoryEntries(i, w) PROVE e \in Entry
  OBVIOUS
<1>1. PICK f \in Changed(read[w], call[w].input) :
        e = [id |-> i, task |-> call[w].task, by |-> call[w].user, field |-> f,
             old |-> OldValue(f, read[w].val[f]), new |-> call[w].input[f]]
  BY DEF buildHistoryEntries
<1>2. f \in Fields /\ call[w].input[f] \in Val
  BY DEF Changed, Input
<1>3. OldValue(f, read[w].val[f]) \in Val \cup {Nil, ""}
  BY <1>2 DEF OldValue, Row
<1>. QED  BY <1>1, <1>2, <1>3 DEF Entry

\* A step of another worker does not disturb a request.
LEMMA RequestFrame ==
    ASSUME NEW v \in Workers, RequestOK(v),
           pc'[v] = pc[v], call'[v] = call[v], read'[v] = read[v], page'[v] = page[v],
           code'[v] = code[v]
    PROVE  RequestOK(v)'
BY DEF RequestOK, Succeeding, Answered

\* A step of one worker leaves the other requests alone.
LEMMA OthersUntouched ==
    ASSUME TypeOK, NEW w \in Workers, Arrive(w) \/ Serve(w) \/ Fail(w), NEW v \in Workers, v # w
    PROVE  /\ pc'[v] = pc[v] /\ call'[v] = call[v] /\ read'[v] = read[v] /\ buf'[v] = buf[v]
           /\ page'[v] = page[v] /\ trail'[v] = trail[v] /\ code'[v] = code[v]
<1>1. CASE Arrive(w)
  BY <1>1 DEF TypeOK, Arrive, BeginCreate, BeginUpdate, BeginList, ListWithoutTeam, BeginHistory,
     Begin, Reply, Goto
<1>2. CASE GetTaskByID(w) \/ CheckCaller(w) \/ CheckAssignee(w)
  BY <1>2 DEF TypeOK, GetTaskByID, CheckCaller, CheckAssignee, Reply, Goto
<1>3. CASE SaveTask(w) \/ UpdateRow(w) \/ InsertHistory(w) \/ Commit(w)
  BY <1>3 DEF TypeOK, SaveTask, UpdateRow, InsertHistory, Commit, CommitTx, locals, Goto
<1>4. CASE Scan(w) \/ Del(w)
  BY <1>4 DEF TypeOK, Scan, Del, AfterScan, Reply, Goto
<1>5. CASE CacheGet(w) \/ CountTasks(w) \/ SelectTasks(w) \/ CacheSet(w) \/ ListHistory(w)
  BY <1>5 DEF TypeOK, CacheGet, CountTasks, SelectTasks, CacheSet, ListHistory, Reply, Goto
<1>6. CASE StorageError(w) \/ LostReply(w) \/ CacheError(w)
  BY <1>6 DEF TypeOK, StorageError, Rollback, LostReply, CacheError, CommitTx, Reply, Goto
<1>7. CASE Respond(w)
  BY <1>7 DEF TypeOK, Respond, Goto
<1>. QED  BY <1>1, <1>2, <1>3, <1>4, <1>5, <1>6, <1>7 DEF Serve, Fail

\* Every step of a worker keeps the types and the shape of requests.
LEMMA WorkerTypeStep ==
    ASSUME TypeInv, NEW w \in Workers, Arrive(w) \/ Serve(w) \/ Fail(w)
    PROVE  TypeOK' /\ RequestOK(w)'
<1>. USE DEF TypeInv
<1>1. CASE BeginCreate(w)
  <2>1. TypeOK'
    BY <1>1, CallersAreUsers DEF TypeOK, RequestOK, Succeeding, Answered, Carries, PhaseOf, Phases, tables,
       BeginCreate, Begin, Goto, Request, Call
  <2>2. RequestOK(w)'
    BY <1>1, CallersAreUsers DEF TypeOK, RequestOK, Succeeding, Answered, Carries, PhaseOf,
       BeginCreate, Begin, Goto, Request, NoCall
  <2>. QED  BY <2>1, <2>2
<1>2. CASE BeginUpdate(w)
  <2>1. TypeOK'
    BY <1>2, ConstantTypes DEF TypeOK, RequestOK, Succeeding, Answered, Carries, PhaseOf, Phases, tables,
       BeginUpdate, Begin, Goto, Request, Call, ConstantTypes
  <2>2. RequestOK(w)'
    BY <1>2, ConstantTypes DEF TypeOK, RequestOK, Succeeding, Answered, Carries, PhaseOf,
       BeginUpdate, Begin, Goto, Request, NoCall, ConstantTypes
  <2>. QED  BY <2>1, <2>2
<1>3. CASE BeginList(w)
  <2>1. TypeOK'
    BY <1>3, ConstantTypes DEF TypeOK, RequestOK, Succeeding, Answered, Carries, PhaseOf, Phases, tables,
       BeginList, Begin, Goto, Request, Call, Filter, ConstantTypes
  <2>2. RequestOK(w)'
    BY <1>3, ConstantTypes DEF TypeOK, RequestOK, Succeeding, Answered, Carries, PhaseOf,
       BeginList, Begin, Goto, Request, NoCall, Filter, ConstantTypes
  <2>. QED  BY <2>1, <2>2
<1>4. CASE ListWithoutTeam(w)
  <2>1. TypeOK'
    BY <1>4, CallersAreUsers DEF TypeOK, RequestOK, Succeeding, Answered, Carries, PhaseOf, Phases, tables,
       ListWithoutTeam, Reply, Goto, Request, Call
  <2>2. RequestOK(w)'
    BY <1>4, CallersAreUsers DEF TypeOK, RequestOK, Succeeding, Answered, Carries, PhaseOf,
       ListWithoutTeam, Reply, Goto, Request, NoCall
  <2>. QED  BY <2>1, <2>2
<1>5. CASE BeginHistory(w)
  <2>1. TypeOK'
    BY <1>5, CallersAreUsers DEF TypeOK, RequestOK, Succeeding, Answered, Carries, PhaseOf, Phases, tables,
       BeginHistory, Begin, Goto, Request, Call
  <2>2. RequestOK(w)'
    BY <1>5, CallersAreUsers DEF TypeOK, RequestOK, Succeeding, Answered, Carries, PhaseOf,
       BeginHistory, Begin, Goto, Request, NoCall
  <2>. QED  BY <2>1, <2>2
<1>6. CASE GetTaskByID(w)
  <2>0. tasks[call[w].task] \in Row \cup {Nil}
    BY <1>6 DEF TypeOK, RequestOK, Carries, PhaseOf, GetTaskByID
  <2>1. TypeOK'
    BY <1>6, <2>0 DEF TypeOK, Phases, tables, GetTaskByID, Reply, Goto
  <2>2. RequestOK(w)'
    BY <1>6 DEF TypeOK, RequestOK, Succeeding, Answered, Carries, PhaseOf,
       GetTaskByID, Reply, Goto
  <2>. QED  BY <2>1, <2>2
<1>7. CASE CheckCaller(w)
  <2>0. /\ call[w].op \notin {"list", "history"} => NextAfterRole(w) \in {"assignee", WriteOf(call[w].op)}
        /\ call[w].op = "list" => NextAfterRole(w) = "cache_get"
        /\ call[w].op = "history" => NextAfterRole(w) = "list_history"
    BY DEF NextAfterRole
  <2>4. \/ pc'[w] = "done"
        \/ pc'[w] = NextAfterRole(w)
    BY <1>7 DEF TypeOK, CheckCaller, Reply, Goto
  <2>5. call[w].op \in {"create", "update", "list", "history"}
    BY <1>7 DEF TypeOK, Call, RequestOK, PhaseOf, CheckCaller
  <2>1. TypeOK'
    <3>1. pc' \in {[pc EXCEPT ![w] = "done"], [pc EXCEPT ![w] = NextAfterRole(w)]}
      BY <1>7 DEF CheckCaller, Reply, Goto
    <3>2. NextAfterRole(w) \in Phases
      BY <2>0, <2>5 DEF Phases, WriteOf
    <3>3. pc' \in [Workers -> Phases]
      BY <3>1, <3>2 DEF TypeOK, Phases
    <3>4. code' \in {code, [code EXCEPT ![w] = "forbidden"]}
      BY <1>7 DEF CheckCaller, Reply
    <3>5. code' \in [Workers -> {"none", "ok", "forbidden", "not_found", "error"}]
      BY <3>4 DEF TypeOK
    <3>. QED  BY <1>7, <3>3, <3>5 DEF TypeOK, CheckCaller, tables
  <2>2. RequestOK(w)'
    BY <1>7, <2>0, <2>4, <2>5 DEF TypeOK, RequestOK, Succeeding, Answered, PhaseOf, CheckCaller,
       Reply, Goto, WriteOf
  <2>. QED  BY <2>1, <2>2
<1>8. CASE CheckAssignee(w)
  <2>1. TypeOK'
    BY <1>8 DEF TypeOK, RequestOK, Succeeding, Answered, Carries, PhaseOf, Phases, tables,
       CheckAssignee, Reply, Goto, WriteOf
  <2>2. RequestOK(w)'
    BY <1>8 DEF TypeOK, RequestOK, Succeeding, Answered, Carries, PhaseOf,
       CheckAssignee, Reply, Goto, WriteOf
  <2>. QED  BY <2>1, <2>2
<1>9. CASE SaveTask(w)
  <2>1. TypeOK'
    BY <1>9, NewRowType, PatternKeys DEF TypeOK, RequestOK, Succeeding, Answered, Carries,
       PhaseOf, Phases, tables, SaveTask, Insert, StartScan, Goto
  <2>2. RequestOK(w)'
    BY <1>9, NewRowType DEF TypeOK, RequestOK, Succeeding, Answered, Carries, PhaseOf,
       SaveTask, Insert, StartScan, Goto
  <2>. QED  BY <2>1, <2>2
<1>10. CASE UpdateRow(w)
  <2>1. TypeOK'
    BY <1>10 DEF TypeOK, RequestOK, Succeeding, Answered, Carries, PhaseOf, Phases, tables,
       UpdateRow, Goto, locals
  <2>2. RequestOK(w)'
    BY <1>10 DEF TypeOK, RequestOK, Succeeding, Answered, Carries, PhaseOf,
       UpdateRow, Goto, locals
  <2>. QED  BY <2>1, <2>2
<1>11. CASE InsertHistory(w)
  <2>0. nextId \in Nat /\ buildHistoryEntries(nextId, w) \in SUBSET Entry
    <3>1. /\ nextId \in Nat /\ read[w] \in Row
          /\ call[w].task \in Tasks /\ call[w].user \in Users /\ call[w].input \in Input
      BY <1>11, ConstantTypes DEF TypeOK, RequestOK, Succeeding, Carries, PhaseOf, InsertHistory,
         ConstantTypes
    <3>. QED  BY <3>1, EntriesType
  <2>1. TypeOK'
    BY <1>11, <2>0 DEF TypeOK, Phases, tables, InsertHistory, Goto
  <2>2. RequestOK(w)'
    BY <1>11 DEF TypeOK, RequestOK, Succeeding, Answered, Carries, PhaseOf, InsertHistory, Goto
  <2>. QED  BY <2>1, <2>2
<1>12. CASE Commit(w)
  <2>1. /\ call[w].task \in Tasks /\ call[w].input \in Input /\ read[w] \in Row
        /\ call[w].op = "update" /\ buf[w] \in SUBSET Entry
    BY <1>12, ConstantTypes DEF TypeOK, RequestOK, Succeeding, Carries, PhaseOf, Commit, ConstantTypes
  <2>2. /\ tasks' = [tasks EXCEPT ![call[w].task] = Applied(read[w], call[w].input)]
        /\ history' = history \cup buf[w] /\ buf' = [buf EXCEPT ![w] = {}]
        /\ scan' = [scan EXCEPT ![w] = [todo |-> cachePattern(TeamOf(w)), batch |-> {}]]
        /\ pc[w] = "commit" /\ pc' = [pc EXCEPT ![w] = "scan"]
        /\ lock' = [lock EXCEPT ![call[w].task] = Nil]
        /\ UNCHANGED <<nextId, born, members, cache, call, read, page, trail, code, updates>>
    BY <1>12 DEF Commit, CommitTx, StartScan, Goto
  <2>3. TypeOK'
    <3>1. tasks' \in [Tasks -> Row \cup {Nil}]
      BY <2>1, <2>2, WrittenRowType DEF TypeOK
    <3>2. history' \in SUBSET Entry /\ buf' \in [Workers -> SUBSET Entry]
      BY <2>1, <2>2 DEF TypeOK
    <3>3. scan' \in [Workers -> [todo : SUBSET CacheKeys, batch : SUBSET CacheKeys]]
      BY <2>2, PatternKeys DEF TypeOK
    <3>4. pc' \in [Workers -> Phases]
      BY <2>2 DEF TypeOK, Phases
    <3>5. raced' \in [Tasks -> BOOLEAN]
      BY <1>12, <2>1, Zenon DEF TypeOK, Commit, CommitTx
    <3>6. lock' \in [Tasks -> Workers \cup {Nil}]
      BY <2>2 DEF TypeOK
    <3>. QED  BY <2>2, <3>1, <3>2, <3>3, <3>4, <3>5, <3>6 DEF TypeOK
  <2>4. RequestOK(w)'
    <3>1. pc'[w] = "scan"
      BY <2>2 DEF TypeOK
    <3>2. ~Answered(w, "list")'
      BY <3>1 DEF Answered
    <3>3. PhaseOf(pc'[w], call[w].op)
      BY <2>1, <3>1 DEF PhaseOf
    <3>. QED  BY <2>1, <2>2, <3>1, <3>2, <3>3 DEF RequestOK
  <2>. QED  BY <2>3, <2>4
<1>13. CASE Scan(w)
  <2>0. /\ scan' \in [Workers -> [todo : SUBSET CacheKeys, batch : SUBSET CacheKeys]]
        /\ pc' \in [Workers -> Phases]
        /\ code' \in [Workers -> {"none", "ok", "forbidden", "not_found", "error"}]
    <3>1. PICK todo \in SUBSET CacheKeys, found \in SUBSET CacheKeys :
            /\ scan' = [scan EXCEPT ![w] = [todo |-> todo, batch |-> found]]
            /\ \/ Goto(w, "del") /\ UNCHANGED code
               \/ Reply(w, "ok")
               \/ Goto(w, "scan") /\ UNCHANGED code
      <4>1. scan[w].todo \in SUBSET CacheKeys
        BY DEF TypeOK
      <4>2. PICK part \in SUBSET scan[w].todo :
              /\ scan' = [scan EXCEPT ![w] = [todo  |-> scan[w].todo \ part,
                                              batch |-> {k \in part : cache[k] # Nil}]]
              /\ \/ Goto(w, "del") /\ UNCHANGED code
                 \/ Reply(w, "ok")
                 \/ Goto(w, "scan") /\ UNCHANGED code
        BY <1>13 DEF Scan, AfterScan
      <4>3. /\ scan[w].todo \ part \in SUBSET CacheKeys
            /\ {k \in part : cache[k] # Nil} \in SUBSET CacheKeys
        BY <4>1
      <4>. QED  BY <4>2, <4>3
    <3>. QED  BY <3>1 DEF TypeOK, Reply, Goto, Phases
  <2>1. TypeOK'
    BY <1>13, <2>0 DEF TypeOK, tables, Scan
  <2>2. RequestOK(w)'
    BY <1>13 DEF TypeOK, RequestOK, Succeeding, Answered, Carries, PhaseOf,
       Scan, AfterScan, Reply, Goto
  <2>. QED  BY <2>1, <2>2
<1>14. CASE Del(w)
  <2>0. /\ scan' \in [Workers -> [todo : SUBSET CacheKeys, batch : SUBSET CacheKeys]]
        /\ pc' \in [Workers -> Phases]
        /\ code' \in [Workers -> {"none", "ok", "forbidden", "not_found", "error"}]
        /\ cache' \in [CacheKeys -> Page \cup {Nil}]
    <3>1. scan' \in [Workers -> [todo : SUBSET CacheKeys, batch : SUBSET CacheKeys]]
      <4>1. scan' = [scan EXCEPT ![w].batch = {}]
        BY <1>14 DEF Del
      <4>2. scan \in [Workers -> [todo : SUBSET CacheKeys, batch : SUBSET CacheKeys]]
        BY DEF TypeOK
      <4>3. [scan[w] EXCEPT !.batch = {}] \in [todo : SUBSET CacheKeys, batch : SUBSET CacheKeys]
        BY <4>2
      <4>. QED  BY <4>1, <4>2, <4>3
    <3>2. cache' \in [CacheKeys -> Page \cup {Nil}]
      BY <1>14 DEF TypeOK, Del
    <3>3. Reply(w, "ok") \/ (Goto(w, "scan") /\ UNCHANGED code)
      BY <1>14 DEF Del, AfterScan
    <3>4. /\ pc' \in [Workers -> Phases]
          /\ code' \in [Workers -> {"none", "ok", "forbidden", "not_found", "error"}]
      BY <3>3 DEF TypeOK, Reply, Goto, Phases
    <3>. QED  BY <3>1, <3>2, <3>4
  <2>1. TypeOK'
    BY <1>14, <2>0 DEF TypeOK, tables, Del
  <2>2. RequestOK(w)'
    BY <1>14 DEF TypeOK, RequestOK, Succeeding, Answered, Carries, PhaseOf,
       Del, AfterScan, Reply, Goto
  <2>. QED  BY <2>1, <2>2
<1>15. CASE CacheGet(w)
  <2>0. cache[KeyOf(call[w].filter)] \in Page \cup {Nil}
    BY <1>15 DEF TypeOK, RequestOK, Carries, PhaseOf, CacheGet, CacheKeys
  <2>1. TypeOK'
    BY <1>15, <2>0 DEF TypeOK, Phases, tables, CacheGet, Reply, Goto
  <2>2. RequestOK(w)'
    <3>1. CASE cache[KeyOf(call[w].filter)] # Nil
      BY <1>15, <2>0, <3>1 DEF TypeOK, RequestOK, Succeeding, Answered, PhaseOf, CacheGet, Reply, Goto
    <3>2. CASE cache[KeyOf(call[w].filter)] = Nil
      BY <1>15, <3>2 DEF TypeOK, RequestOK, Succeeding, Answered, PhaseOf, CacheGet, Goto
    <3>. QED  BY <3>1, <3>2
  <2>. QED  BY <2>1, <2>2
<1>16. CASE CountTasks(w)
  <2>1. TypeOK'
    BY <1>16, RowsType DEF TypeOK, RequestOK, Succeeding, Answered, Carries, PhaseOf, Phases, tables,
       CountTasks, Goto, Page
  <2>2. RequestOK(w)'
    BY <1>16, RowsType DEF TypeOK, RequestOK, Succeeding, Answered, Carries, PhaseOf,
       CountTasks, Goto, Page
  <2>. QED  BY <2>1, <2>2
<1>17. CASE SelectTasks(w)
  <2>0. page[w] \in Page
    BY <1>17 DEF RequestOK, SelectTasks
  <2>1. PICK S \in Selections(Clamp(call[w].filter)) : page' = [page EXCEPT ![w].rows = S]
    BY <1>17 DEF SelectTasks
  <2>2. S \in SUBSET (Tasks \X Row)
    BY RowsType DEF Selections
  <2>3. [page[w] EXCEPT !.rows = S] \in Page
    BY <2>0, <2>2 DEF Page
  <2>4. page' \in [Workers -> Page \cup {Nil}] /\ page'[w] \in Page
    BY <2>1, <2>3 DEF TypeOK
  <2>5. TypeOK'
    BY <1>17, <2>4 DEF TypeOK, Phases, tables, SelectTasks, Goto
  <2>6. RequestOK(w)'
    BY <1>17, <2>4 DEF TypeOK, RequestOK, Succeeding, Answered, Carries, PhaseOf,
       SelectTasks, Goto
  <2>. QED  BY <2>5, <2>6
<1>18. CASE CacheSet(w)
  <2>1. TypeOK'
    BY <1>18 DEF TypeOK, RequestOK, Succeeding, Answered, Carries, PhaseOf, Phases, tables,
       CacheSet, Reply, Goto, CacheKeys
  <2>2. RequestOK(w)'
    BY <1>18 DEF TypeOK, RequestOK, Succeeding, Answered, Carries, PhaseOf,
       CacheSet, Reply, Goto
  <2>. QED  BY <2>1, <2>2
<1>19. CASE ListHistory(w)
  <2>1. TypeOK'
    BY <1>19 DEF TypeOK, RequestOK, Succeeding, Answered, Carries, PhaseOf, Phases, tables,
       ListHistory, Reply, Goto
  <2>2. RequestOK(w)'
    BY <1>19 DEF TypeOK, RequestOK, Succeeding, Answered, Carries, PhaseOf,
       ListHistory, Reply, Goto
  <2>. QED  BY <2>1, <2>2
<1>20. CASE StorageError(w)
  <2>1. TypeOK'
    <3>1. lock' \in [Tasks -> Workers \cup {Nil}] /\ buf' \in [Workers -> SUBSET Entry]
      BY <1>20 DEF StorageError, Rollback, TypeOK
    <3>. QED  BY <1>20, <3>1 DEF TypeOK, Phases, tables, StorageError, Reply, Goto
  <2>2. RequestOK(w)'
    BY <1>20 DEF TypeOK, RequestOK, Succeeding, Answered, Carries, PhaseOf,
       StorageError, Reply, Goto, MySQLPhases
  <2>. QED  BY <2>1, <2>2
<1>21. CASE LostReply(w)
  <2>0. /\ tasks' \in [Tasks -> Row \cup {Nil}]
        /\ born' \in [Tasks -> Row \cup {Nil}]
        /\ history' \in SUBSET Entry
        /\ nextId' \in Nat
        /\ raced' \in [Tasks -> BOOLEAN]
        /\ buf' \in [Workers -> SUBSET Entry]
        /\ lock' \in [Tasks -> Workers \cup {Nil}]
    <3>1. CASE pc[w] = "save"
      <4>1. call[w].task \in Tasks /\ NewRow(call[w].team, call[w].user, call[w].input) \in Row
        BY <3>1, NewRowType DEF RequestOK, Succeeding, Answered, Carries, PhaseOf
      <4>2. /\ Insert(call[w].task, NewRow(call[w].team, call[w].user, call[w].input))
            /\ UNCHANGED <<buf, lock>>
        BY <1>21, <3>1 DEF LostReply
      <4>. QED  BY <4>1, <4>2 DEF TypeOK, Insert
    <3>2. CASE pc[w] = "commit"
      <4>1. call[w].task \in Tasks /\ Applied(read[w], call[w].input) \in Row
        BY <3>2, WrittenRowType, ConstantTypes DEF RequestOK, Succeeding, Answered, Carries, PhaseOf, ConstantTypes
      <4>2. CommitTx(w)
        BY <1>21, <3>2 DEF LostReply
      <4>. QED  BY <4>1, <4>2 DEF TypeOK, CommitTx
    <3>. QED  BY <1>21, <3>1, <3>2 DEF LostReply
  <2>1. TypeOK'
    BY <1>21, <2>0 DEF TypeOK, Phases, tables, LostReply, Insert, CommitTx, Reply, Goto
  <2>2. RequestOK(w)'
    BY <1>21, NewRowType, WrittenRowType, ConstantTypes DEF TypeOK, RequestOK, Succeeding, Answered, Carries, PhaseOf,
       LostReply, Insert, CommitTx, Reply, Goto, ConstantTypes
  <2>. QED  BY <2>1, <2>2
<1>22. CASE CacheError(w)
  <2>0. /\ scan' \in [Workers -> [todo : SUBSET CacheKeys, batch : SUBSET CacheKeys]]
        /\ pc' \in [Workers -> Phases]
        /\ code' \in [Workers -> {"none", "ok", "forbidden", "not_found", "error"}]
    <3>1. NoScan \in [todo : SUBSET CacheKeys, batch : SUBSET CacheKeys]
      BY DEF NoScan
    <3>2. CASE scan' = [scan EXCEPT ![w] = NoScan] /\ Reply(w, "ok")
      BY <3>1, <3>2 DEF TypeOK, Reply, Goto, Phases
    <3>3. CASE Goto(w, "count") /\ UNCHANGED <<scan, code>>
      BY <3>3 DEF TypeOK, Goto, Phases
    <3>. QED  BY <1>22, <3>2, <3>3 DEF CacheError
  <2>1. TypeOK'
    BY <1>22, <2>0 DEF TypeOK, tables, CacheError
  <2>2. RequestOK(w)'
    BY <1>22 DEF TypeOK, RequestOK, Succeeding, Answered, Carries, PhaseOf,
       CacheError, Reply, Goto, NoScan
  <2>. QED  BY <2>1, <2>2
<1>23. CASE Respond(w)
  <2>1. TypeOK'
    BY <1>23 DEF TypeOK, RequestOK, Succeeding, Answered, Carries, PhaseOf, Phases, tables,
       Respond, Goto, NoCall, Request, Call
  <2>2. RequestOK(w)'
    BY <1>23 DEF TypeOK, RequestOK, Succeeding, Answered, Carries, PhaseOf,
       Respond, Goto, NoCall, Request
  <2>. QED  BY <2>1, <2>2
<1>. QED  BY <1>1, <1>2, <1>3, <1>4, <1>5, <1>6, <1>7, <1>8, <1>9, <1>10, <1>11, <1>12, <1>13, <1>14, <1>15, <1>16, <1>17, <1>18, <1>19, <1>20, <1>21, <1>22, <1>23 DEF Arrive, Serve, Fail

LEMMA TypeInit == Init => TypeInv
<1>. SUFFICES ASSUME Init PROVE TypeInv
  OBVIOUS
<1>1. TypeOK
  BY ConstantTypes DEF Init, TypeOK, ConstantTypes, Phases, NoCall, Request, Call, NoScan
<1>2. \A w \in Workers : RequestOK(w)
  BY DEF Init, RequestOK, Succeeding, Answered, Carries, PhaseOf, NoCall, Request
<1>. QED  BY <1>1, <1>2 DEF TypeInv

LEMMA TypeStep == TypeInv /\ [Next]_vars => TypeInv'
<1>. SUFFICES ASSUME TypeInv, [Next]_vars PROVE TypeInv'
  OBVIOUS
<1>. USE DEF TypeInv
<1>1. ASSUME NEW w \in Workers, Arrive(w) \/ Serve(w) \/ Fail(w) PROVE TypeInv'
  <2>1. TypeOK' /\ RequestOK(w)'
    BY <1>1, WorkerTypeStep
  <2>2. ASSUME NEW v \in Workers, v # w PROVE RequestOK(v)'
    BY <1>1, <2>2, OthersUntouched, RequestFrame
  <2>. QED  BY <2>1, <2>2
<1>2. ASSUME NEW k \in CacheKeys, Expire(k) PROVE TypeInv'
  BY <1>2, RequestFrame DEF Expire, TypeOK, tables, locals
<1>3. ASSUME NEW m \in Teams, NEW u \in Users, Join(m, u) PROVE TypeInv'
  BY <1>3, RequestFrame DEF Join, TypeOK, tables, locals
<1>4. CASE Crash
  <2>1. TypeOK'
    BY <1>4 DEF Crash, TypeOK, tables, Phases, NoCall, Request, Call, NoScan
  <2>2. \A w \in Workers : RequestOK(w)'
    BY <1>4 DEF Crash, RequestOK, Succeeding, Answered, Carries, PhaseOf, NoCall, Request
  <2>. QED  BY <2>1, <2>2
<1>5. CASE UNCHANGED vars
  BY <1>5, RequestFrame DEF vars, tables, locals, TypeOK
<1>. QED  BY <1>1, <1>2, <1>3, <1>4, <1>5 DEF Next

\* Type correctness, for every value of the constants.
THEOREM TypeCorrect == Spec => []TypeOK
<1>1. TypeInv => TypeOK
  BY DEF TypeInv
<1>. QED  BY <1>1, TypeInit, TypeStep, PTL DEF Spec

-----------------------------------------------------------------------------
(* Part 2. Members: the inductive invariant.                               *)

CheckedPhases == {"assignee", "save", "update_row", "insert_history", "commit", "scan", "del",
                  "cache_get", "count", "select", "set", "list_history"}
WritePhases == {"save", "update_row", "insert_history", "commit"}

\* The row a request has read may be out of date, but its team and creator are
\* not, and its assignee is a member still.
SnapshotOK(w) ==
    read[w] # Nil =>
        /\ call[w].op \in {"update", "history"}
        /\ tasks[call[w].task] # Nil
        /\ read[w].team = tasks[call[w].task].team
        /\ read[w].by = tasks[call[w].task].by
        /\ read[w].val["assignee_id"] \in members[read[w].team] \cup {Nil}

\* What was checked for a request holds until its write.
CallerOK(w) ==
    pc[w] \in CheckedPhases \/ (pc[w] = "done" /\ code[w] = "ok") =>
        call[w].user \in members[TeamOf(w)]

AssigneeOK(w) ==
    pc[w] \in WritePhases => call[w].input["assignee_id"] \in members[TeamOf(w)] \cup {Nil}

\* A transaction holds entries of its own request only.
BufferOK(w) ==
    \A e \in buf[w] : pc[w] = "commit" /\ e.task = call[w].task /\ e.by = call[w].user

\* The id of a task that is being created is not used yet, by nobody.
FreshId(w) ==
    call[w].op = "create" /\ pc[w] \in {"role", "assignee", "save"} => tasks[call[w].task] = Nil

AccessOK(w) == SnapshotOK(w) /\ CallerOK(w) /\ AssigneeOK(w) /\ BufferOK(w) /\ FreshId(w)

DistinctIds ==
    \A v, w \in Workers :
        call[v].op = "create" /\ call[w].op = "create" /\ call[v].task = call[w].task => v = w

AccessInv ==
    /\ TypeInv
    /\ \A w \in Workers : AccessOK(w)
    /\ DistinctIds
    /\ NoOrphanTasks
    /\ OnlyMembersWrite

-----------------------------------------------------------------------------
(* What a step may do to the tables.                                       *)

\* Members stay members; tasks stay, in their team and with their creator.
Grows ==
    /\ \A m \in Teams : members[m] \subseteq members'[m]
    /\ \A t \in Tasks : tasks[t] # Nil =>
          tasks'[t] # Nil /\ tasks'[t].team = tasks[t].team /\ tasks'[t].by = tasks[t].by

SavesTask(w) ==
    /\ pc[w] = "save" /\ pc'[w] \in {"scan", "done"}
    /\ Insert(call[w].task, NewRow(call[w].team, call[w].user, call[w].input))

CommitsTask(w) ==
    /\ pc[w] = "commit" /\ pc'[w] \in {"scan", "done"}
    /\ CommitTx(w)

\* The tables change only when a worker saves a task or commits an update.
LEMMA TableChange ==
    ASSUME TypeInv, [Next]_vars
    PROVE  \/ UNCHANGED <<tasks, history, born, raced>>
           \/ UNCHANGED members /\ \E w \in Workers : SavesTask(w) \/ CommitsTask(w)
<1>1. ASSUME NEW w \in Workers, Arrive(w)
      PROVE  UNCHANGED <<tasks, history, born, raced>>
  BY <1>1 DEF Arrive, BeginCreate, BeginUpdate, BeginList, ListWithoutTeam, BeginHistory, Begin, tables
<1>2. ASSUME NEW w \in Workers, Serve(w) \/ Fail(w)
      PROVE  \/ UNCHANGED <<tasks, history, born, raced>>
             \/ UNCHANGED members /\ (SavesTask(w) \/ CommitsTask(w))
  <2>1. CASE SaveTask(w)
    BY <2>1 DEF TypeInv, TypeOK, SaveTask, SavesTask, Goto
  <2>2. CASE Commit(w)
    BY <2>2 DEF TypeInv, TypeOK, Commit, CommitsTask, Goto
  <2>3. CASE LostReply(w)
    BY <2>3 DEF TypeInv, TypeOK, LostReply, SavesTask, CommitsTask, Reply, Goto
  <2>. QED
    BY <1>2, <2>1, <2>2, <2>3 DEF Serve, Fail, GetTaskByID, CheckCaller, CheckAssignee, UpdateRow,
       InsertHistory, Scan, Del, CacheGet, CountTasks, SelectTasks, CacheSet, ListHistory,
       StorageError, CacheError, Respond, tables
<1>3. CASE \/ \E k \in CacheKeys : Expire(k)
           \/ \E m \in Teams, u \in Users : Join(m, u)
           \/ Crash
           \/ UNCHANGED vars
  BY <1>3 DEF Expire, Join, Crash, vars, tables
<1>. QED  BY <1>1, <1>2, <1>3 DEF Next

LEMMA MembersStay ==
    ASSUME TypeInv, [Next]_vars
    PROVE  \A m \in Teams : members[m] \subseteq members'[m]
<1>1. ASSUME NEW w \in Workers, Arrive(w) \/ Serve(w) \/ Fail(w)
      PROVE  UNCHANGED members
  BY <1>1 DEF Arrive, BeginCreate, BeginUpdate, BeginList, ListWithoutTeam, BeginHistory, Begin,
     Serve, Fail, GetTaskByID, CheckCaller, CheckAssignee, SaveTask, UpdateRow, InsertHistory,
     Commit, Scan, Del, CacheGet, CountTasks, SelectTasks, CacheSet, ListHistory, StorageError,
     LostReply, CacheError, Respond
<1>2. ASSUME NEW m \in Teams, NEW u \in Users, Join(m, u)
      PROVE  \A n \in Teams : members[n] \subseteq members'[n]
  BY <1>2 DEF Join, TypeInv, TypeOK
<1>3. CASE (\E k \in CacheKeys : Expire(k)) \/ Crash \/ UNCHANGED vars
  BY <1>3 DEF Expire, Crash, vars
<1>. QED  BY <1>1, <1>2, <1>3 DEF Next

LEMMA TablesGrow == ASSUME AccessInv, [Next]_vars PROVE Grows
<1>. USE DEF AccessInv, TypeInv
<1>1. ASSUME NEW w \in Workers, SavesTask(w), NEW t \in Tasks, tasks[t] # Nil
      PROVE  tasks'[t] = tasks[t]
  BY <1>1 DEF SavesTask, Insert, AccessOK, FreshId, RequestOK, PhaseOf, TypeOK
<1>2. ASSUME NEW w \in Workers, CommitsTask(w), NEW t \in Tasks, tasks[t] # Nil
      PROVE  tasks'[t] # Nil /\ tasks'[t].team = tasks[t].team /\ tasks'[t].by = tasks[t].by
  <2>1. /\ call[w].task \in Tasks /\ read[w] \in Row /\ call[w].input \in Input
    BY <1>2, ConstantTypes DEF CommitsTask, RequestOK, PhaseOf, Carries, Succeeding, ConstantTypes
  <2>2. /\ Applied(read[w], call[w].input) \in Row
        /\ Applied(read[w], call[w].input).team = read[w].team
        /\ Applied(read[w], call[w].input).by = read[w].by
    BY <2>1, WrittenRowType DEF Applied, Row
  <2>3. tasks' = [tasks EXCEPT ![call[w].task] = Applied(read[w], call[w].input)]
    BY <1>2 DEF CommitsTask, CommitTx
  <2>4. /\ read[w].team = tasks[call[w].task].team
        /\ read[w].by = tasks[call[w].task].by
    BY <2>1, NilIsNoValue DEF AccessOK, SnapshotOK
  <2>5. CASE t = call[w].task
    BY <1>2, <2>1, <2>2, <2>3, <2>4, <2>5, NilIsNoValue DEF TypeOK
  <2>6. CASE t # call[w].task
    BY <1>2, <2>3, <2>6 DEF TypeOK
  <2>. QED  BY <2>5, <2>6
<1>3. \A t \in Tasks : tasks[t] # Nil =>
        tasks'[t] # Nil /\ tasks'[t].team = tasks[t].team /\ tasks'[t].by = tasks[t].by
  BY <1>1, <1>2, TableChange
<1>. QED  BY <1>3, MembersStay DEF Grows

-----------------------------------------------------------------------------
(* Requests keep what was checked for them.                                *)

LEMMA TeamType ==
    ASSUME TypeInv, NEW w \in Workers, Succeeding(w), pc[w] \notin {"idle", "get"}
    PROVE  TeamOf(w) \in Teams
BY DEF TypeInv, TypeOK, RequestOK, Carries, PhaseOf, TeamOf, Row, Call

\* A step of another worker leaves a request what was checked for it.
LEMMA AccessFrame ==
    ASSUME TypeInv, Grows, NEW v \in Workers, AccessOK(v),
           pc'[v] = pc[v], call'[v] = call[v], read'[v] = read[v],
           buf'[v] = buf[v], code'[v] = code[v],
           FreshId(v)'
    PROVE  AccessOK(v)'
<1>1. SnapshotOK(v)'
  <2>. SUFFICES ASSUME read[v] # Nil PROVE SnapshotOK(v)'
    BY DEF SnapshotOK
  <2>1. call[v].task \in Tasks /\ read[v] \in Row
    BY DEF AccessOK, SnapshotOK, TypeInv, TypeOK, RequestOK, Carries
  <2>2. read[v].team \in Teams
    BY <2>1 DEF Row
  <2>. QED  BY <2>1, <2>2 DEF AccessOK, SnapshotOK, Grows
<1>2. pc[v] \in CheckedPhases \/ (pc[v] = "done" /\ code[v] = "ok") => TeamOf(v) \in Teams
  BY TeamType DEF CheckedPhases, Succeeding
<1>3. TeamOf(v)' = TeamOf(v)
  BY DEF TeamOf
<1>4. CallerOK(v)'
  BY <1>2, <1>3 DEF AccessOK, CallerOK, Grows
<1>5. AssigneeOK(v)'
  BY <1>2, <1>3 DEF AccessOK, AssigneeOK, Grows, WritePhases, CheckedPhases
<1>6. BufferOK(v)'
  BY DEF AccessOK, BufferOK
<1>. QED  BY <1>1, <1>4, <1>5, <1>6 DEF AccessOK

LEMMA FreshFrame ==
    ASSUME AccessInv, [Next]_vars, NEW v \in Workers, pc'[v] = pc[v], call'[v] = call[v]
    PROVE  FreshId(v)'
<1>. SUFFICES ASSUME call[v].op = "create", pc[v] \in {"role", "assignee", "save"}
              PROVE  tasks'[call[v].task] = Nil
  BY DEF FreshId
<1>. USE DEF AccessInv, TypeInv
<1>1. call[v].task \in Tasks /\ tasks[call[v].task] = Nil
  BY DEF AccessOK, FreshId, RequestOK, Carries
<1>2. ASSUME NEW w \in Workers, SavesTask(w) PROVE tasks'[call[v].task] = Nil
  <2>1. w # v
    BY <1>2 DEF SavesTask
  <2>2. call[w].task # call[v].task
    BY <1>2, <2>1 DEF SavesTask, DistinctIds, RequestOK, PhaseOf
  <2>. QED  BY <1>1, <1>2, <2>2 DEF SavesTask, Insert, TypeOK
<1>3. ASSUME NEW w \in Workers, CommitsTask(w) PROVE tasks'[call[v].task] = Nil
  <2>1. tasks[call[w].task] # Nil
    BY <1>3, NilIsNoValue DEF CommitsTask, AccessOK, SnapshotOK, RequestOK, PhaseOf, Succeeding
  <2>. QED  BY <1>1, <1>3, <2>1 DEF CommitsTask, CommitTx, TypeOK
<1>. QED  BY <1>1, <1>2, <1>3, TableChange

LEMMA SnapshotKept ==
    ASSUME TypeInv, Grows, NEW w \in Workers, SnapshotOK(w),
           call'[w] = call[w], read'[w] = read[w]
    PROVE  SnapshotOK(w)' /\ TeamOf(w)' = TeamOf(w)
<1>1. TeamOf(w)' = TeamOf(w)
  BY DEF TeamOf
<1>. SUFFICES ASSUME read[w] # Nil PROVE SnapshotOK(w)'
  BY <1>1 DEF SnapshotOK
<1>2. call[w].task \in Tasks /\ read[w] \in Row
  BY DEF SnapshotOK, TypeInv, TypeOK, RequestOK, Carries
<1>3. read[w].team \in Teams
  BY <1>2 DEF Row
<1>. QED  BY <1>1, <1>2, <1>3 DEF SnapshotOK, Grows

\* A request that arrives has nothing yet.
LEMMA Arrived ==
    ASSUME NEW w \in Workers, read'[w] = Nil, buf'[w] = {},
           pc'[w] \in {"role", "get", "idle", "done"}, pc'[w] = "done" => code'[w] # "ok",
           FreshId(w)'
    PROVE  AccessOK(w)'
BY DEF AccessOK, SnapshotOK, CallerOK, AssigneeOK, BufferOK, CheckedPhases, WritePhases

\* A request that fails needs nothing any more.
LEMMA Failed ==
    ASSUME TypeInv, Grows, NEW w \in Workers, AccessOK(w),
           call'[w] = call[w], read'[w] = read[w], buf'[w] = {},
           pc'[w] = "done", code'[w] # "ok"
    PROVE  AccessOK(w)'
<1>1. SnapshotOK(w)'
  BY SnapshotKept DEF AccessOK
<1>. QED  BY <1>1 DEF AccessOK, CallerOK, AssigneeOK, BufferOK, FreshId, CheckedPhases, WritePhases

\* A request whose caller is checked goes on.
LEMMA Advanced ==
    ASSUME TypeInv, Grows, NEW w \in Workers, AccessOK(w),
           call'[w] = call[w], read'[w] = read[w],
           pc[w] \in CheckedPhases \cup {"role"},
           call[w].user \in members[TeamOf(w)],
           pc'[w] \in CheckedPhases \cup {"done"},
           pc'[w] \in WritePhases =>
               call[w].input["assignee_id"] \in members[TeamOf(w)] \cup {Nil},
           BufferOK(w)', FreshId(w)'
    PROVE  AccessOK(w)'
<1>1. SnapshotOK(w)' /\ TeamOf(w)' = TeamOf(w)
  BY SnapshotKept DEF AccessOK
<1>2. members[TeamOf(w)] \subseteq members'[TeamOf(w)]
  BY TeamType DEF Grows, CheckedPhases, Succeeding
<1>3. CallerOK(w)'
  BY <1>1, <1>2 DEF CallerOK
<1>4. AssigneeOK(w)'
  BY <1>1, <1>2 DEF AssigneeOK
<1>. QED  BY <1>1, <1>3, <1>4 DEF AccessOK

\* The step of a worker gives its request what its new phase relies on.
LEMMA WorkerAccessStep ==
    ASSUME AccessInv, Grows, NEW w \in Workers, Arrive(w) \/ Serve(w) \/ Fail(w)
    PROVE  AccessOK(w)'
<1>. USE DEF AccessInv, TypeInv
<1>a. CASE Arrive(w)
  <2>1. pc[w] = "idle"
    BY <1>a DEF Arrive, BeginCreate, BeginUpdate, BeginList, ListWithoutTeam, BeginHistory, Begin
  <2>2. read[w] = Nil /\ buf[w] = {}
    BY <2>1 DEF RequestOK, PhaseOf, AccessOK, SnapshotOK, BufferOK
  <2>3. read'[w] = Nil /\ buf'[w] = {}
    BY <1>a, <2>2 DEF Arrive, BeginCreate, BeginUpdate, BeginList, ListWithoutTeam, BeginHistory, Begin
  <2>4. /\ pc'[w] \in {"role", "get", "done"}
        /\ pc'[w] = "done" => code'[w] # "ok"
    BY <1>a DEF TypeOK, Arrive, BeginCreate, BeginUpdate, BeginList, ListWithoutTeam, BeginHistory,
       Begin, Reply, Goto
  <2>5. FreshId(w)'
    <3>1. CASE BeginCreate(w)
      BY <3>1 DEF TypeOK, FreshId, BeginCreate, Begin, Request, tables
    <3>2. CASE BeginUpdate(w) \/ BeginList(w) \/ ListWithoutTeam(w) \/ BeginHistory(w)
      BY <3>2 DEF TypeOK, FreshId, BeginUpdate, BeginList, ListWithoutTeam, BeginHistory, Begin, Request
    <3>. QED  BY <1>a, <3>1, <3>2 DEF Arrive
  <2>. QED  BY <2>3, <2>4, <2>5, Arrived
<1>b. CASE Respond(w)
  <2>1. pc[w] # "commit" /\ pc'[w] = "idle" /\ read'[w] = Nil /\ buf'[w] = buf[w]
    BY <1>b DEF TypeOK, Respond, Goto
  <2>2. buf'[w] = {} /\ FreshId(w)'
    BY <2>1 DEF AccessOK, BufferOK, FreshId
  <2>. QED  BY <2>1, <2>2, Arrived
<1>1. CASE GetTaskByID(w)
  <2>. DEFINE t == call[w].task
  <2>1. /\ pc[w] = "get" /\ t \in Tasks /\ call[w].op \in {"update", "history"}
        /\ call'[w] = call[w] /\ buf'[w] = {}
    BY <1>1 DEF GetTaskByID, RequestOK, PhaseOf, Carries, AccessOK, BufferOK
  <2>2. CASE tasks[t] = Nil
    <3>1. pc'[w] = "done" /\ code'[w] # "ok" /\ read'[w] = read[w]
      BY <1>1, <2>2 DEF GetTaskByID, TypeOK, Reply, Goto
    <3>. QED  BY <2>1, <3>1, Failed
  <2>3. CASE tasks[t] # Nil
    <3>1. /\ pc'[w] = "role" /\ read'[w] = tasks[t]
          /\ tasks'[t] = tasks[t] /\ members' = members
      BY <1>1, <2>3 DEF GetTaskByID, TypeOK, Goto, tables
    <3>2. SnapshotOK(w)'
      BY <2>1, <2>3, <3>1 DEF SnapshotOK, NoOrphanTasks, OrphanTasks
    <3>. QED
      BY <2>1, <3>1, <3>2 DEF AccessOK, CallerOK, AssigneeOK, BufferOK, FreshId,
         CheckedPhases, WritePhases
  <2>. QED  BY <2>2, <2>3
<1>2. CASE CheckCaller(w)
  <2>1. /\ pc[w] = "role" /\ call'[w] = call[w] /\ read'[w] = read[w] /\ buf'[w] = {}
        /\ tasks' = tasks
    BY <1>2 DEF CheckCaller, AccessOK, BufferOK, tables
  <2>2. CASE call[w].user \notin members[TeamOf(w)]
    <3>1. pc'[w] = "done" /\ code'[w] # "ok"
      BY <1>2, <2>2 DEF CheckCaller, TypeOK, Reply, Goto
    <3>. QED  BY <2>1, <3>1, Failed
  <2>3. CASE call[w].user \in members[TeamOf(w)]
    <3>1. pc'[w] = NextAfterRole(w)
      BY <1>2, <2>3 DEF CheckCaller, TypeOK, Goto
    <3>2. NextAfterRole(w) \in CheckedPhases
      BY DEF NextAfterRole, WriteOf, CheckedPhases
    <3>3. NextAfterRole(w) \in WritePhases =>
            call[w].input["assignee_id"] \in members[TeamOf(w)] \cup {Nil}
      <4>. SUFFICES ASSUME NextAfterRole(w) \in WritePhases, call[w].input["assignee_id"] # Nil
                    PROVE  call[w].input["assignee_id"] \in members[TeamOf(w)] \cup {Nil}
        OBVIOUS
      <4>1. call[w].op \notin {"list", "history"} /\ ~AssigneeIsNew(w)
        BY DEF NextAfterRole, WritePhases
      <4>2. /\ call[w].op = "update"
            /\ call[w].input["assignee_id"] = read[w].val["assignee_id"]
        BY <4>1 DEF AssigneeIsNew
      <4>3. read[w] # Nil
        BY <2>1, <4>2, NilIsNoValue DEF RequestOK, Succeeding
      <4>. QED  BY <4>2, <4>3 DEF AccessOK, SnapshotOK, TeamOf
    <3>4. BufferOK(w)' /\ FreshId(w)'
      BY <2>1 DEF BufferOK, FreshId, AccessOK
    <3>. QED  BY <2>1, <2>3, <3>1, <3>2, <3>3, <3>4, Advanced
  <2>. QED  BY <2>2, <2>3
<1>3. CASE CheckAssignee(w)
  <2>1. /\ pc[w] = "assignee" /\ call'[w] = call[w] /\ read'[w] = read[w] /\ buf'[w] = {}
        /\ tasks' = tasks
    BY <1>3 DEF CheckAssignee, AccessOK, BufferOK, tables
  <2>2. CASE call[w].input["assignee_id"] \notin members[TeamOf(w)]
    <3>1. pc'[w] = "done" /\ code'[w] # "ok"
      BY <1>3, <2>2 DEF CheckAssignee, TypeOK, Reply, Goto
    <3>. QED  BY <2>1, <3>1, Failed
  <2>3. CASE call[w].input["assignee_id"] \in members[TeamOf(w)]
    <3>1. pc'[w] \in {"save", "update_row"}
      BY <1>3, <2>3 DEF CheckAssignee, TypeOK, Goto, WriteOf
    <3>2. BufferOK(w)' /\ FreshId(w)'
      BY <2>1 DEF BufferOK, FreshId, AccessOK
    <3>3. call[w].user \in members[TeamOf(w)]
      BY <2>1 DEF AccessOK, CallerOK, CheckedPhases
    <3>. QED  BY <2>1, <2>3, <3>1, <3>2, <3>3, Advanced DEF CheckedPhases
  <2>. QED  BY <2>2, <2>3
<1>4. CASE UpdateRow(w) \/ InsertHistory(w)
  <2>1. /\ pc[w] \in {"update_row", "insert_history"} /\ call'[w] = call[w] /\ read'[w] = read[w]
        /\ pc'[w] \in {"insert_history", "commit"}
    BY <1>4 DEF UpdateRow, InsertHistory, TypeOK, Goto, locals
  <2>2. BufferOK(w)'
    <3>1. CASE UpdateRow(w)
      BY <3>1 DEF UpdateRow, locals, AccessOK, BufferOK
    <3>2. CASE InsertHistory(w)
      BY <3>2 DEF InsertHistory, TypeOK, Goto, buildHistoryEntries, BufferOK
    <3>. QED  BY <1>4, <3>1, <3>2
  <2>3. FreshId(w)'
    BY <2>1 DEF FreshId
  <2>4. /\ call[w].user \in members[TeamOf(w)]
        /\ call[w].input["assignee_id"] \in members[TeamOf(w)] \cup {Nil}
    BY <2>1 DEF AccessOK, CallerOK, AssigneeOK, CheckedPhases, WritePhases
  <2>. QED  BY <2>1, <2>2, <2>3, <2>4, Advanced DEF CheckedPhases
<1>5. CASE \/ SaveTask(w) \/ Commit(w) \/ Scan(w) \/ Del(w) \/ CacheGet(w) \/ CountTasks(w)
           \/ SelectTasks(w) \/ CacheSet(w) \/ ListHistory(w) \/ CacheError(w)
  <2>1. /\ pc[w] \in CheckedPhases
        /\ call'[w] = call[w] /\ read'[w] = read[w]
    BY <1>5 DEF SaveTask, Commit, Scan, Del, CacheGet, CountTasks, SelectTasks, CacheSet,
       ListHistory, CacheError, CheckedPhases
  <2>2. /\ pc'[w] \in CheckedPhases \cup {"done"}
        /\ pc'[w] \notin WritePhases \cup {"role", "assignee"}
    <3>1. CASE SaveTask(w) \/ Commit(w) \/ Scan(w) \/ Del(w)
      BY <3>1 DEF TypeOK, SaveTask, Commit, Scan, Del, AfterScan, Reply, Goto,
         CheckedPhases, WritePhases
    <3>2. CASE CacheGet(w) \/ CountTasks(w) \/ SelectTasks(w) \/ CacheSet(w) \/ ListHistory(w)
               \/ CacheError(w)
      BY <3>2 DEF TypeOK, CacheGet, CountTasks, SelectTasks, CacheSet, ListHistory, CacheError,
         Reply, Goto, CheckedPhases, WritePhases
    <3>. QED  BY <1>5, <3>1, <3>2
  <2>3. buf'[w] = {}
    <3>1. CASE Commit(w)
      BY <3>1 DEF TypeOK, Commit, CommitTx
    <3>2. CASE ~Commit(w)
      BY <1>5, <3>2 DEF SaveTask, Scan, Del, CacheGet, CountTasks, SelectTasks, CacheSet,
         ListHistory, CacheError, AccessOK, BufferOK
    <3>. QED  BY <3>1, <3>2
  <2>4. BufferOK(w)' /\ FreshId(w)'
    BY <2>2, <2>3 DEF BufferOK, FreshId, WritePhases
  <2>5. call[w].user \in members[TeamOf(w)]
    BY <2>1 DEF AccessOK, CallerOK
  <2>. QED  BY <2>1, <2>2, <2>4, <2>5, Advanced
<1>6. CASE StorageError(w) \/ LostReply(w)
  <2>1. /\ call'[w] = call[w] /\ read'[w] = read[w] /\ pc'[w] = "done" /\ code'[w] # "ok"
    BY <1>6 DEF StorageError, LostReply, TypeOK, Reply, Goto
  <2>2. buf'[w] = {}
    BY <1>6 DEF StorageError, Rollback, LostReply, CommitTx, TypeOK, AccessOK, BufferOK
  <2>. QED  BY <2>1, <2>2, Failed
<1>. QED  BY <1>a, <1>b, <1>1, <1>2, <1>3, <1>4, <1>5, <1>6 DEF Serve, Fail

LEMMA RequestsKeepAccess ==
    ASSUME AccessInv, [Next]_vars PROVE \A v \in Workers : AccessOK(v)'
<1>. USE DEF AccessInv
<1>0. Grows
  BY TablesGrow
<1>. SUFFICES ASSUME NEW v \in Workers PROVE AccessOK(v)'
  OBVIOUS
<1>1. CASE UNCHANGED <<pc, call, read, buf, code>>
  BY <1>0, <1>1, FreshFrame, AccessFrame
<1>2. ASSUME NEW w \in Workers, Arrive(w) \/ Serve(w) \/ Fail(w) PROVE AccessOK(v)'
  <2>1. CASE v = w
    BY <1>0, <1>2, <2>1, WorkerAccessStep
  <2>2. CASE v # w
    <3>1. /\ pc'[v] = pc[v] /\ call'[v] = call[v] /\ read'[v] = read[v]
          /\ buf'[v] = buf[v] /\ code'[v] = code[v]
      BY <1>2, <2>2, OthersUntouched DEF TypeInv
    <3>2. FreshId(v)'
      BY <3>1, FreshFrame
    <3>. QED  BY <1>0, <3>1, <3>2, AccessFrame
  <2>. QED  BY <2>1, <2>2
<1>3. CASE Crash
  <2>1. pc'[v] = "idle" /\ read'[v] = Nil /\ buf'[v] = {} /\ FreshId(v)'
    BY <1>3 DEF Crash, FreshId
  <2>. QED  BY <2>1, Arrived
<1>4. CASE (\E k \in CacheKeys : Expire(k)) \/ (\E m \in Teams, u \in Users : Join(m, u))
           \/ UNCHANGED vars
  BY <1>1, <1>4 DEF Expire, Join, vars, locals
<1>. QED  BY <1>2, <1>3, <1>4 DEF Next

LEMMA IdsStayDistinct == ASSUME AccessInv, [Next]_vars PROVE DistinctIds'
<1>. USE DEF AccessInv, TypeInv
<1>1. CASE UNCHANGED call
  BY <1>1 DEF DistinctIds
<1>2. ASSUME NEW w \in Workers, BeginCreate(w) PROVE DistinctIds'
  <2>1. PICK t \in Tasks :
          /\ \A v \in Workers : ~(call[v].op = "create" /\ call[v].task = t)
          /\ \E c : c.task = t /\ call' = [call EXCEPT ![w] = c]
    BY <1>2 DEF BeginCreate, Begin, Request
  <2>. QED  BY <2>1 DEF TypeOK, DistinctIds
<1>3. ASSUME NEW w \in Workers, NEW c, c.op # "create", call' = [call EXCEPT ![w] = c]
      PROVE  DistinctIds'
  BY <1>3 DEF TypeOK, DistinctIds
<1>4. ASSUME NEW w \in Workers, Arrive(w) PROVE DistinctIds'
  <2>1. CASE BeginUpdate(w) \/ BeginList(w) \/ ListWithoutTeam(w) \/ BeginHistory(w)
    <3>1. PICK c : c.op # "create" /\ call' = [call EXCEPT ![w] = c]
      BY <2>1 DEF BeginUpdate, BeginList, ListWithoutTeam, BeginHistory, Begin, Request
    <3>. QED  BY <1>3, <3>1
  <2>. QED  BY <1>2, <1>4, <2>1 DEF Arrive
<1>5. ASSUME NEW w \in Workers, Serve(w) \/ Fail(w) PROVE DistinctIds'
  <2>1. CASE Respond(w)
    <3>1. NoCall.op # "create" /\ call' = [call EXCEPT ![w] = NoCall]
      BY <2>1 DEF Respond, NoCall, Request
    <3>. QED  BY <1>3, <3>1
  <2>2. CASE ~Respond(w)
    <3>1. UNCHANGED call
      BY <1>5, <2>2 DEF Serve, Fail, GetTaskByID, CheckCaller, CheckAssignee, SaveTask, UpdateRow,
         InsertHistory, Commit, Scan, Del, CacheGet, CountTasks, SelectTasks, CacheSet,
         ListHistory, StorageError, LostReply, CacheError, locals
    <3>. QED  BY <1>1, <3>1
  <2>. QED  BY <2>1, <2>2
<1>6. CASE Crash
  BY <1>6 DEF Crash, DistinctIds, NoCall, Request
<1>7. CASE (\E k \in CacheKeys : Expire(k)) \/ (\E m \in Teams, u \in Users : Join(m, u))
           \/ UNCHANGED vars
  BY <1>1, <1>7 DEF Expire, Join, vars, locals
<1>. QED  BY <1>4, <1>5, <1>6, <1>7 DEF Next

-----------------------------------------------------------------------------
(* The tables hold members only.                                           *)

\* The assignee that a commit writes is one that was checked or one that was read.
LEMMA TablesKeepMembers ==
    ASSUME AccessInv, [Next]_vars PROVE NoOrphanTasks' /\ OnlyMembersWrite'
<1>. USE DEF AccessInv, TypeInv
<1>0. Grows /\ TypeOK'
  BY TablesGrow, TypeStep
<1>1. CASE UNCHANGED <<tasks, history>>
  <2>1. \A t \in Tasks : tasks[t] # Nil => tasks[t].team \in Teams
    BY DEF TypeOK, Row
  <2>2. NoOrphanTasks'
    BY <1>0, <1>1, <2>1 DEF NoOrphanTasks, OrphanTasks, Grows
  <2>3. OnlyMembersWrite'
    BY <1>0, <1>1, <2>1 DEF OnlyMembersWrite, Grows, TypeOK, Entry
  <2>. QED  BY <2>2, <2>3
<1>2. ASSUME NEW w \in Workers, SavesTask(w), UNCHANGED members
      PROVE  NoOrphanTasks' /\ OnlyMembersWrite'
  <2>. DEFINE row == NewRow(call[w].team, call[w].user, call[w].input)
  <2>1. /\ call[w].task \in Tasks /\ call[w].op = "create" /\ call[w].input \in CreateInputs
        /\ tasks[call[w].task] = Nil
    BY <1>2 DEF SavesTask, RequestOK, PhaseOf, Carries, AccessOK, FreshId
  <2>2. row.team = call[w].team /\ row.by = call[w].user
    BY DEF NewRow
  <2>3. row.val["assignee_id"] = call[w].input["assignee_id"]
    BY <2>1, ConstantTypes DEF NewRow, ConstantTypes
  <2>4. /\ row.by \in members[row.team]
        /\ row.val["assignee_id"] \in members[row.team] \cup {Nil}
    BY <1>2, <2>1, <2>2, <2>3 DEF SavesTask, AccessOK, CallerOK, AssigneeOK, TeamOf,
       CheckedPhases, WritePhases
  <2>5. tasks' = [tasks EXCEPT ![call[w].task] = row] /\ history' = history
    BY <1>2 DEF SavesTask, Insert
  <2>6. NoOrphanTasks'
    BY <1>2, <2>1, <2>4, <2>5 DEF NoOrphanTasks, OrphanTasks, TypeOK
  <2>7. OnlyMembersWrite'
    BY <1>2, <2>1, <2>4, <2>5 DEF OnlyMembersWrite, TypeOK, Entry
  <2>. QED  BY <2>6, <2>7
<1>3. ASSUME NEW w \in Workers, CommitsTask(w), UNCHANGED members
      PROVE  NoOrphanTasks' /\ OnlyMembersWrite'
  <2>. DEFINE t == call[w].task
              row == Applied(read[w], call[w].input)
  <2>1. /\ t \in Tasks /\ call[w].op = "update" /\ call[w].input \in Input
        /\ read[w] \in Row /\ read[w] # Nil
    BY <1>3, ConstantTypes, NilIsNoValue DEF CommitsTask, RequestOK, PhaseOf, Carries, Succeeding,
       ConstantTypes
  <2>2. /\ tasks[t] # Nil /\ read[w].team = tasks[t].team /\ read[w].by = tasks[t].by
        /\ read[w].val["assignee_id"] \in members[read[w].team] \cup {Nil}
        /\ TeamOf(w) = read[w].team
    BY <2>1 DEF AccessOK, SnapshotOK, TeamOf
  <2>3. row.team = read[w].team /\ row.by = read[w].by
    BY <2>1 DEF Applied, Row
  <2>4. row.val["assignee_id"] \in {call[w].input["assignee_id"], read[w].val["assignee_id"]}
    BY <2>1, ConstantTypes DEF Applied, Row, ConstantTypes
  <2>5. call[w].input["assignee_id"] \in members[read[w].team] \cup {Nil}
    BY <1>3, <2>2 DEF CommitsTask, AccessOK, AssigneeOK, WritePhases
  <2>6. /\ row.val["assignee_id"] \in members[row.team] \cup {Nil}
        /\ row.by \in members[row.team]
    BY <2>1, <2>2, <2>3, <2>4, <2>5 DEF OnlyMembersWrite
  <2>7. /\ tasks' = [tasks EXCEPT ![t] = row] /\ history' = history \cup buf[w]
    BY <1>3 DEF CommitsTask, CommitTx
  <2>8. NoOrphanTasks'
    BY <1>3, <2>1, <2>6, <2>7 DEF NoOrphanTasks, OrphanTasks, TypeOK
  <2>9. ASSUME NEW u \in Tasks, tasks'[u] # Nil PROVE tasks'[u].by \in members'[tasks'[u].team]
    BY <1>3, <2>1, <2>6, <2>7, <2>9 DEF OnlyMembersWrite, TypeOK
  <2>10. ASSUME NEW e \in history'
         PROVE  tasks'[e.task] # Nil /\ e.by \in members'[tasks'[e.task].team]
    <3>1. CASE e \in history
      <4>1. e.task \in Tasks /\ tasks[e.task] # Nil /\ e.by \in members[tasks[e.task].team]
        BY <3>1 DEF OnlyMembersWrite, TypeOK, Entry
      <4>. QED  BY <1>0, <1>3, <4>1 DEF Grows
    <3>2. CASE e \in buf[w]
      <4>1. e.task = t /\ e.by = call[w].user
        BY <3>2 DEF AccessOK, BufferOK
      <4>2. call[w].user \in members[read[w].team]
        BY <1>3, <2>2 DEF CommitsTask, AccessOK, CallerOK, CheckedPhases
      <4>. QED  BY <1>0, <1>3, <2>1, <2>2, <4>1, <4>2 DEF Grows
    <3>. QED  BY <2>7, <2>10, <3>1, <3>2
  <2>. QED  BY <2>8, <2>9, <2>10 DEF OnlyMembersWrite
<1>. QED  BY <1>1, <1>2, <1>3, TableChange

LEMMA AccessInit == Init => AccessInv
<1>. SUFFICES ASSUME Init PROVE AccessInv
  OBVIOUS
<1>1. \A w \in Workers : AccessOK(w)
  BY DEF Init, AccessOK, SnapshotOK, CallerOK, AssigneeOK, BufferOK, FreshId,
     CheckedPhases, WritePhases, NoCall, Request
<1>2. DistinctIds
  BY DEF Init, DistinctIds, NoCall, Request
<1>3. NoOrphanTasks /\ OnlyMembersWrite
  BY DEF Init, NoOrphanTasks, OrphanTasks, OnlyMembersWrite
<1>. QED  BY <1>1, <1>2, <1>3, TypeInit DEF AccessInv

LEMMA AccessStep == AccessInv /\ [Next]_vars => AccessInv'
<1>. SUFFICES ASSUME AccessInv, [Next]_vars PROVE AccessInv'
  OBVIOUS
<1>1. TypeInv'
  BY TypeStep DEF AccessInv
<1>. QED  BY <1>1, RequestsKeepAccess, IdsStayDistinct, TablesKeepMembers DEF AccessInv

LEMMA AccessInvariant == Spec => []AccessInv
BY AccessInit, AccessStep, PTL DEF Spec

\* The assignee of every task is a member of its team, in every interleaving of
\* creates, updates and joins, and whatever calls fail.
THEOREM AssigneesAreMembers == Spec => []NoOrphanTasks
<1>1. AccessInv => NoOrphanTasks
  BY DEF AccessInv
<1>. QED  BY <1>1, AccessInvariant, PTL

\* Whoever created a task or is named in its history is a member of its team.
THEOREM WritersAreMembers == Spec => []OnlyMembersWrite
<1>1. AccessInv => OnlyMembersWrite
  BY DEF AccessInv
<1>. QED  BY <1>1, AccessInvariant, PTL

-----------------------------------------------------------------------------
(* Part 3. What List and History answer: the shared cache mixes neither    *)
(* teams nor filters.                                                      *)

\* No list is asked for with the status "all", the word the cache key has for no status.
NoStatusAll == \A f \in Filters : f.status # "all"

\* A row that a list with filter f may hold.
Fits(row, f) == row.team = f.team /\ (NoStatusAll => Matches(row, f))

\* Whatever is in the cache under the key of a filter fits that filter, and so
\* does what a request has got.
CacheFits ==
    \A f \in Filters : cache[KeyOf(f)] # Nil => \A r \in cache[KeyOf(f)].rows : Fits(r[2], f)

PageFits(w) ==
    page[w] # Nil => call[w].op = "list" /\ \A r \in page[w].rows : Fits(r[2], call[w].filter)

TrailFits(w) == \A e \in trail[w] : pc[w] = "done" /\ e.task = call[w].task

ListInv ==
    /\ TypeInv
    /\ CacheFits
    /\ \A w \in Workers : PageFits(w) /\ TrailFits(w)

LEMMA ClampKeeps ==
    ASSUME NEW f \in Filters
    PROVE  /\ Clamp(f).team = f.team /\ Clamp(f).status = f.status
           /\ Clamp(f).assignee = f.assignee
           /\ Clamp(f).page \in Nat \ {0} /\ Clamp(f).limit \in Nat \ {0}
<1>1. /\ f \in Filter /\ f.page \in Int /\ f.limit \in Int
      /\ DefaultLimit \in Nat \ {0} /\ MaxLimit \in Nat \ {0}
  BY ConstantTypes DEF ConstantTypes, Filter
<1>. QED  BY <1>1 DEF Clamp, Filter

LEMMA KeyParts ==
    ASSUME NEW f \in Filters, NEW g \in Filters, KeyOf(f) = KeyOf(g)
    PROVE  /\ OrAll(f.team) = OrAll(g.team)
           /\ OrAll(f.status) = OrAll(g.status)
           /\ OrAll(f.assignee) = OrAll(g.assignee)
           /\ Clamp(f).page = Clamp(g).page /\ Clamp(f).limit = Clamp(g).limit
<1>1. /\ OrAll(Clamp(f).team) = OrAll(Clamp(g).team)
      /\ OrAll(Clamp(f).status) = OrAll(Clamp(g).status)
      /\ OrAll(Clamp(f).assignee) = OrAll(Clamp(g).assignee)
      /\ Clamp(f).page = Clamp(g).page /\ Clamp(f).limit = Clamp(g).limit
  BY DEF KeyOf, cacheKey
<1>. QED  BY <1>1, ClampKeeps

\* A page is a part of the rows.
LEMMA SelectionsOfRows ==
    ASSUME NEW f \in Filters, NEW S \in Selections(Clamp(f))
    PROVE  /\ S \in SUBSET Rows(f)
           /\ Cardinality(S) = PageSize(Clamp(f), Cardinality(Rows(f)))
<1>1. Rows(Clamp(f)) = Rows(f)
  BY ClampKeeps DEF Rows, Matches
<1>. QED  BY <1>1 DEF Selections

\* Filters that share a cache key ask for the same team, and for the same rows
\* unless one of them asks for the status "all".
LEMMA KeyFits ==
    ASSUME NEW f \in Filters, NEW g \in Filters, KeyOf(f) = KeyOf(g), NEW row, Fits(row, f)
    PROVE  Fits(row, g)
<1>1. /\ f.team \in Teams \cup {Nil} /\ g.team \in Teams \cup {Nil}
      /\ f.assignee \in Users \cup {Nil} /\ g.assignee \in Users \cup {Nil}
  BY ConstantTypes DEF ConstantTypes, Filter
<1>2. /\ OrAll(f.team) = OrAll(g.team)
      /\ OrAll(f.status) = OrAll(g.status)
      /\ OrAll(f.assignee) = OrAll(g.assignee)
  BY KeyParts
<1>3. f.team = g.team /\ f.assignee = g.assignee
  BY <1>1, <1>2, NoIdIsAll DEF OrAll
<1>4. NoStatusAll => f.status = g.status
  BY <1>2 DEF OrAll, NoStatusAll
<1>. QED  BY <1>3, <1>4 DEF Fits, Matches

LEMMA RowsFit ==
    ASSUME NEW f, NEW r \in Rows(f)
    PROVE  Fits(r[2], f)
BY DEF Rows, Fits, Matches

LEMMA KeyOfFilter ==
    ASSUME TypeOK, NEW f \in Filters
    PROVE  KeyOf(f) \in CacheKeys /\ cache[KeyOf(f)] \in Page \cup {Nil}
BY DEF TypeOK, CacheKeys

\* A step of the worker keeps its page, or makes it from the tables or the cache.
LEMMA WorkerPageStep ==
    ASSUME ListInv, NEW w \in Workers, Arrive(w) \/ Serve(w) \/ Fail(w)
    PROVE  PageFits(w)' /\ TrailFits(w)'
<1>. USE DEF ListInv, TypeInv
<1>1. CASE Arrive(w)
  <2>1. pc[w] = "idle" /\ page'[w] = page[w] /\ trail'[w] = trail[w]
    BY <1>1 DEF Arrive, BeginCreate, BeginUpdate, BeginList, ListWithoutTeam, BeginHistory, Begin
  <2>2. page[w] = Nil /\ trail[w] = {}
    BY <2>1 DEF PageFits, TrailFits, RequestOK, PhaseOf
  <2>. QED  BY <2>1, <2>2 DEF PageFits, TrailFits
<1>2. CASE Respond(w)
  BY <1>2 DEF Respond, TypeOK, PageFits, TrailFits
<1>3. CASE CacheGet(w)
  <2>1. call[w].op = "list" /\ call[w].filter \in Filters /\ trail[w] = {}
    BY <1>3 DEF CacheGet, RequestOK, PhaseOf, Carries, TrailFits
  <2>2. page'[w] \in {page[w], cache[KeyOf(call[w].filter)]}
    BY <1>3 DEF CacheGet, TypeOK
  <2>. QED  BY <1>3, <2>1, <2>2 DEF CacheGet, PageFits, TrailFits, CacheFits
<1>4. CASE CountTasks(w)
  <2>1. /\ call[w].op = "list" /\ trail[w] = {}
        /\ page'[w].rows = {} /\ call' = call /\ trail' = trail
    BY <1>4 DEF CountTasks, TypeOK, RequestOK, PhaseOf, TrailFits
  <2>. QED  BY <2>1 DEF PageFits, TrailFits
<1>5. CASE SelectTasks(w)
  <2>1. /\ call[w].op = "list" /\ trail[w] = {} /\ page[w] \in Page
        /\ call' = call /\ trail' = trail
    BY <1>5 DEF SelectTasks, TypeOK, RequestOK, PhaseOf, TrailFits
  <2>2. call[w].filter \in Filters
    BY <1>5, <2>1 DEF SelectTasks, RequestOK, Carries
  <2>3. PICK S \in Selections(Clamp(call[w].filter)) : page' = [page EXCEPT ![w].rows = S]
    BY <1>5 DEF SelectTasks
  <2>4. page'[w].rows = S
    BY <2>1, <2>3 DEF TypeOK, Page
  <2>5. \A r \in S : Fits(r[2], call[w].filter)
    BY <2>2, SelectionsOfRows, RowsFit
  <2>. QED  BY <2>1, <2>4, <2>5 DEF PageFits, TrailFits
<1>6. CASE ListHistory(w)
  BY <1>6 DEF ListHistory, TypeOK, Reply, Goto, PageFits, TrailFits
<1>7. CASE \/ GetTaskByID(w) \/ CheckCaller(w) \/ CheckAssignee(w) \/ SaveTask(w) \/ UpdateRow(w)
           \/ InsertHistory(w) \/ Commit(w) \/ Scan(w) \/ Del(w) \/ CacheSet(w)
           \/ StorageError(w) \/ LostReply(w) \/ CacheError(w)
  <2>1. page' = page /\ trail' = trail /\ call' = call /\ pc[w] # "done"
    BY <1>7 DEF GetTaskByID, CheckCaller, CheckAssignee, SaveTask, UpdateRow, InsertHistory, Commit,
       Scan, Del, CacheSet, StorageError, LostReply, CacheError, locals, MySQLPhases
  <2>. QED  BY <2>1 DEF PageFits, TrailFits
<1>. QED  BY <1>1, <1>2, <1>3, <1>4, <1>5, <1>6, <1>7 DEF Serve, Fail

LEMMA CacheKeepsFitting == ASSUME ListInv, [Next]_vars PROVE CacheFits'
<1>. USE DEF ListInv, TypeInv
<1>1. ASSUME \A k \in CacheKeys : cache'[k] \in {cache[k], Nil}
      PROVE  CacheFits'
  BY <1>1, KeyOfFilter DEF CacheFits
<1>2. ASSUME NEW w \in Workers, CacheSet(w) PROVE CacheFits'
  <2>. SUFFICES ASSUME NEW f \in Filters, cache'[KeyOf(f)] # Nil,
                       NEW r \in cache'[KeyOf(f)].rows
                PROVE  Fits(r[2], f)
    BY DEF CacheFits
  <2>1. /\ call[w].op = "list" /\ call[w].filter \in Filters /\ page[w] \in Page
        /\ cache' = [cache EXCEPT ![KeyOf(call[w].filter)] = page[w]]
    BY <1>2 DEF CacheSet, RequestOK, PhaseOf, Carries
  <2>2. CASE KeyOf(f) = KeyOf(call[w].filter)
    <3>1. r \in page[w].rows
      BY <2>1, <2>2, KeyOfFilter DEF TypeOK
    <3>2. Fits(r[2], call[w].filter)
      BY <2>1, <3>1, NilIsNoValue DEF PageFits
    <3>. QED  BY <2>1, <2>2, <3>2, KeyFits
  <2>3. CASE KeyOf(f) # KeyOf(call[w].filter)
    BY <2>1, <2>3, KeyOfFilter DEF TypeOK, CacheFits
  <2>. QED  BY <2>2, <2>3
<1>3. ASSUME NEW w \in Workers, Arrive(w) PROVE CacheFits'
  BY <1>1, <1>3 DEF Arrive, BeginCreate, BeginUpdate, BeginList, ListWithoutTeam, BeginHistory, Begin
<1>4. ASSUME NEW w \in Workers, Del(w) PROVE CacheFits'
  BY <1>1, <1>4 DEF Del
<1>5. ASSUME NEW w \in Workers, Serve(w) \/ Fail(w) PROVE CacheFits'
  <2>1. CASE ~CacheSet(w) /\ ~Del(w)
    <3>1. cache' = cache
      BY <1>5, <2>1 DEF Serve, Fail, GetTaskByID, CheckCaller, CheckAssignee, SaveTask, UpdateRow,
         InsertHistory, Commit, Scan, CacheGet, CountTasks, SelectTasks, ListHistory,
         StorageError, LostReply, CacheError, Respond
    <3>. QED  BY <1>1, <3>1
  <2>. QED  BY <1>2, <1>4, <2>1
<1>6. ASSUME NEW k \in CacheKeys, Expire(k) PROVE CacheFits'
  BY <1>1, <1>6 DEF Expire, TypeOK
<1>7. CASE (\E m \in Teams, u \in Users : Join(m, u)) \/ Crash \/ UNCHANGED vars
  BY <1>1, <1>7 DEF Join, Crash, vars
<1>. QED  BY <1>3, <1>5, <1>6, <1>7 DEF Next

LEMMA ListInit == Init => ListInv
<1>. SUFFICES ASSUME Init PROVE ListInv
  OBVIOUS
<1>1. CacheFits
  BY DEF Init, CacheFits, CacheKeys
<1>2. \A w \in Workers : PageFits(w) /\ TrailFits(w)
  BY DEF Init, PageFits, TrailFits
<1>. QED  BY <1>1, <1>2, TypeInit DEF ListInv

LEMMA ListStep == ListInv /\ [Next]_vars => ListInv'
<1>. SUFFICES ASSUME ListInv, [Next]_vars PROVE ListInv'
  OBVIOUS
<1>. USE DEF ListInv
<1>1. TypeInv' /\ CacheFits'
  BY TypeStep, CacheKeepsFitting
<1>2. ASSUME NEW v \in Workers PROVE PageFits(v)' /\ TrailFits(v)'
  <2>1. ASSUME NEW w \in Workers, Arrive(w) \/ Serve(w) \/ Fail(w) PROVE PageFits(v)' /\ TrailFits(v)'
    <3>1. CASE v = w
      BY <2>1, <3>1, WorkerPageStep
    <3>2. CASE v # w
      <4>1. pc'[v] = pc[v] /\ call'[v] = call[v] /\ page'[v] = page[v] /\ trail'[v] = trail[v]
        BY <2>1, <3>2, OthersUntouched DEF TypeInv
      <4>. QED  BY <4>1 DEF PageFits, TrailFits
    <3>. QED  BY <3>1, <3>2
  <2>2. CASE Crash
    BY <2>2 DEF Crash, PageFits, TrailFits
  <2>3. CASE (\E k \in CacheKeys : Expire(k)) \/ (\E m \in Teams, u \in Users : Join(m, u))
             \/ UNCHANGED vars
    BY <2>3 DEF Expire, Join, vars, locals, PageFits, TrailFits
  <2>. QED  BY <2>1, <2>2, <2>3 DEF Next
<1>. QED  BY <1>1, <1>2

LEMMA ListInvariant == Spec => []ListInv
BY ListInit, ListStep, PTL DEF Spec

\* Lists and histories are answered to members of the team only, and a list holds
\* tasks of its team only, whatever other requests put in the cache.
THEOREM TeamsAreSeparate == Spec => []AnswersStayInTeam
<1>1. AccessInv /\ ListInv => AnswersStayInTeam
  <2>. SUFFICES ASSUME AccessInv, ListInv, NEW w \in Workers
                PROVE  /\ Answered(w, "list") =>
                            /\ call[w].user \in members[call[w].team]
                            /\ \A r \in page[w].rows : r[2].team = call[w].team
                       /\ Answered(w, "history") =>
                            /\ call[w].user \in members[tasks[call[w].task].team]
                            /\ \A e \in trail[w] : e.task = call[w].task
    BY DEF AnswersStayInTeam
  <2>. USE DEF AccessInv, ListInv, TypeInv
  <2>1. Answered(w, "list") \/ Answered(w, "history") => call[w].user \in members[TeamOf(w)]
    BY DEF Answered, AccessOK, CallerOK
  <2>2. CASE Answered(w, "list")
    <3>1. TeamOf(w) = call[w].team /\ call[w].team = call[w].filter.team /\ page[w] # Nil
      BY <2>2, NilIsNoValue DEF Answered, TeamOf, RequestOK, Carries
    <3>. QED  BY <2>1, <2>2, <3>1 DEF Answered, PageFits, Fits
  <2>3. CASE Answered(w, "history")
    <3>1. read[w] # Nil
      BY <2>3, NilIsNoValue DEF Answered, RequestOK, Succeeding
    <3>2. TeamOf(w) = tasks[call[w].task].team
      BY <2>3, <3>1 DEF Answered, TeamOf, AccessOK, SnapshotOK
    <3>. QED  BY <2>1, <2>3, <3>2 DEF Answered, TrailFits
  <2>. QED  BY <2>2, <2>3
<1>. QED  BY <1>1, AccessInvariant, ListInvariant, PTL

\* If nobody asks for the status "all", every task in a list has the status and
\* the assignee that were asked for, also when the list comes from the cache.
THEOREM FiltersAreHonoured ==
    ASSUME NoStatusAll
    PROVE  Spec => []ListHonoursFilter
<1>1. ListInv => ListHonoursFilter
  <2>. SUFFICES ASSUME ListInv, NEW w \in Workers, Answered(w, "list"), NEW r \in page[w].rows
                PROVE  Matches(r[2], call[w].filter)
    BY DEF ListHonoursFilter, Matches
  <2>1. page[w] # Nil
    BY NilIsNoValue DEF ListInv, TypeInv, RequestOK
  <2>. QED  BY <2>1 DEF ListInv, PageFits, Fits
<1>. QED  BY <1>1, ListInvariant, PTL

-----------------------------------------------------------------------------
(* Lists of a whole team: the count comes before the rows.                 *)

Whole(f)  == f.status = Nil /\ f.assignee = Nil
Covers(p, f) == PageSize(Clamp(f), p.total) <= Cardinality(p.rows)

\* Between the two queries tasks may be added to the list, and none goes away.
PageCovers(w) ==
    call[w].op = "list" /\ Whole(call[w].filter) =>
        /\ pc[w] = "select" => page[w].total <= Cardinality(Rows(call[w].filter))
        /\ pc[w] = "set" \/ Answered(w, "list") => Covers(page[w], call[w].filter)

CacheCovers ==
    \A f \in Filters : Whole(f) /\ cache[KeyOf(f)] # Nil => Covers(cache[KeyOf(f)], f)

CoverInv == AccessInv /\ CacheCovers /\ \A w \in Workers : PageCovers(w)

Listed(f) == {t \in Tasks : tasks[t] # Nil /\ Matches(tasks[t], f)}

LEMMA PairsOf ==
    ASSUME NEW L, IsFiniteSet(L), NEW g
    PROVE  Cardinality({<<t, g[t]>> : t \in L}) = Cardinality(L)
<1>. DEFINE S == {<<t, g[t]>> : t \in L}
            h == [t \in L |-> <<t, g[t]>>]
<1>1. h \in Injection(L, S)
  BY DEF Injection, IsInjective
<1>2. h \in Surjection(L, S)
  BY DEF Surjection
<1>3. ExistsBijection(L, S)
  BY <1>1, <1>2 DEF Bijection, ExistsBijection
<1>. HIDE DEF S
<1>4. Cardinality(S) = Cardinality(L)
  BY <1>3, FS_Bijection
<1>. QED  BY <1>4 DEF S

\* The list of a whole team does not get shorter.
LEMMA RowsGrow ==
    ASSUME AccessInv, [Next]_vars, NEW f, Whole(f)
    PROVE  /\ Cardinality(Rows(f)) \in Nat /\ Cardinality(Rows(f)') \in Nat
           /\ Cardinality(Rows(f)) <= Cardinality(Rows(f)')
<1>1. Grows
  BY TablesGrow
<1>2. Listed(f) \subseteq Listed(f)'
  BY <1>1 DEF Listed, Matches, Grows, Whole
<1>3. IsFiniteSet(Listed(f)) /\ IsFiniteSet(Listed(f)')
  BY FS_Subset, ConstantTypes DEF ConstantTypes, Listed
<1>4. Cardinality(Rows(f)) = Cardinality(Listed(f))
  BY <1>3, PairsOf DEF Rows, Listed
<1>5. Cardinality(Rows(f)') = Cardinality(Listed(f)')
  BY <1>3, PairsOf DEF Rows, Listed
<1>6. Cardinality(Listed(f)) \in Nat /\ Cardinality(Listed(f)') \in Nat
  BY <1>3, FS_CardinalityType
<1>7. Cardinality(Listed(f)) <= Cardinality(Listed(f)')
  BY <1>2, <1>3, FS_Subset
<1>. QED  BY <1>4, <1>5, <1>6, <1>7

\* Filters that share a key with one of a whole team are of a whole team, and of
\* the same page.
LEMMA KeyOfWhole ==
    ASSUME NoStatusAll, NEW f \in Filters, NEW g \in Filters, KeyOf(f) = KeyOf(g), Whole(f)
    PROVE  Whole(g) /\ \A p : Covers(p, g) => Covers(p, f)
<1>1. g.assignee \in Users \cup {Nil}
  BY ConstantTypes DEF ConstantTypes, Filter
<1>2. OrAll(f.status) = OrAll(g.status) /\ OrAll(f.assignee) = OrAll(g.assignee)
  BY KeyParts
<1>3. Whole(g)
  BY <1>1, <1>2, NoIdIsAll DEF OrAll, Whole, NoStatusAll
<1>4. Clamp(f).page = Clamp(g).page /\ Clamp(f).limit = Clamp(g).limit
  BY KeyParts
<1>5. \A n : PageSize(Clamp(f), n) = PageSize(Clamp(g), n)
  BY <1>4 DEF PageSize, Offset
<1>. QED  BY <1>3, <1>5 DEF Covers

\* More rows make no page smaller.
LEMMA PagesGrow ==
    ASSUME NEW f \in Filters, NEW m \in Nat, NEW n \in Nat, m <= n
    PROVE  PageSize(Clamp(f), m) <= PageSize(Clamp(f), n)
<1>1. PICK l \in Nat : l = Clamp(f).limit
  BY ClampKeeps
<1>2. PICK o \in Int : o = Offset(Clamp(f))
  BY ClampKeeps DEF Offset
<1>. QED  BY <1>1, <1>2 DEF PageSize

LEMMA WorkerCoverStep ==
    ASSUME CoverInv, [Next]_vars, NEW w \in Workers, Arrive(w) \/ Serve(w) \/ Fail(w)
    PROVE  PageCovers(w)'
<1>. USE DEF CoverInv, AccessInv, TypeInv
<1>1. CASE Arrive(w)
  <2>1. pc'[w] \notin {"select", "set"} /\ ~Answered(w, "list")'
    BY <1>1 DEF TypeOK, Arrive, BeginCreate, BeginUpdate, BeginList, ListWithoutTeam, BeginHistory,
       Begin, Reply, Goto, Answered
  <2>. QED  BY <2>1 DEF PageCovers
<1>2. CASE CacheGet(w)
  <2>1. /\ call' = call /\ call[w].op = "list" /\ call[w].filter \in Filters
        /\ pc'[w] \in {"done", "count"}
    BY <1>2 DEF CacheGet, TypeOK, RequestOK, PhaseOf, Carries, Reply, Goto
  <2>2. CASE pc'[w] = "done"
    <3>1. page'[w] = cache[KeyOf(call[w].filter)] /\ page'[w] # Nil
      BY <1>2, <2>2 DEF CacheGet, TypeOK, Goto
    <3>2. Whole(call[w].filter) => Covers(page'[w], call[w].filter)
      BY <2>1, <3>1 DEF CacheCovers
    <3>. QED  BY <2>1, <2>2, <3>2 DEF PageCovers, Covers
  <2>3. CASE pc'[w] = "count"
    BY <2>3 DEF PageCovers, Answered
  <2>. QED  BY <2>1, <2>2, <2>3
<1>3. CASE CountTasks(w)
  <2>1. /\ call' = call /\ tasks' = tasks /\ pc'[w] = "select"
        /\ page'[w].total = Cardinality(Rows(call[w].filter))
    BY <1>3 DEF CountTasks, TypeOK, Goto, tables
  <2>2. Rows(call[w].filter)' = Rows(call[w].filter)
    BY <2>1 DEF Rows, Matches
  <2>3. Cardinality(Rows(call[w].filter)) \in Nat
    BY RowsType
  <2>4. page'[w].total <= Cardinality(Rows(call[w].filter)')
    BY <2>1, <2>2, <2>3
  <2>. QED  BY <2>1, <2>4 DEF PageCovers, Answered
<1>4. CASE SelectTasks(w)
  <2>1. /\ call' = call /\ pc[w] = "select" /\ pc'[w] = "set" /\ page[w] \in Page
    BY <1>4 DEF SelectTasks, TypeOK, RequestOK, Goto
  <2>2. call[w].op = "list" /\ call[w].filter \in Filters
    BY <2>1 DEF RequestOK, PhaseOf, Carries
  <2>3. PICK S \in Selections(Clamp(call[w].filter)) : page' = [page EXCEPT ![w].rows = S]
    BY <1>4 DEF SelectTasks
  <2>4. page'[w].rows = S /\ page'[w].total = page[w].total /\ page[w].total \in Nat
    BY <2>1, <2>3 DEF TypeOK, Page
  <2>5. Cardinality(S) = PageSize(Clamp(call[w].filter), Cardinality(Rows(call[w].filter)))
    BY <2>2, SelectionsOfRows
  <2>6. Cardinality(Rows(call[w].filter)) \in Nat
    BY RowsType
  <2>7. ASSUME Whole(call[w].filter) PROVE Covers(page'[w], call[w].filter)
    <3>1. page[w].total <= Cardinality(Rows(call[w].filter))
      BY <2>1, <2>2, <2>7 DEF PageCovers
    <3>. QED  BY <2>2, <2>4, <2>5, <2>6, <3>1, PagesGrow DEF Covers
  <2>. QED  BY <2>1, <2>7 DEF PageCovers, Covers
<1>5. CASE CacheSet(w) \/ CacheError(w)
  <2>1. page' = page /\ call' = call /\ pc'[w] # "select" /\ pc'[w] # "set"
        /\ (pc[w] = "set" \/ call[w].op # "list" \/ pc'[w] # "done")
    BY <1>5 DEF CacheSet, CacheError, TypeOK, RequestOK, PhaseOf, Reply, Goto
  <2>. QED  BY <2>1 DEF PageCovers, Answered
<1>6. CASE Respond(w)
  BY <1>6 DEF Respond, TypeOK, Goto, PageCovers, Answered
<1>7. CASE StorageError(w) \/ LostReply(w)
  <2>1. pc'[w] = "done" /\ code'[w] = "error"
    BY <1>7 DEF StorageError, LostReply, TypeOK, Reply, Goto
  <2>. QED  BY <2>1 DEF PageCovers, Answered
<1>8. CASE CheckCaller(w)
  <2>1. pc'[w] \notin {"select", "set"} /\ (pc'[w] = "done" => code'[w] # "ok")
    BY <1>8 DEF CheckCaller, TypeOK, Reply, Goto, NextAfterRole, WriteOf
  <2>. QED  BY <2>1 DEF PageCovers, Answered
<1>9. CASE \/ GetTaskByID(w) \/ CheckAssignee(w) \/ SaveTask(w) \/ UpdateRow(w)
           \/ InsertHistory(w) \/ Commit(w) \/ Scan(w) \/ Del(w) \/ ListHistory(w)
  <2>1. call[w].op # "list" /\ call' = call
    BY <1>9 DEF GetTaskByID, CheckAssignee, SaveTask, UpdateRow, InsertHistory, Commit,
       Scan, Del, ListHistory, RequestOK, PhaseOf, locals
  <2>. QED  BY <2>1 DEF PageCovers
<1>. QED  BY <1>1, <1>2, <1>3, <1>4, <1>5, <1>6, <1>7, <1>8, <1>9 DEF Serve, Fail

LEMMA CacheKeepsCovering == ASSUME CoverInv, NoStatusAll, [Next]_vars PROVE CacheCovers'
<1>. USE DEF CoverInv, AccessInv, TypeInv
<1>1. ASSUME \A k \in CacheKeys : cache'[k] \in {cache[k], Nil}
      PROVE  CacheCovers'
  BY <1>1, KeyOfFilter DEF CacheCovers
<1>2. ASSUME NEW w \in Workers, CacheSet(w) PROVE CacheCovers'
  <2>. SUFFICES ASSUME NEW f \in Filters, Whole(f), cache'[KeyOf(f)] # Nil
                PROVE  Covers(cache'[KeyOf(f)], f)
    BY DEF CacheCovers, Covers
  <2>1. /\ call[w].op = "list" /\ call[w].filter \in Filters /\ page[w] \in Page /\ pc[w] = "set"
        /\ cache' = [cache EXCEPT ![KeyOf(call[w].filter)] = page[w]]
    BY <1>2 DEF CacheSet, RequestOK, PhaseOf, Carries
  <2>2. CASE KeyOf(f) = KeyOf(call[w].filter)
    <3>1. cache'[KeyOf(f)] = page[w]
      BY <2>1, <2>2, KeyOfFilter DEF TypeOK
    <3>2. Whole(call[w].filter)
      BY <2>1, <2>2, KeyOfWhole
    <3>3. Covers(page[w], call[w].filter)
      BY <2>1, <3>2 DEF PageCovers
    <3>. QED  BY <2>1, <2>2, <3>1, <3>3, KeyOfWhole
  <2>3. CASE KeyOf(f) # KeyOf(call[w].filter)
    BY <2>1, <2>3, KeyOfFilter DEF TypeOK, CacheCovers
  <2>. QED  BY <2>2, <2>3
<1>3. ASSUME ~(\E w \in Workers : CacheSet(w)) PROVE CacheCovers'
  <2>1. \A k \in CacheKeys : cache'[k] \in {cache[k], Nil}
    <3>1. ASSUME NEW w \in Workers, Arrive(w) PROVE cache' = cache
      BY <3>1 DEF Arrive, BeginCreate, BeginUpdate, BeginList, ListWithoutTeam, BeginHistory, Begin
    <3>2. ASSUME NEW w \in Workers, Serve(w) \/ Fail(w)
          PROVE  \A k \in CacheKeys : cache'[k] \in {cache[k], Nil}
      BY <1>3, <3>2 DEF Serve, Fail, GetTaskByID, CheckCaller, CheckAssignee, SaveTask, UpdateRow,
         InsertHistory, Commit, Scan, Del, CacheGet, CountTasks, SelectTasks, ListHistory,
         StorageError, LostReply, CacheError, Respond
    <3>3. ASSUME NEW k \in CacheKeys, Expire(k)
          PROVE  \A x \in CacheKeys : cache'[x] \in {cache[x], Nil}
      BY <3>3 DEF Expire, TypeOK
    <3>4. CASE (\E m \in Teams, u \in Users : Join(m, u)) \/ Crash \/ UNCHANGED vars
      BY <3>4 DEF Join, Crash, vars
    <3>. QED  BY <3>1, <3>2, <3>3, <3>4 DEF Next
  <2>. QED  BY <1>1, <2>1
<1>. QED  BY <1>2, <1>3

LEMMA CoverStep == ASSUME CoverInv, NoStatusAll, [Next]_vars PROVE CoverInv'
<1>. USE DEF CoverInv
<1>1. AccessInv' /\ CacheCovers'
  BY AccessStep, CacheKeepsCovering
<1>2. ASSUME NEW v \in Workers PROVE PageCovers(v)'
  <2>1. ASSUME pc'[v] = pc[v], call'[v] = call[v], page'[v] = page[v], code'[v] = code[v]
        PROVE  PageCovers(v)'
    <3>. SUFFICES ASSUME call[v].op = "list", Whole(call[v].filter)
                  PROVE  /\ pc[v] = "select" => page[v].total <= Cardinality(Rows(call[v].filter)')
                         /\ pc[v] = "set" \/ Answered(v, "list") => Covers(page[v], call[v].filter)
      BY <2>1 DEF PageCovers, Answered, Covers, Rows
    <3>1. pc[v] = "select" => page[v].total \in Nat
      BY DEF AccessInv, TypeInv, RequestOK, Page
    <3>2. PICK f : f = call[v].filter
      OBVIOUS
    <3>3. /\ Cardinality(Rows(f)) \in Nat /\ Cardinality(Rows(f)') \in Nat
          /\ Cardinality(Rows(f)) <= Cardinality(Rows(f)')
      BY <3>2, RowsGrow
    <3>4. Rows(call[v].filter)' = Rows(f)'
      BY <2>1, <3>2 DEF Rows
    <3>. QED  BY <3>1, <3>2, <3>3, <3>4 DEF PageCovers
  <2>2. ASSUME NEW w \in Workers, Arrive(w) \/ Serve(w) \/ Fail(w) PROVE PageCovers(v)'
    <3>1. CASE v = w
      BY <2>2, <3>1, WorkerCoverStep
    <3>2. CASE v # w
      BY <2>1, <2>2, <3>2, OthersUntouched DEF AccessInv, TypeInv
    <3>. QED  BY <3>1, <3>2
  <2>3. CASE Crash
    BY <2>3 DEF Crash, PageCovers, Answered
  <2>4. CASE (\E k \in CacheKeys : Expire(k)) \/ (\E m \in Teams, u \in Users : Join(m, u))
             \/ UNCHANGED vars
    BY <2>1, <2>4 DEF Expire, Join, vars, locals
  <2>. QED  BY <2>2, <2>3, <2>4 DEF Next
<1>. QED  BY <1>1, <1>2

\* If nobody asks for the status "all", every page of the list of a whole team has the
\* rows that the total, the page and the limit promise, although two queries make it and
\* other requests fill the cache: for every limit and every number of tasks and pages.
THEOREM TotalsAreCovered ==
    ASSUME NoStatusAll
    PROVE  Spec => []PageCoversTotal
<1>1. Init => CoverInv
  <2>. SUFFICES ASSUME Init PROVE CoverInv
    OBVIOUS
  <2>1. AccessInv
    BY AccessInit
  <2>2. CacheCovers
    BY DEF Init, CacheCovers, CacheKeys
  <2>3. \A w \in Workers : PageCovers(w)
    BY DEF Init, PageCovers, Answered
  <2>. QED  BY <2>1, <2>2, <2>3 DEF CoverInv
<1>2. CoverInv /\ [Next]_vars => CoverInv'
  BY CoverStep
<1>3. CoverInv => PageCoversTotal
  BY DEF CoverInv, PageCovers, Covers, Whole, PageCoversTotal, Answered
<1>. QED  BY <1>1, <1>2, <1>3, PTL DEF Spec

-----------------------------------------------------------------------------
(* Part 4. The history: the inductive invariant.                           *)

TxPhases == {"insert_history", "commit"}

\* An open transaction holds the lock of its row, so there is one per task.
TxHoldsLock == \A w \in Workers : pc[w] \in TxPhases => lock[call[w].task] = w

IdsBelowNext == \A e \in history : e.id < nextId

\* An open transaction holds the entries of its update, with an id above those
\* the task has: nobody else can add to the task while the row is locked.
BufferHolds(w, i) ==
    /\ buf[w] = buildHistoryEntries(i, w)
    /\ buf[w] # {} => i < nextId
    /\ \A e \in history : e.task = call[w].task => e.id < i

TxOK(w) == pc[w] = "commit" => \E i \in Nat : BufferHolds(w, i)

\* The value x of field f of task t is the initial one or the new value of an entry.
Explained(t, f, x) == x = born[t].val[f] \/ \E e \in EntriesOf(t, f) : x = e.new

SnapshotExplained(w) ==
    read[w] # Nil => \A f \in Fields : Explained(call[w].task, f, read[w].val[f])

\* The entries S of a field f that was x0 at first lead to its value x.
Tells(S, x, x0, f) ==
    /\ \/ S = {} /\ x = x0
       \/ \E e \in S : Latest(e, S) /\ x = e.new
    /\ \A e \in S :
          LET before == {d \in S : d.id < e.id} IN
          \/ before = {} /\ e.old = OldValue(f, x0)
          \/ \E d \in before : Latest(d, before) /\ e.old = d.new

\* The entries of the update of w are in the history.
Recorded(w) ==
    \A f \in Fields :
        call[w].input[f] \notin {Nil, read[w].val[f]} =>
            \E e \in EntriesOf(call[w].task, f) :
                /\ e.by = call[w].user /\ e.new = call[w].input[f]
                /\ e.old = OldValue(f, read[w].val[f])

RecordedOK(w) ==
    call[w].op = "update" /\ (pc[w] \in {"scan", "del"} \/ Answered(w, "update")) => Recorded(w)

AuditInv ==
    /\ AccessInv
    /\ TxHoldsLock
    /\ IdsBelowNext
    /\ \A w \in Workers : TxOK(w) /\ SnapshotExplained(w) /\ RecordedOK(w)
    /\ NoValueWithoutEntry
    /\ AuditTrail

-----------------------------------------------------------------------------
(* What a commit does.                                                     *)

LEMMA CommitFacts ==
    ASSUME AuditInv, NEW w \in Workers, CommitsTask(w)
    PROVE  /\ call[w].task \in Tasks /\ call[w].op = "update" /\ call[w].user \in Users
           /\ call[w].input \in Input /\ read[w] \in Row /\ tasks[call[w].task] \in Row
           /\ tasks' = [tasks EXCEPT ![call[w].task] = Applied(read[w], call[w].input)]
           /\ history' = history \cup buf[w]
           /\ born' = born /\ nextId' = nextId
           /\ raced' = [raced EXCEPT ![call[w].task] = @ \/ read[w] # tasks[call[w].task]]
<1>. USE DEF AuditInv, AccessInv, TypeInv
<1>1. /\ call[w].task \in Tasks /\ call[w].op = "update" /\ call[w].user \in Users
      /\ call[w].input \in Input /\ read[w] \in Row
  BY ConstantTypes DEF CommitsTask, RequestOK, Carries, PhaseOf, Succeeding, ConstantTypes
<1>2. tasks[call[w].task] \in Row
  <2>1. tasks[call[w].task] # Nil
    <3>1. AccessOK(w)
      OBVIOUS
    <3>2. read[w] # Nil
      BY <1>1, NilIsNoValue
    <3>. QED  BY <3>1, <3>2 DEF AccessOK, SnapshotOK
  <2>2. tasks \in [Tasks -> Row \cup {Nil}]
    BY DEF TypeOK
  <2>. QED  BY <1>1, <2>1, <2>2
<1>. QED  BY <1>1, <1>2 DEF CommitsTask, CommitTx

LEMMA AppliedValue ==
    ASSUME NEW row \in Row, NEW in \in Input, NEW f \in Fields
    PROVE  Applied(row, in).val[f] = IF in[f] # Nil THEN in[f] ELSE row.val[f]
BY DEF Applied, Row, Input

\* The entries that a transaction holds, and only they.
LEMMA BufferEntries ==
    ASSUME NEW w \in Workers, NEW i, buf[w] = buildHistoryEntries(i, w)
    PROVE  /\ \A e \in buf[w] :
                 /\ e.id = i /\ e.task = call[w].task /\ e.by = call[w].user
                 /\ e.field \in Changed(read[w], call[w].input)
                 /\ e.old = OldValue(e.field, read[w].val[e.field])
                 /\ e.new = call[w].input[e.field]
           /\ \A f \in Changed(read[w], call[w].input) : \E e \in buf[w] : e.field = f
<1>. DEFINE Made(f) == [id |-> i, task |-> call[w].task, by |-> call[w].user, field |-> f,
                        old |-> OldValue(f, read[w].val[f]), new |-> call[w].input[f]]
<1>1. buf[w] = {Made(f) : f \in Changed(read[w], call[w].input)}
  BY DEF buildHistoryEntries
<1>2. ASSUME NEW f \in Changed(read[w], call[w].input) PROVE \E e \in buf[w] : e.field = f
  <2>1. Made(f) \in buf[w] /\ Made(f).field = f
    BY <1>1
  <2>. QED  BY <2>1
<1>3. ASSUME NEW e \in buf[w]
      PROVE  /\ e.id = i /\ e.task = call[w].task /\ e.by = call[w].user
             /\ e.field \in Changed(read[w], call[w].input)
             /\ e.old = OldValue(e.field, read[w].val[e.field])
             /\ e.new = call[w].input[e.field]
  <2>1. PICK f \in Changed(read[w], call[w].input) : e = Made(f)
    BY <1>1
  <2>. QED  BY <2>1
<1>. QED  BY <1>2, <1>3

\* A commit adds to the history of its task, one entry for each changed field.
LEMMA CommitEntries ==
    ASSUME AuditInv, NEW w \in Workers, CommitsTask(w), NEW i \in Nat, BufferHolds(w, i),
           NEW t \in Tasks, NEW f \in Fields
    PROVE  /\ t = call[w].task /\ f \in Changed(read[w], call[w].input) =>
                \E e \in history' :
                   /\ EntriesOf(t, f)' = EntriesOf(t, f) \cup {e}
                   /\ e.id = i /\ e.by = call[w].user
                   /\ e.old = OldValue(f, read[w].val[f]) /\ e.new = call[w].input[f]
                   /\ \A d \in EntriesOf(t, f) : d.id < i
           /\ ~(t = call[w].task /\ f \in Changed(read[w], call[w].input)) =>
                EntriesOf(t, f)' = EntriesOf(t, f)
<1>1. history' = history \cup buf[w]
  BY CommitFacts
<1>2. /\ \A e \in buf[w] :
            /\ e.id = i /\ e.task = call[w].task /\ e.by = call[w].user
            /\ e.field \in Changed(read[w], call[w].input)
            /\ e.old = OldValue(e.field, read[w].val[e.field])
            /\ e.new = call[w].input[e.field]
      /\ \A g \in Changed(read[w], call[w].input) : \E e \in buf[w] : e.field = g
  BY BufferEntries DEF BufferHolds
<1>3. ASSUME t = call[w].task, f \in Changed(read[w], call[w].input)
      PROVE  \E e \in history' :
                   /\ EntriesOf(t, f)' = EntriesOf(t, f) \cup {e}
                   /\ e.id = i /\ e.by = call[w].user
                   /\ e.old = OldValue(f, read[w].val[f]) /\ e.new = call[w].input[f]
                   /\ \A d \in EntriesOf(t, f) : d.id < i
  <2>1. PICK e \in buf[w] : e.field = f
    BY <1>2, <1>3
  <2>2. \A d \in buf[w] : d.field = f => d = e
    BY <2>1 DEF BufferHolds, buildHistoryEntries
  <2>3. EntriesOf(t, f)' = EntriesOf(t, f) \cup {e}
    BY <1>1, <1>2, <1>3, <2>1, <2>2 DEF EntriesOf
  <2>4. \A d \in EntriesOf(t, f) : d.id < i
    BY <1>3 DEF EntriesOf, BufferHolds
  <2>. QED  BY <1>1, <1>2, <2>1, <2>3, <2>4
<1>4. ASSUME ~(t = call[w].task /\ f \in Changed(read[w], call[w].input))
      PROVE  EntriesOf(t, f)' = EntriesOf(t, f)
  BY <1>1, <1>2, <1>4 DEF EntriesOf
<1>. QED  BY <1>3, <1>4

\* A commit keeps the audit trail of a task whose updates do not race.
LEMMA CommitKeepsTrail ==
    ASSUME AuditInv, NEW w \in Workers, CommitsTask(w)
    PROVE  AuditTrail'
<1>. USE DEF AuditInv
<1>0. PICK i \in Nat : BufferHolds(w, i)
  BY DEF TxOK, CommitsTask
<1>. SUFFICES ASSUME NEW t \in Tasks, NEW f \in Fields, tasks'[t] # Nil, ~raced'[t]
              PROVE  /\ \/ EntriesOf(t, f)' = {} /\ tasks'[t].val[f] = born'[t].val[f]
                        \/ \E e \in EntriesOf(t, f)' :
                              Latest(e, EntriesOf(t, f)') /\ tasks'[t].val[f] = e.new
                     /\ \A e \in EntriesOf(t, f)' :
                           LET before == {d \in EntriesOf(t, f)' : d.id < e.id} IN
                           \/ before = {} /\ e.old = OldValue(f, born'[t].val[f])
                           \/ \E d \in before : Latest(d, before) /\ e.old = d.new
  BY DEF AuditTrail, Latest, EntriesOf
<1>1. /\ call[w].task \in Tasks /\ call[w].input \in Input /\ read[w] \in Row
      /\ tasks[call[w].task] \in Row /\ born' = born
      /\ tasks' = [tasks EXCEPT ![call[w].task] = Applied(read[w], call[w].input)]
      /\ raced' = [raced EXCEPT ![call[w].task] = @ \/ read[w] # tasks[call[w].task]]
  BY CommitFacts
<1>2. tasks[t] # Nil /\ ~raced[t] /\ (t = call[w].task => read[w] = tasks[t])
  BY <1>1, NilIsNoValue DEF AccessInv, TypeInv, TypeOK
<1>3. /\ \/ EntriesOf(t, f) = {} /\ tasks[t].val[f] = born[t].val[f]
         \/ \E e \in EntriesOf(t, f) : Latest(e, EntriesOf(t, f)) /\ tasks[t].val[f] = e.new
      /\ \A e \in EntriesOf(t, f) :
            LET before == {d \in EntriesOf(t, f) : d.id < e.id} IN
            \/ before = {} /\ e.old = OldValue(f, born[t].val[f])
            \/ \E d \in before : Latest(d, before) /\ e.old = d.new
  BY <1>2 DEF AuditTrail
<1>4. CASE t = call[w].task /\ f \in Changed(read[w], call[w].input)
  <2>1. PICK e \in history' :
           /\ EntriesOf(t, f)' = EntriesOf(t, f) \cup {e}
           /\ e.id = i
           /\ e.old = OldValue(f, read[w].val[f]) /\ e.new = call[w].input[f]
           /\ \A d \in EntriesOf(t, f) : d.id < i
    BY <1>0, <1>4, CommitEntries
  <2>2. \A d \in EntriesOf(t, f) : d.id \in Nat /\ d.new \in Val
    BY DEF EntriesOf, AccessInv, TypeInv, TypeOK, Entry
  <2>3. tasks'[t].val[f] = e.new
    <3>1. tasks'[t] = Applied(read[w], call[w].input)
      BY <1>1, <1>4 DEF AccessInv, TypeInv, TypeOK
    <3>2. call[w].input[f] # Nil
      BY <1>4 DEF Changed
    <3>. QED  BY <1>1, <2>1, <3>1, <3>2, AppliedValue
  <2>4. Latest(e, EntriesOf(t, f)')
    BY <2>1, <2>2 DEF Latest
  <2>5. {d \in EntriesOf(t, f)' : d.id < e.id} = EntriesOf(t, f)
    BY <2>1, <2>2
  <2>6. \/ EntriesOf(t, f) = {} /\ e.old = OldValue(f, born[t].val[f])
        \/ \E d \in EntriesOf(t, f) : Latest(d, EntriesOf(t, f)) /\ e.old = d.new
    <3>1. e.old = OldValue(f, tasks[t].val[f])
      BY <1>2, <1>4, <2>1
    <3>2. CASE EntriesOf(t, f) = {} /\ tasks[t].val[f] = born[t].val[f]
      BY <3>1, <3>2
    <3>3. CASE \E d \in EntriesOf(t, f) : Latest(d, EntriesOf(t, f)) /\ tasks[t].val[f] = d.new
      <4>1. PICK d \in EntriesOf(t, f) : Latest(d, EntriesOf(t, f)) /\ tasks[t].val[f] = d.new
        BY <3>3
      <4>2. e.old = d.new
        BY <2>2, <3>1, <4>1, NilIsNoValue DEF OldValue
      <4>. QED  BY <4>1, <4>2
    <3>. QED  BY <1>3, <3>2, <3>3
  <2>7. ASSUME NEW c \in EntriesOf(t, f)
        PROVE  {d \in EntriesOf(t, f)' : d.id < c.id} = {d \in EntriesOf(t, f) : d.id < c.id}
    BY <2>1, <2>2
  <2>8. ASSUME NEW c \in EntriesOf(t, f)'
        PROVE  LET before == {d \in EntriesOf(t, f)' : d.id < c.id} IN
               \/ before = {} /\ c.old = OldValue(f, born'[t].val[f])
               \/ \E d \in before : Latest(d, before) /\ c.old = d.new
    <3>1. CASE c = e
      BY <1>1, <2>5, <2>6, <3>1
    <3>2. CASE c \in EntriesOf(t, f)
      BY <1>1, <1>3, <2>7, <3>2
    <3>. QED  BY <2>1, <3>1, <3>2
  <2>. QED  BY <2>1, <2>3, <2>4, <2>8
<1>5. CASE ~(t = call[w].task /\ f \in Changed(read[w], call[w].input))
  <2>1. EntriesOf(t, f)' = EntriesOf(t, f)
    BY <1>0, <1>5, CommitEntries
  <2>2. tasks'[t].val[f] = tasks[t].val[f]
    <3>1. CASE t = call[w].task
      <4>1. tasks'[t] = Applied(read[w], call[w].input)
        BY <1>1, <3>1 DEF AccessInv, TypeInv, TypeOK
      <4>2. call[w].input[f] \in {Nil, read[w].val[f]}
        BY <1>5, <3>1 DEF Changed
      <4>. QED  BY <1>1, <1>2, <3>1, <4>1, <4>2, AppliedValue
    <3>2. CASE t # call[w].task
      BY <1>1, <3>2 DEF AccessInv, TypeInv, TypeOK
    <3>. QED  BY <3>1, <3>2
  <2>. QED  BY <1>1, <1>3, <2>1, <2>2
<1>. QED  BY <1>4, <1>5

\* Every value a commit writes is explained, also one that overwrites a newer one.
LEMMA CommitExplains ==
    ASSUME AuditInv, NEW w \in Workers, CommitsTask(w)
    PROVE  NoValueWithoutEntry'
<1>. USE DEF AuditInv
<1>0. PICK i \in Nat : BufferHolds(w, i)
  BY DEF TxOK, CommitsTask
<1>. SUFFICES ASSUME NEW t \in Tasks, NEW f \in Fields, tasks'[t] # Nil
              PROVE  \/ tasks'[t].val[f] = born'[t].val[f]
                     \/ \E e \in EntriesOf(t, f)' : tasks'[t].val[f] = e.new
  BY DEF NoValueWithoutEntry, EntriesOf
<1>1. /\ call[w].task \in Tasks /\ call[w].input \in Input /\ read[w] \in Row
      /\ born' = born /\ history' = history \cup buf[w]
      /\ tasks' = [tasks EXCEPT ![call[w].task] = Applied(read[w], call[w].input)]
  BY CommitFacts
<1>2. EntriesOf(t, f) \subseteq EntriesOf(t, f)'
  BY <1>1 DEF EntriesOf
<1>3. CASE t = call[w].task
  <2>1. tasks'[t].val[f] = IF call[w].input[f] # Nil THEN call[w].input[f] ELSE read[w].val[f]
    BY <1>1, <1>3, AppliedValue DEF AccessInv, TypeInv, TypeOK
  <2>2. CASE f \in Changed(read[w], call[w].input)
    <3>1. \E e \in EntriesOf(t, f)' : e.new = call[w].input[f]
      BY <1>0, <1>3, <2>2, CommitEntries
    <3>. QED  BY <2>1, <2>2, <3>1 DEF Changed
  <2>3. CASE f \notin Changed(read[w], call[w].input)
    <3>1. tasks'[t].val[f] = read[w].val[f]
      BY <2>1, <2>3 DEF Changed
    <3>2. Explained(t, f, read[w].val[f])
      BY <1>1, <1>3, NilIsNoValue DEF SnapshotExplained
    <3>. QED  BY <1>1, <1>2, <3>1, <3>2 DEF Explained
  <2>. QED  BY <2>2, <2>3
<1>4. CASE t # call[w].task
  BY <1>1, <1>2, <1>4 DEF NoValueWithoutEntry, AccessInv, TypeInv, TypeOK
<1>. QED  BY <1>3, <1>4

\* A new task has no history, and its row is the initial one.
LEMMA SaveKeepsTrail ==
    ASSUME AuditInv, NEW w \in Workers, SavesTask(w)
    PROVE  AuditTrail' /\ NoValueWithoutEntry'
<1>. USE DEF AuditInv, AccessInv, TypeInv
<1>1. /\ call[w].task \in Tasks /\ tasks[call[w].task] = Nil /\ history' = history /\ raced' = raced
      /\ \E row : /\ tasks' = [tasks EXCEPT ![call[w].task] = row]
                  /\ born' = [born EXCEPT ![call[w].task] = row]
  BY DEF SavesTask, Insert, RequestOK, PhaseOf, Carries, AccessOK, FreshId
<1>2. ASSUME NEW t \in Tasks, NEW f \in Fields PROVE EntriesOf(t, f)' = EntriesOf(t, f)
  BY <1>1 DEF EntriesOf
<1>3. \A f \in Fields : EntriesOf(call[w].task, f) = {}
  BY <1>1 DEF EntriesOf, OnlyMembersWrite
<1>4. tasks'[call[w].task] = born'[call[w].task]
  BY <1>1 DEF TypeOK
<1>5. \A t \in Tasks : t # call[w].task => tasks'[t] = tasks[t] /\ born'[t] = born[t]
  BY <1>1 DEF TypeOK
<1>6. NoValueWithoutEntry'
  <2>. SUFFICES ASSUME NEW t \in Tasks, NEW f \in Fields, tasks'[t] # Nil
                PROVE  \/ tasks'[t].val[f] = born'[t].val[f]
                       \/ \E e \in EntriesOf(t, f)' : tasks'[t].val[f] = e.new
    BY DEF NoValueWithoutEntry, EntriesOf
  <2>. QED  BY <1>2, <1>4, <1>5 DEF NoValueWithoutEntry
<1>7. AuditTrail'
  <2>. SUFFICES ASSUME NEW t \in Tasks, NEW f \in Fields, tasks'[t] # Nil, ~raced'[t]
                PROVE  /\ \/ EntriesOf(t, f)' = {} /\ tasks'[t].val[f] = born'[t].val[f]
                          \/ \E e \in EntriesOf(t, f)' :
                                Latest(e, EntriesOf(t, f)') /\ tasks'[t].val[f] = e.new
                       /\ \A e \in EntriesOf(t, f)' :
                             LET before == {d \in EntriesOf(t, f)' : d.id < e.id} IN
                             \/ before = {} /\ e.old = OldValue(f, born'[t].val[f])
                             \/ \E d \in before : Latest(d, before) /\ e.old = d.new
    BY DEF AuditTrail, Latest, EntriesOf
  <2>1. CASE t = call[w].task
    BY <1>2, <1>3, <1>4, <2>1
  <2>2. CASE t # call[w].task
    <3>1. tasks'[t] = tasks[t] /\ born'[t] = born[t] /\ raced'[t] = raced[t]
          /\ EntriesOf(t, f)' = EntriesOf(t, f)
      BY <1>1, <1>2, <1>5, <2>2
    <3>2. tasks[t] # Nil /\ ~raced[t]
      BY <3>1
    <3>3. Tells(EntriesOf(t, f), tasks[t].val[f], born[t].val[f], f)
      BY <3>2 DEF AuditTrail, Tells
    <3>4. Tells(EntriesOf(t, f)', tasks'[t].val[f], born'[t].val[f], f)
      BY <3>1, <3>3
    <3>. QED  BY <3>4 DEF Tells
  <2>. QED  BY <2>1, <2>2
<1>. QED  BY <1>6, <1>7

LEMMA TablesKeepTrail ==
    ASSUME AuditInv, [Next]_vars
    PROVE  AuditTrail' /\ NoValueWithoutEntry'
<1>1. CASE UNCHANGED <<tasks, history, born, raced>>
  BY <1>1 DEF AuditInv, AuditTrail, NoValueWithoutEntry, EntriesOf
<1>. QED  BY <1>1, CommitKeepsTrail, CommitExplains, SaveKeepsTrail, TableChange
           DEF AuditInv, AccessInv

-----------------------------------------------------------------------------
(* Requests.                                                               *)

\* The history grows, and a row keeps the initial values it has.
LEMMA HistoryGrows ==
    ASSUME AuditInv, [Next]_vars
    PROVE  /\ history \subseteq history'
           /\ \A t \in Tasks : tasks[t] # Nil => born'[t] = born[t]
           /\ nextId' \in Nat /\ nextId <= nextId'
<1>. USE DEF AuditInv, AccessInv, TypeInv
<1>1. ASSUME NEW w \in Workers, SavesTask(w)
      PROVE  /\ history \subseteq history'
             /\ \A t \in Tasks : tasks[t] # Nil => born'[t] = born[t]
  BY <1>1 DEF SavesTask, Insert, RequestOK, PhaseOf, Carries, AccessOK, FreshId, TypeOK
<1>2. ASSUME NEW w \in Workers, CommitsTask(w)
      PROVE  /\ history \subseteq history'
             /\ \A t \in Tasks : tasks[t] # Nil => born'[t] = born[t]
  BY <1>2 DEF CommitsTask, CommitTx
<1>3. nextId' \in {nextId, nextId + 1}
  <2>1. ASSUME NEW w \in Workers, Arrive(w) PROVE nextId' = nextId
    BY <2>1 DEF Arrive, BeginCreate, BeginUpdate, BeginList, ListWithoutTeam, BeginHistory, Begin,
       tables
  <2>2. ASSUME NEW w \in Workers, Serve(w) \/ Fail(w) PROVE nextId' \in {nextId, nextId + 1}
    BY <2>2 DEF Serve, Fail, GetTaskByID, CheckCaller, CheckAssignee, SaveTask, Insert, UpdateRow,
       InsertHistory, Commit, CommitTx, Scan, Del, CacheGet, CountTasks, SelectTasks, CacheSet,
       ListHistory, StorageError, LostReply, CacheError, Respond, tables
  <2>3. CASE (\E k \in CacheKeys : Expire(k)) \/ (\E m \in Teams, u \in Users : Join(m, u))
             \/ Crash \/ UNCHANGED vars
    BY <2>3 DEF Expire, Join, Crash, vars, tables
  <2>. QED  BY <2>1, <2>2, <2>3 DEF Next
<1>4. nextId \in Nat
  BY DEF TypeOK
<1>. QED  BY <1>1, <1>2, <1>3, <1>4, TableChange

\* A request that another worker's step leaves alone keeps its part of the invariant.
LEMMA AuditFrame ==
    ASSUME AuditInv, [Next]_vars, NEW v \in Workers,
           pc'[v] = pc[v], call'[v] = call[v], read'[v] = read[v], buf'[v] = buf[v],
           code'[v] = code[v]
    PROVE  TxOK(v)' /\ SnapshotExplained(v)' /\ RecordedOK(v)'
<1>. USE DEF AuditInv, AccessInv, TypeInv
<1>1. TxOK(v)'
  <2>. SUFFICES ASSUME pc[v] = "commit" PROVE \E i \in Nat : BufferHolds(v, i)'
    BY DEF TxOK
  <2>1. PICK i \in Nat : BufferHolds(v, i)
    BY DEF TxOK
  <2>2. buildHistoryEntries(i, v)' = buildHistoryEntries(i, v)
    BY DEF buildHistoryEntries
  <2>3. ASSUME NEW e \in history', e.task = call[v].task PROVE e.id < i
    <3>1. CASE e \in history
      BY <2>1, <2>3, <3>1 DEF BufferHolds
    <3>2. CASE e \notin history
      <4>1. PICK w \in Workers : CommitsTask(w) /\ e \in buf[w]
        BY <3>2, TableChange DEF SavesTask, Insert, CommitsTask, CommitTx
      <4>2. e.task = call[w].task /\ pc[w] = "commit"
        BY <4>1 DEF AccessOK, BufferOK
      <4>3. w = v
        BY <2>3, <4>2 DEF TxHoldsLock, TxPhases
      <4>. QED  BY <4>1, <4>3 DEF CommitsTask
    <3>. QED  BY <3>1, <3>2
  <2>4. buf[v] # {} => i < nextId'
    BY <2>1, HistoryGrows DEF BufferHolds, TypeOK
  <2>. QED  BY <2>1, <2>2, <2>3, <2>4 DEF BufferHolds
<1>2. SnapshotExplained(v)'
  <2>. SUFFICES ASSUME read[v] # Nil, NEW f \in Fields
                PROVE  Explained(call[v].task, f, read[v].val[f])'
    BY DEF SnapshotExplained, Explained, EntriesOf
  <2>1. call[v].task \in Tasks /\ tasks[call[v].task] # Nil
    BY DEF AccessOK, SnapshotOK, RequestOK, Carries
  <2>2. Explained(call[v].task, f, read[v].val[f])
    BY DEF SnapshotExplained
  <2>. QED  BY <2>1, <2>2, HistoryGrows DEF Explained, EntriesOf
<1>3. RecordedOK(v)'
  BY HistoryGrows DEF RecordedOK, Recorded, Answered, EntriesOf
<1>. QED  BY <1>1, <1>2, <1>3

\* The step of a worker keeps its own part of the invariant.
LEMMA WorkerAuditStep ==
    ASSUME AuditInv, [Next]_vars, NEW w \in Workers, Arrive(w) \/ Serve(w) \/ Fail(w)
    PROVE  TxOK(w)' /\ SnapshotExplained(w)' /\ RecordedOK(w)'
<1>. USE DEF AuditInv, AccessInv, TypeInv
<1>1. TxOK(w)'
  <2>1. CASE InsertHistory(w)
    <3>1. /\ pc'[w] = "commit" /\ call' = call /\ read' = read /\ history' = history
          /\ buf'[w] = buildHistoryEntries(nextId, w)
          /\ nextId' = IF buf'[w] = {} THEN nextId ELSE nextId + 1
      BY <2>1 DEF InsertHistory, TypeOK, Goto
    <3>2. ASSUME NEW i, i = nextId PROVE buildHistoryEntries(i, w)' = buildHistoryEntries(i, w)
      BY <3>1 DEF buildHistoryEntries
    <3>3. PICK i \in Nat : i = nextId
      BY DEF TypeOK
    <3>4. BufferHolds(w, i)'
      BY <3>1, <3>2, <3>3 DEF BufferHolds, IdsBelowNext
    <3>. QED  BY <3>4 DEF TxOK
  <2>2. CASE ~InsertHistory(w)
    <3>1. pc'[w] # "commit"
      <4>1. CASE Arrive(w)
        BY <4>1 DEF TypeOK, Arrive, BeginCreate, BeginUpdate, BeginList, ListWithoutTeam,
           BeginHistory, Begin, Reply, Goto
      <4>2. CASE GetTaskByID(w) \/ CheckCaller(w) \/ CheckAssignee(w) \/ SaveTask(w) \/ UpdateRow(w)
                 \/ Commit(w)
        BY <4>2 DEF TypeOK, GetTaskByID, CheckCaller, NextAfterRole, WriteOf, CheckAssignee, SaveTask,
           UpdateRow, Commit, Reply, Goto
      <4>3. CASE Scan(w) \/ Del(w) \/ Respond(w) \/ StorageError(w) \/ LostReply(w) \/ CacheError(w)
        BY <4>3 DEF TypeOK, Scan, Del, AfterScan, Respond, StorageError, LostReply, CacheError,
           Reply, Goto
      <4>4. CASE CacheGet(w) \/ CountTasks(w) \/ SelectTasks(w) \/ CacheSet(w) \/ ListHistory(w)
        BY <4>4 DEF TypeOK, CacheGet, CountTasks, SelectTasks, CacheSet, ListHistory, Reply, Goto
      <4>. QED  BY <2>2, <4>1, <4>2, <4>3, <4>4 DEF Serve, Fail
    <3>. QED  BY <3>1 DEF TxOK
  <2>. QED  BY <2>1, <2>2
<1>2. SnapshotExplained(w)'
  <2>1. CASE GetTaskByID(w)
    <3>1. /\ call' = call /\ tasks' = tasks /\ born' = born /\ history' = history
          /\ call[w].task \in Tasks
          /\ read'[w] = read[w] \/ (tasks[call[w].task] # Nil /\ read'[w] = tasks[call[w].task])
      BY <2>1 DEF GetTaskByID, TypeOK, tables, RequestOK, PhaseOf, Carries
    <3>2. CASE read'[w] = read[w]
      BY <3>1, <3>2 DEF SnapshotExplained, Explained, EntriesOf
    <3>3. CASE tasks[call[w].task] # Nil /\ read'[w] = tasks[call[w].task]
      BY <3>1, <3>3 DEF SnapshotExplained, Explained, EntriesOf, NoValueWithoutEntry
    <3>. QED  BY <3>1, <3>2, <3>3
  <2>2. CASE Arrive(w) \/ Respond(w)
    <3>1. read'[w] = Nil
      <4>1. CASE Arrive(w)
        <5>1. pc[w] = "idle" /\ read' = read
          BY <4>1 DEF Arrive, BeginCreate, BeginUpdate, BeginList, ListWithoutTeam, BeginHistory, Begin
        <5>. QED  BY <5>1 DEF RequestOK, PhaseOf, AccessOK, SnapshotOK
      <4>2. CASE Respond(w)
        BY <4>2 DEF Respond, TypeOK
      <4>. QED  BY <2>2, <4>1, <4>2
    <3>. QED  BY <3>1 DEF SnapshotExplained
  <2>3. CASE call' = call /\ read' = read
    <3>. SUFFICES ASSUME read[w] # Nil, NEW f \in Fields
                  PROVE  Explained(call[w].task, f, read[w].val[f])'
      BY <2>3 DEF SnapshotExplained, Explained, EntriesOf
    <3>1. call[w].task \in Tasks /\ tasks[call[w].task] # Nil
      BY DEF AccessOK, SnapshotOK, RequestOK, Carries
    <3>2. Explained(call[w].task, f, read[w].val[f])
      BY DEF SnapshotExplained
    <3>. QED  BY <2>3, <3>1, <3>2, HistoryGrows DEF Explained, EntriesOf
  <2>. QED
    BY <2>1, <2>2, <2>3 DEF Serve, Fail, CheckCaller, CheckAssignee, SaveTask, UpdateRow, InsertHistory,
       Commit, Scan, Del, CacheGet, CountTasks, SelectTasks, CacheSet, ListHistory,
       StorageError, LostReply, CacheError, locals
<1>3. RecordedOK(w)'
  <2>1. CASE Commit(w)
    <3>1. CommitsTask(w) /\ call' = call /\ read' = read
      BY <2>1 DEF Commit, CommitsTask, TypeOK, Goto
    <3>2. PICK i \in Nat : BufferHolds(w, i)
      BY <3>1 DEF TxOK, CommitsTask
    <3>3. call[w].task \in Tasks
      BY <3>1, CommitFacts
    <3>4. ASSUME NEW f \in Fields, call[w].input[f] \notin {Nil, read[w].val[f]}
          PROVE  \E e \in EntriesOf(call[w].task, f)' :
                    /\ e.by = call[w].user /\ e.new = call[w].input[f]
                    /\ e.old = OldValue(f, read[w].val[f])
      <4>1. f \in Changed(read[w], call[w].input)
        BY <3>4 DEF Changed
      <4>. QED  BY <3>1, <3>2, <3>3, <4>1, CommitEntries
    <3>. QED  BY <3>1, <3>4 DEF RecordedOK, Recorded, EntriesOf
  <2>2. CASE pc[w] \in {"scan", "del"} /\ call' = call /\ read' = read
    BY <2>2, HistoryGrows DEF RecordedOK, Recorded, EntriesOf
  <2>3. CASE Arrive(w) \/ Respond(w)
    <3>1. ~(pc'[w] \in {"scan", "del"}) /\ ~(pc'[w] = "done" /\ code'[w] = "ok")
      BY <2>3 DEF TypeOK, Arrive, BeginCreate, BeginUpdate, BeginList, ListWithoutTeam,
         BeginHistory, Begin, Respond, Reply, Goto
    <3>. QED  BY <3>1 DEF RecordedOK, Answered
  <2>4. CASE \/ GetTaskByID(w) \/ CheckCaller(w) \/ CheckAssignee(w) \/ UpdateRow(w)
             \/ InsertHistory(w) \/ CountTasks(w) \/ SelectTasks(w) \/ StorageError(w) \/ LostReply(w)
    <3>1. ~(pc'[w] \in {"scan", "del"}) /\ ~(pc'[w] = "done" /\ code'[w] = "ok")
      BY <2>4 DEF TypeOK, GetTaskByID, CheckCaller, NextAfterRole, WriteOf, CheckAssignee, UpdateRow,
         InsertHistory, CountTasks, SelectTasks, StorageError, LostReply, Reply, Goto
    <3>. QED  BY <3>1 DEF RecordedOK, Answered
  <2>5. CASE SaveTask(w) \/ CacheGet(w) \/ CacheSet(w) \/ ListHistory(w)
    <3>1. call[w].op # "update" /\ call' = call
      BY <2>5 DEF SaveTask, CacheGet, CacheSet, ListHistory, RequestOK, PhaseOf
    <3>. QED  BY <3>1 DEF RecordedOK, Answered
  <2>6. CASE Scan(w) \/ Del(w)
    BY <2>2, <2>6 DEF Scan, Del
  <2>7. CASE CacheError(w)
    <3>1. pc[w] \in {"scan", "del"} \/ call[w].op # "update"
      BY <2>7 DEF CacheError, RequestOK, PhaseOf
    <3>2. call' = call /\ read' = read
      BY <2>7 DEF CacheError
    <3>. QED  BY <2>2, <3>1, <3>2 DEF RecordedOK, Answered
  <2>. QED  BY <2>1, <2>3, <2>4, <2>5, <2>6, <2>7 DEF Serve, Fail
<1>. QED  BY <1>1, <1>2, <1>3

LEMMA RequestsKeepAudit ==
    ASSUME AuditInv, [Next]_vars, NEW v \in Workers
    PROVE  TxOK(v)' /\ SnapshotExplained(v)' /\ RecordedOK(v)'
<1>. USE DEF AuditInv, AccessInv
<1>1. CASE UNCHANGED <<pc, call, read, buf, code>>
  BY <1>1, AuditFrame
<1>2. ASSUME NEW w \in Workers, Arrive(w) \/ Serve(w) \/ Fail(w)
      PROVE  TxOK(v)' /\ SnapshotExplained(v)' /\ RecordedOK(v)'
  <2>1. CASE v = w
    BY <1>2, <2>1, WorkerAuditStep
  <2>2. CASE v # w
    <3>1. /\ pc'[v] = pc[v] /\ call'[v] = call[v] /\ read'[v] = read[v]
          /\ buf'[v] = buf[v] /\ code'[v] = code[v]
      BY <1>2, <2>2, OthersUntouched DEF TypeInv
    <3>. QED  BY <3>1, AuditFrame
  <2>. QED  BY <2>1, <2>2
<1>3. CASE Crash
  <2>1. pc'[v] = "idle" /\ read'[v] = Nil
    BY <1>3 DEF Crash
  <2>. QED  BY <2>1 DEF TxOK, SnapshotExplained, RecordedOK, Answered
<1>4. CASE (\E k \in CacheKeys : Expire(k)) \/ (\E m \in Teams, u \in Users : Join(m, u))
           \/ UNCHANGED vars
  BY <1>1, <1>4 DEF Expire, Join, vars, locals
<1>. QED  BY <1>2, <1>3, <1>4 DEF Next

-----------------------------------------------------------------------------
(* Row locks and batch ids.                                                *)

\* A step of a worker opens a transaction, ends its own, or leaves the locks alone.
LEMMA LockSteps ==
    ASSUME TypeInv, NEW w \in Workers, Arrive(w) \/ Serve(w) \/ Fail(w)
    PROVE  \/ UpdateRow(w) \/ InsertHistory(w) \/ StorageError(w)
           \/ pc[w] = "commit" /\ CommitTx(w) /\ call' = call /\ pc'[w] \notin TxPhases
           \/ lock' = lock /\ pc'[w] \notin TxPhases
<1>. USE DEF TypeInv, TxPhases
<1>1. CASE Arrive(w)
  BY <1>1 DEF TypeOK, Arrive, BeginCreate, BeginUpdate, BeginList, ListWithoutTeam,
     BeginHistory, Begin, Reply, Goto
<1>2. CASE GetTaskByID(w) \/ CheckCaller(w) \/ CheckAssignee(w) \/ SaveTask(w)
  BY <1>2 DEF TypeOK, GetTaskByID, CheckCaller, NextAfterRole, WriteOf, CheckAssignee, SaveTask,
     Reply, Goto
<1>3. CASE Commit(w) \/ LostReply(w)
  BY <1>3 DEF TypeOK, Commit, LostReply, Reply, Goto
<1>4. CASE Scan(w) \/ Del(w) \/ Respond(w) \/ CacheError(w)
  BY <1>4 DEF TypeOK, Scan, Del, AfterScan, Respond, CacheError, Reply, Goto
<1>5. CASE CacheGet(w) \/ CountTasks(w) \/ SelectTasks(w) \/ CacheSet(w) \/ ListHistory(w)
  BY <1>5 DEF TypeOK, CacheGet, CountTasks, SelectTasks, CacheSet, ListHistory, Reply, Goto
<1>. QED  BY <1>1, <1>2, <1>3, <1>4, <1>5 DEF Serve, Fail

LEMMA LocksAreHeld == ASSUME AuditInv, [Next]_vars PROVE TxHoldsLock'
<1>. USE DEF AuditInv, AccessInv, TypeInv
<1>1. CASE UNCHANGED <<pc, call, lock>>
  BY <1>1 DEF TxHoldsLock
<1>2. ASSUME NEW w \in Workers, Arrive(w) \/ Serve(w) \/ Fail(w) PROVE TxHoldsLock'
  <2>1. \A v \in Workers : v # w => pc'[v] = pc[v] /\ call'[v] = call[v]
    BY <1>2, OthersUntouched
  <2>2. \A v \in Workers : pc[v] \in TxPhases => call[v].task \in Tasks /\ lock[call[v].task] = v
    BY DEF TxHoldsLock, TxPhases, RequestOK, PhaseOf, Carries
  <2>3. CASE UpdateRow(w)
    <3>1. /\ lock[call[w].task] = Nil /\ call' = call
          /\ lock' = [lock EXCEPT ![call[w].task] = w]
      BY <2>3 DEF UpdateRow, locals
    <3>2. call[w].task \in Tasks
      BY <2>3 DEF UpdateRow, RequestOK, PhaseOf, Carries
    <3>3. lock'[call[w].task] = w
      BY <3>1, <3>2 DEF TypeOK
    <3>4. ASSUME NEW v \in Workers, v # w, pc[v] \in TxPhases PROVE lock'[call[v].task] = v
      BY <2>2, <3>1, <3>4, NilIsNoValue DEF TypeOK
    <3>. QED  BY <2>1, <3>1, <3>3, <3>4 DEF TxHoldsLock
  <2>4. CASE InsertHistory(w)
    BY <2>1, <2>2, <2>4 DEF InsertHistory, TxHoldsLock, TxPhases
  <2>5. CASE StorageError(w)
    <3>1. /\ pc'[w] = "done"
          /\ lock' = [t \in Tasks |-> IF lock[t] = w THEN Nil ELSE lock[t]]
      BY <2>5 DEF StorageError, Rollback, Reply, Goto, TypeOK
    <3>. QED  BY <2>1, <2>2, <3>1 DEF TxHoldsLock, TxPhases
  <2>6. CASE pc[w] = "commit" /\ CommitTx(w) /\ call' = call /\ pc'[w] \notin TxPhases
    <3>1. lock[call[w].task] = w /\ lock' = [lock EXCEPT ![call[w].task] = Nil]
      BY <2>2, <2>6 DEF CommitTx, TxPhases
    <3>. QED  BY <2>1, <2>2, <2>6, <3>1 DEF TxHoldsLock, TypeOK
  <2>7. CASE lock' = lock /\ pc'[w] \notin TxPhases
    BY <2>1, <2>2, <2>7 DEF TxHoldsLock
  <2>. QED  BY <1>2, <2>3, <2>4, <2>5, <2>6, <2>7, LockSteps
<1>3. CASE Crash
  BY <1>3 DEF Crash, TxHoldsLock, TxPhases
<1>4. CASE (\E k \in CacheKeys : Expire(k)) \/ (\E m \in Teams, u \in Users : Join(m, u))
           \/ UNCHANGED vars
  BY <1>1, <1>4 DEF Expire, Join, vars, locals
<1>. QED  BY <1>2, <1>3, <1>4 DEF Next

LEMMA IdsStayBelow == ASSUME AuditInv, [Next]_vars PROVE IdsBelowNext'
<1>. USE DEF AuditInv, AccessInv, TypeInv
<1>1. \A e \in history : e.id \in Nat /\ e.id < nextId
  BY DEF TypeOK, Entry, IdsBelowNext
<1>2. CASE history' = history
  BY <1>1, <1>2, HistoryGrows DEF IdsBelowNext, TypeOK
<1>3. ASSUME NEW w \in Workers, CommitsTask(w) PROVE IdsBelowNext'
  <2>1. PICK i \in Nat : BufferHolds(w, i)
    BY <1>3 DEF TxOK, CommitsTask
  <2>2. \A e \in buf[w] : e.id = i /\ i < nextId
    BY <2>1, BufferEntries DEF BufferHolds
  <2>3. history' = history \cup buf[w] /\ nextId' = nextId
    BY <1>3, CommitFacts
  <2>. QED  BY <1>1, <2>2, <2>3 DEF IdsBelowNext
<1>. QED  BY <1>2, <1>3, TableChange DEF SavesTask, Insert

-----------------------------------------------------------------------------
(* The theorems.                                                           *)

LEMMA AuditInit == Init => AuditInv
<1>. SUFFICES ASSUME Init PROVE AuditInv
  OBVIOUS
<1>1. \A w \in Workers : TxOK(w) /\ SnapshotExplained(w) /\ RecordedOK(w)
  BY DEF Init, TxOK, SnapshotExplained, RecordedOK, Answered
<1>2. TxHoldsLock /\ IdsBelowNext
  BY DEF Init, TxHoldsLock, TxPhases, IdsBelowNext
<1>3. NoValueWithoutEntry /\ AuditTrail
  BY DEF Init, NoValueWithoutEntry, AuditTrail
<1>. QED  BY <1>1, <1>2, <1>3, AccessInit DEF AuditInv

LEMMA AuditStep == AuditInv /\ [Next]_vars => AuditInv'
<1>. SUFFICES ASSUME AuditInv, [Next]_vars PROVE AuditInv'
  OBVIOUS
<1>1. AccessInv'
  BY AccessStep DEF AuditInv
<1>. QED  BY <1>1, LocksAreHeld, IdsStayBelow, RequestsKeepAudit, TablesKeepTrail DEF AuditInv

LEMMA AuditInvariant == Spec => []AuditInv
BY AuditInit, AuditStep, PTL DEF Spec

\* The history of a task whose updates did not race tells all of its life, for
\* any number of workers, fields, values and updates, and whatever calls fail.
THEOREM HistoryTellsTheRow == Spec => []AuditTrail
<1>1. AuditInv => AuditTrail
  BY DEF AuditInv
<1>. QED  BY <1>1, AuditInvariant, PTL

\* No row holds a value that is neither the initial one nor in the history, also
\* when an update writes back what it read before another one committed.
THEOREM ValuesAreExplained == Spec => []NoValueWithoutEntry
<1>1. AuditInv => NoValueWithoutEntry
  BY DEF AuditInv
<1>. QED  BY <1>1, AuditInvariant, PTL

\* An update that was answered 200 is in the history, entry by entry.
THEOREM AckedUpdatesAreAudited == Spec => []AckedUpdateAudited
<1>1. AuditInv => AckedUpdateAudited
  BY DEF AuditInv, RecordedOK, Recorded, AckedUpdateAudited, Answered
<1>. QED  BY <1>1, AuditInvariant, PTL

\* A step adds to the history only what it puts in the row, and removes nothing.
THEOREM HistoryIsWrittenWithTheRow == Spec => HistoryWithRow
<1>. DEFINE Together == /\ history \subseteq history'
                        /\ \A e \in history' \ history : tasks'[e.task].val[e.field] = e.new
<1>1. ASSUME AuditInv, [Next]_vars PROVE Together
  <2>1. CASE history' = history
    BY <2>1
  <2>2. ASSUME NEW w \in Workers, CommitsTask(w) PROVE Together
    <3>1. PICK i \in Nat : BufferHolds(w, i)
      BY <1>1, <2>2 DEF AuditInv, TxOK, CommitsTask
    <3>2. /\ call[w].task \in Tasks /\ call[w].input \in Input /\ read[w] \in Row
          /\ tasks' = [tasks EXCEPT ![call[w].task] = Applied(read[w], call[w].input)]
          /\ history' = history \cup buf[w]
      BY <1>1, <2>2, CommitFacts
    <3>3. \A e \in buf[w] : /\ e.task = call[w].task
                            /\ e.field \in Changed(read[w], call[w].input)
                            /\ e.new = call[w].input[e.field]
      BY <3>1, BufferEntries DEF BufferHolds
    <3>4. tasks'[call[w].task] = Applied(read[w], call[w].input)
      BY <1>1, <3>2 DEF AuditInv, AccessInv, TypeInv, TypeOK
    <3>5. ASSUME NEW e \in buf[w] PROVE tasks'[e.task].val[e.field] = e.new
      <4>1. e.field \in Fields /\ call[w].input[e.field] # Nil
        BY <3>3 DEF Changed
      <4>. QED  BY <3>2, <3>3, <3>4, <4>1, AppliedValue
    <3>. QED  BY <3>2, <3>5
  <2>. QED  BY <1>1, <2>1, <2>2, TableChange DEF AuditInv, AccessInv, SavesTask, Insert
<1>2. AuditInv /\ [Next]_vars => [Together]_vars
  BY <1>1
<1>. QED  BY <1>2, AuditInvariant, PTL DEF Spec, HistoryWithRow

=============================================================================
