--------------------------- MODULE CommentProofs ---------------------------
(***************************************************************************)
(* Proofs about comments: the inductive invariant of CommentService, and   *)
(* from it every property the module states. The team service enters only  *)
(* through the steps of Membership.                                        *)
(***************************************************************************)
EXTENDS CommentService, FiniteSetTheorems, TLAPS

-----------------------------------------------------------------------------
(* The inductive invariant.                                                *)

Rows == [task : Tasks, user : Users, created : 1..MaxTime, after : SUBSET (1..MaxComments)]

\* The tables: only a team that exists has members, the sender of a comment is a member
\* of the team of its task, and a comment is younger than those its author could see.
TablesOK ==
    /\ comments \in Seq(Rows)
    /\ \A m \in Teams : founder[m] = Nil => members[m] = {}
    /\ \A i \in 1..Len(comments) :
          /\ taskTeam[comments[i].task] \in Teams
          /\ comments[i].user \in members[taskTeam[comments[i].task]]
          /\ comments[i].created <= clock
          /\ \A k \in comments[i].after :
                k \in 1..Len(comments) /\ comments[k].created <= comments[i].created

InsertPhases == {"insert", "insert_row"}

\* What the phases of a request stand for. Membership and the team of a task that were
\* read stay true until the row is written.
RequestOK(w) ==
    /\ pc[w] = "idle" => call[w] = NoCall
    /\ pc[w] \notin {"idle", "done"} => /\ call[w].op # "none"
                                        /\ call[w].user \in Users /\ call[w].task \in Tasks
    /\ pc[w] \notin {"idle", "done", "get_task"} => taskTeam[call[w].task] \in Teams
    /\ pc[w] \in InsertPhases =>
          call[w].op = "add" /\ call[w].user \in members[taskTeam[call[w].task]]
    /\ pc[w] = "select" => call[w].op = "list"
    /\ pc[w] = "insert_row" => /\ stamp[w] \in 1..clock
                               /\ \A k \in known[w] : comments[k].created <= stamp[w]
    /\ known[w] \subseteq 1..Len(comments)

\* What an answer stands for.
AnswerOK(w) ==
    /\ listed[w] \in Seq(1..Len(comments)) /\ InOrder(listed[w])
    /\ Ok(w, "add") => added[w].id \in 1..Len(comments) /\ comments[added[w].id] = Row(w)
    /\ Ok(w, "list") =>
          /\ \A i \in DOMAIN listed[w] : comments[listed[w][i]].task = call[w].task
          /\ \A k \in known[w] : comments[k].task = call[w].task =>
                \E i \in DOMAIN listed[w] : listed[w][i] = k
          /\ IsInjective(listed[w])

\* Room is kept for the comments under way.
RoomOK == IsFiniteSet(Pending) /\ Len(comments) + Cardinality(Pending) <= MaxComments

Phases   == {"idle", "get_task", "role", "insert", "insert_row", "select", "done"}
Requests == [op : {"none", "add", "list"}, user : Users \cup {Nil}, task : Tasks \cup {Nil}]
Codes    == {"none", "ok", "forbidden", "not_found", "error"}
Answers  == [id : 0..MaxComments, task : Tasks \cup {Nil}, user : Users \cup {Nil},
             created : 0..MaxTime]

\* The types of the variables other than comments, of which TablesOK speaks.
Types ==
    /\ founder \in [Teams -> Users \cup {Nil}] /\ members \in [Teams -> SUBSET Users]
    /\ taskTeam \in [Tasks -> Teams \cup {Nil}] /\ clock \in 1..MaxTime
    /\ pc \in [Workers -> Phases] /\ call \in [Workers -> Requests] /\ code \in [Workers -> Codes]
    /\ stamp \in [Workers -> 0..MaxTime] /\ added \in [Workers -> Answers]
    /\ listed \in [Workers -> Seq(Nat)] /\ known \in [Workers -> SUBSET (1..MaxComments)]

CommentInv ==
    /\ Types /\ TablesOK /\ RoomOK
    /\ \A w \in Workers : RequestOK(w) /\ AnswerOK(w)

-----------------------------------------------------------------------------
(* What steps do to the tables.                                            *)

\* Members, tasks and comments are only added, and the clock does not go back.
Grows ==
    /\ \A m \in Teams : members[m] \subseteq members'[m]
    /\ \A t \in Tasks : taskTeam[t] \in Teams => taskTeam'[t] = taskTeam[t]
    /\ clock' \in 1..MaxTime /\ clock <= clock'
    /\ Len(comments) <= Len(comments')
    /\ \A i \in 1..Len(comments) : comments'[i] = comments[i]

\* The fields of a row of the table.
LEMMA RowFields ==
    ASSUME comments \in Seq(Rows), NEW i \in 1..Len(comments)
    PROVE  comments[i] \in Rows /\ comments[i].task \in Tasks /\ comments[i].created \in 1..MaxTime
<1>1. comments[i] \in Rows
  OBVIOUS
<1>. QED  BY <1>1 DEF Rows

\* The row of a comment is written.
Writes(w) ==
    /\ pc[w] = "insert_row" /\ pc' = [pc EXCEPT ![w] = "done"]
    /\ comments' = Append(comments, Row(w))
    /\ UNCHANGED <<environment, call, stamp, listed, known>>

\* The row to be written.
LEMMA RowToWrite ==
    ASSUME CommentInv, NEW w \in Workers, pc[w] = "insert_row"
    PROVE  /\ Row(w) \in Rows /\ taskTeam[Row(w).task] \in Teams
           /\ Row(w).user \in members[taskTeam[Row(w).task]] /\ Row(w).created <= clock
           /\ \A k \in Row(w).after :
                 k \in 1..Len(comments) /\ comments[k].created <= Row(w).created
<1>1. /\ RequestOK(w) /\ known[w] \in SUBSET (1..MaxComments) /\ clock \in 1..MaxTime
      /\ stamp[w] \in 0..MaxTime
  BY DEF CommentInv, Types
<1>2. /\ call[w].user \in Users /\ call[w].task \in Tasks /\ taskTeam[call[w].task] \in Teams
      /\ call[w].user \in members[taskTeam[call[w].task]]
      /\ stamp[w] \in 1..clock /\ \A k \in known[w] : comments[k].created <= stamp[w]
      /\ known[w] \subseteq 1..Len(comments)
  BY <1>1 DEF RequestOK, InsertPhases
<1>3. stamp[w] \in 1..MaxTime /\ stamp[w] <= clock
  BY <1>1, <1>2
<1>. QED  BY <1>1, <1>2, <1>3 DEF Row, Rows

\* One more comment is room for one less that is under way.
LEMMA WriteRoom ==
    ASSUME CommentInv, NEW w \in Workers, Writes(w)
    PROVE  RoomOK'
<1>1. w \in Pending /\ Pending' = Pending \ {w}
  BY DEF CommentInv, Types, RequestOK, InsertPhases, Pending, Writes
<1>2. Len(comments') = Len(comments) + 1 /\ Len(comments) \in Nat
  BY RowToWrite DEF CommentInv, TablesOK, Writes
<1>3. IsFiniteSet(Pending) /\ Len(comments) + Cardinality(Pending) <= MaxComments
  BY DEF CommentInv, RoomOK
<1>4. Cardinality(Pending) \in Nat
  BY <1>3, FS_CardinalityType
<1>5. IsFiniteSet(Pending \ {w}) /\ Cardinality(Pending \ {w}) = Cardinality(Pending) - 1
  BY <1>1, <1>3, FS_RemoveElement
<1>6. IsFiniteSet(Pending') /\ Cardinality(Pending') = Cardinality(Pending) - 1
  BY <1>1, <1>5
<1>7. Len(comments') + Cardinality(Pending') <= MaxComments
  BY <1>2, <1>3, <1>4, <1>6, CommentConstants
<1>. QED  BY <1>6, <1>7 DEF RoomOK

LEMMA WriteTables ==
    ASSUME CommentInv, NEW w \in Workers, Writes(w)
    PROVE  /\ Grows /\ TablesOK' /\ Len(comments') = Len(comments) + 1
           /\ comments'[Len(comments) + 1] = Row(w)
<1>1. /\ comments \in Seq(Rows) /\ Row(w) \in Rows /\ comments' = Append(comments, Row(w))
      /\ UNCHANGED <<founder, members, taskTeam, clock>> /\ clock \in 1..MaxTime
  BY RowToWrite DEF CommentInv, Types, TablesOK, Writes, environment
<1>2. /\ comments' \in Seq(Rows) /\ Len(comments') = Len(comments) + 1 /\ Len(comments) \in Nat
      /\ comments'[Len(comments) + 1] = Row(w)
      /\ \A i \in 1..Len(comments) : comments'[i] = comments[i]
  BY <1>1
<1>3. Grows
  BY <1>1, <1>2 DEF Grows
<1>4. ASSUME NEW i \in 1..Len(comments')
      PROVE  /\ taskTeam[comments'[i].task] \in Teams
             /\ comments'[i].user \in members[taskTeam[comments'[i].task]]
             /\ comments'[i].created <= clock
             /\ \A k \in comments'[i].after :
                   k \in 1..Len(comments') /\ comments'[k].created <= comments'[i].created
  <2>1. CASE i \in 1..Len(comments)
    BY <1>2, <2>1 DEF CommentInv, TablesOK
  <2>2. CASE i = Len(comments) + 1
    BY <1>2, <2>2, RowToWrite DEF Writes
  <2>. QED  BY <1>2, <2>1, <2>2
<1>5. TablesOK'
  BY <1>1, <1>2, <1>4 DEF CommentInv, TablesOK
<1>. QED  BY <1>2, <1>3, <1>5

\* A sequence of elements of S is one of the elements of every larger set.
LEMMA WiderSeq ==
    ASSUME NEW S, NEW T, S \subseteq T, NEW s \in Seq(S)
    PROVE  s \in Seq(T) /\ \A i \in DOMAIN s : s[i] \in S
OBVIOUS

\* Nothing that is known of a request, or was answered, is lost while the tables grow.
LEMMA OthersKeep ==
    ASSUME CommentInv, Grows, NEW v \in Workers,
           /\ pc'[v] = pc[v] /\ call'[v] = call[v] /\ code'[v] = code[v] /\ stamp'[v] = stamp[v]
           /\ added'[v] = added[v] /\ listed'[v] = listed[v] /\ known'[v] = known[v]
    PROVE  RequestOK(v)' /\ AnswerOK(v)'
<1>1. /\ RequestOK(v) /\ AnswerOK(v) /\ Types /\ Len(comments) \in Nat /\ clock \in Int
  BY DEF CommentInv, TablesOK, Types
<1>2. Len(comments') \in Nat /\ 1..Len(comments) \subseteq 1..Len(comments')
  BY <1>1 DEF Grows
<1>3. RequestOK(v)'
  <2>1. call[v].task \in Tasks /\ taskTeam[call[v].task] \in Teams =>
            /\ taskTeam'[call[v].task] = taskTeam[call[v].task]
            /\ members[taskTeam[call[v].task]] \subseteq members'[taskTeam[call[v].task]]
    BY DEF Grows
  <2>2. stamp[v] \in 1..clock => stamp[v] \in 1..clock'
    BY <1>1 DEF Grows
  <2>3. \A k \in known[v] : comments'[k] = comments[k]
    BY <1>1 DEF Grows, RequestOK
  <2>. QED  BY <1>1, <1>2, <2>1, <2>2, <2>3 DEF RequestOK, InsertPhases
<1>4. AnswerOK(v)'
  <2>1. /\ listed[v] \in Seq(1..Len(comments'))
        /\ \A i \in DOMAIN listed[v] : listed[v][i] \in 1..Len(comments)
    <3>1. listed[v] \in Seq(1..Len(comments))
      BY <1>1 DEF AnswerOK
    <3>. QED  BY <1>2, <3>1, WiderSeq
  <2>2. \A i \in DOMAIN listed[v] : comments'[listed[v][i]] = comments[listed[v][i]]
    BY <2>1 DEF Grows
  <2>3. InOrder(listed[v])'
    <3>1. InOrder(listed[v])
      BY <1>1 DEF AnswerOK
    <3>. QED  BY <2>2, <3>1 DEF InOrder
  <2>4. Row(v)' = Row(v) /\ \A op : Ok(v, op)' <=> Ok(v, op)
    BY DEF Row, Ok
  <2>5. \A k \in known[v] : comments'[k] = comments[k]
    BY <1>1 DEF Grows, RequestOK
  <2>6. Ok(v, "add")' => added'[v].id \in 1..Len(comments') /\ comments'[added'[v].id] = Row(v)'
    BY <1>1, <1>2, <2>4 DEF AnswerOK, Grows
  <2>7. Ok(v, "list")' =>
            /\ \A i \in DOMAIN listed'[v] : comments'[listed'[v][i]].task = call'[v].task
            /\ \A k \in known'[v] : comments'[k].task = call'[v].task =>
                  \E i \in DOMAIN listed'[v] : listed'[v][i] = k
            /\ IsInjective(listed'[v])
    BY <1>1, <2>2, <2>4, <2>5 DEF AnswerOK
  <2>. QED  BY <2>1, <2>3, <2>6, <2>7 DEF AnswerOK
<1>. QED  BY <1>3, <1>4

-----------------------------------------------------------------------------
(* One request, action by action.                                          *)

\* A sequence that SetToSeqs makes of a finite set has each element once.
LEMMA EachOnce ==
    ASSUME NEW S, IsFiniteSet(S), NEW s \in SetToSeqs(S)
    PROVE  /\ s \in Seq(S) /\ IsInjective(s)
           /\ \A x \in S : \E i \in DOMAIN s : s[i] = x
<1>. DEFINE D == 1..Cardinality(S)
<1>1. Cardinality(S) \in Nat
  BY FS_CardinalityType
<1>2. s \in [D -> S] /\ \A i, j \in D : i # j => s[i] # s[j]
  BY DEF SetToSeqs
<1>3. s \in Seq(S) /\ IsInjective(s)
  BY <1>1, <1>2 DEF IsInjective
<1>4. s \in Injection(D, S)
  BY <1>2, <1>3 DEF Injection
<1>5. Cardinality(D) = Cardinality(S)
  BY <1>1, FS_Interval
<1>6. s \in Surjection(D, S)
  BY <1>4, <1>5, FS_Injection
<1>7. \A x \in S : \E i \in D : s[i] = x
  BY <1>6 DEF Surjection
<1>8. DOMAIN s = D
  BY <1>2
<1>. HIDE DEF D
<1>. QED  BY <1>3, <1>7, <1>8

\* A step that writes no comment and starts no Add.
LEMMA QuietRoom ==
    ASSUME CommentInv, comments' = comments, Pending' \subseteq Pending
    PROVE  RoomOK'
<1>1. /\ IsFiniteSet(Pending) /\ Len(comments) + Cardinality(Pending) <= MaxComments
      /\ Len(comments) \in Nat
  BY DEF CommentInv, RoomOK, TablesOK
<1>2. IsFiniteSet(Pending') /\ Cardinality(Pending') <= Cardinality(Pending)
  BY <1>1, FS_Subset
<1>3. Cardinality(Pending) \in Nat /\ Cardinality(Pending') \in Nat
  BY <1>1, <1>2, FS_CardinalityType
<1>4. Len(comments') + Cardinality(Pending') <= MaxComments
  BY <1>1, <1>2, <1>3, CommentConstants
<1>. QED  BY <1>2, <1>4 DEF RoomOK

LEMMA QuietTables ==
    ASSUME CommentInv, UNCHANGED <<environment, comments>>
    PROVE  Grows /\ TablesOK'
<1>1. Types /\ TablesOK /\ Len(comments) \in Nat
  BY DEF CommentInv, TablesOK
<1>2. Grows
  BY <1>1 DEF Types, Grows, environment
<1>. QED  BY <1>1, <1>2 DEF TablesOK, environment

\* A step of w leaves the requests of the others alone.
OnlyOf(w) ==
    \A v \in Workers \ {w} :
        /\ pc'[v] = pc[v] /\ call'[v] = call[v] /\ code'[v] = code[v] /\ stamp'[v] = stamp[v]
        /\ added'[v] = added[v] /\ listed'[v] = listed[v] /\ known'[v] = known[v]

Kept(w) == Types' /\ OnlyOf(w) /\ RequestOK(w)' /\ AnswerOK(w)' /\ RoomOK'

LEMMA BeginKeeps ==
    ASSUME CommentInv, NEW w \in Workers, AddTaskComment(w) \/ ListTaskComments(w)
    PROVE  Kept(w) /\ UNCHANGED <<environment, comments>>
<1>1. PICK u \in Users, t \in Tasks, op \in {"add", "list"} :
          /\ Begin(w, Request(op, u, t))
          /\ op = "add" => Len(comments) + Cardinality(Pending) < MaxComments
  BY DEF AddTaskComment, ListTaskComments
<1>2. /\ Types /\ RequestOK(w) /\ AnswerOK(w) /\ RoomOK /\ TablesOK
  BY DEF CommentInv
<1>3. /\ pc[w] = "idle" /\ call' = [call EXCEPT ![w] = Request(op, u, t)]
      /\ known' = [known EXCEPT ![w] = Ids] /\ pc' = [pc EXCEPT ![w] = "get_task"]
      /\ UNCHANGED <<environment, comments, code, stamp, added, listed>>
  BY <1>1 DEF Begin, Goto
<1>4. Len(comments) \in Nat /\ Ids = 1..Len(comments) /\ Len(comments) <= MaxComments
  <2>1. Cardinality(Pending) \in Nat
    BY <1>2, FS_CardinalityType DEF RoomOK
  <2>. QED  BY <1>2, <2>1, CommentConstants DEF TablesOK, RoomOK, Ids
<1>5. Types'
  <2>1. Request(op, u, t) \in Requests
    BY DEF Request, Requests
  <2>2. Ids \in SUBSET (1..MaxComments)
    BY <1>4, CommentConstants
  <2>. QED  BY <1>2, <1>3, <2>1, <2>2 DEF Types, Phases, environment
<1>6. OnlyOf(w)
  BY <1>2, <1>3 DEF Types, OnlyOf
<1>7. RequestOK(w)'
  BY <1>2, <1>3, <1>4 DEF Types, RequestOK, InsertPhases, Request
<1>8. AnswerOK(w)'
  <2>1. pc'[w] = "get_task" /\ listed' = listed /\ comments' = comments
    BY <1>2, <1>3 DEF Types
  <2>. QED  BY <1>2, <2>1 DEF AnswerOK, InOrder, Ok
<1>9. RoomOK'
  <2>1. w \notin Pending
    BY <1>2, <1>3 DEF RequestOK, Pending, NoCall, Request
  <2>2. CASE op = "add"
    <3>1. Pending' = Pending \cup {w}
      BY <1>2, <1>3, <2>2 DEF Types, Pending, Request
    <3>2. IsFiniteSet(Pending) /\ Cardinality(Pending) \in Nat
      BY <1>2, FS_CardinalityType DEF RoomOK
    <3>3. /\ IsFiniteSet(Pending \cup {w})
          /\ Cardinality(Pending \cup {w}) = Cardinality(Pending) + 1
      BY <2>1, <3>2, FS_AddElement
    <3>4. Len(comments) + Cardinality(Pending) < MaxComments
      BY <1>1, <2>2
    <3>5. Len(comments') + Cardinality(Pending \cup {w}) <= MaxComments
      BY <1>3, <1>4, <3>2, <3>3, <3>4, CommentConstants
    <3>. QED  BY <3>1, <3>3, <3>5 DEF RoomOK
  <2>3. CASE op = "list"
    <3>1. Pending' \subseteq Pending
      BY <1>2, <1>3, <2>3 DEF Types, Pending, Request
    <3>. QED  BY <1>3, <3>1, QuietRoom
  <2>. QED  BY <2>2, <2>3
<1>. QED  BY <1>3, <1>5, <1>6, <1>7, <1>8, <1>9 DEF Kept

\* The calls that only read, the start of an INSERT, and a failed call.
LEMMA ReadKeeps ==
    ASSUME CommentInv, NEW w \in Workers,
           GetTaskByID(w) \/ CheckMember(w) \/ BeginInsert(w) \/ StorageError(w)
    PROVE  Kept(w) /\ UNCHANGED <<environment, comments>>
<1>1. /\ Types /\ RequestOK(w) /\ AnswerOK(w) /\ TablesOK
  BY DEF CommentInv
<1>2. /\ UNCHANGED <<environment, comments, call, added, listed, known>>
      /\ pc[w] \notin {"idle", "done"}
      /\ stamp' = stamp \/ stamp' = [stamp EXCEPT ![w] = clock]
      /\ code' = code \/ \E c \in Codes \ {"ok"} : code' = [code EXCEPT ![w] = c]
      /\ \E p \in Phases \ {"idle"} : /\ pc' = [pc EXCEPT ![w] = p]
                                      /\ p = "done" => \E c \in Codes \ {"ok"} : code' = [code EXCEPT ![w] = c]
  BY DEF GetTaskByID, CheckMember, BeginInsert, StorageError, Reply, Goto, Codes, Phases
<1>3. Types'
  <2>1. pc' \in [Workers -> Phases]
    BY <1>1, <1>2 DEF Types
  <2>2. code' \in [Workers -> Codes]
    BY <1>1, <1>2 DEF Types
  <2>3. stamp' \in [Workers -> 0..MaxTime]
    <3>1. clock \in 0..MaxTime /\ stamp \in [Workers -> 0..MaxTime]
      BY <1>1 DEF Types
    <3>. QED  BY <1>2, <3>1
  <2>. QED  BY <1>1, <1>2, <2>1, <2>2, <2>3 DEF Types, environment
<1>4. OnlyOf(w)
  BY <1>1, <1>2 DEF Types, OnlyOf
<1>5. AnswerOK(w)'
  <2>1. ~(pc'[w] = "done" /\ code'[w] = "ok")
    BY <1>1, <1>2 DEF Types
  <2>. QED  BY <1>1, <1>2, <2>1 DEF AnswerOK, InOrder, Ok
<1>6. RequestOK(w)'
  <2>1. CASE GetTaskByID(w)
    BY <1>1, <2>1 DEF GetTaskByID, Reply, Goto, Types, RequestOK, InsertPhases, environment
  <2>2. CASE CheckMember(w)
    <3>1. /\ pc[w] = "role" /\ UNCHANGED <<founder, members, taskTeam, clock, comments, call, stamp, known>>
          /\ \/ pc' = [pc EXCEPT ![w] = "done"]
             \/ /\ call[w].user \in members[taskTeam[call[w].task]]
                /\ \/ call[w].op = "add" /\ pc' = [pc EXCEPT ![w] = "insert"]
                   \/ call[w].op # "add" /\ pc' = [pc EXCEPT ![w] = "select"]
      BY <2>2 DEF CheckMember, Reply, Goto, environment
    <3>2. call[w].op \in {"add", "list"} /\ pc'[w] \in {"done", "insert", "select"}
      BY <1>1, <3>1 DEF Types, Requests, RequestOK
    <3>. QED  BY <1>1, <3>1, <3>2 DEF Types, RequestOK, InsertPhases
  <2>3. CASE BeginInsert(w)
    <3>1. \A k \in known[w] : comments[k].created <= clock
      BY <1>1 DEF RequestOK, TablesOK
    <3>. QED
      BY <1>1, <2>3, <3>1 DEF BeginInsert, Goto, Types, RequestOK, InsertPhases, environment
  <2>4. CASE StorageError(w)
    BY <1>1, <2>4 DEF StorageError, Reply, Goto, Types, RequestOK, InsertPhases, environment
  <2>. QED  BY <2>1, <2>2, <2>3, <2>4
<1>7. RoomOK'
  <2>1. Pending' \subseteq Pending
    BY <1>1, <1>2 DEF Types, Pending
  <2>. QED  BY <1>2, <2>1, QuietRoom
<1>. QED  BY <1>2, <1>3, <1>4, <1>5, <1>6, <1>7 DEF Kept

LEMMA ListKeeps ==
    ASSUME CommentInv, NEW w \in Workers, ListComments(w)
    PROVE  Kept(w) /\ UNCHANGED <<environment, comments>>
<1>1. Types /\ RequestOK(w) /\ TablesOK /\ Len(comments) \in Nat /\ Ids = 1..Len(comments)
  BY DEF CommentInv, TablesOK, Ids
<1>2. PICK s \in SetToSeqs(RowsOf(call[w].task)) :
          InOrder(s) /\ listed' = [listed EXCEPT ![w] = s]
  BY DEF ListComments
<1>3. /\ pc[w] = "select" /\ UNCHANGED <<environment, comments, call, stamp, added, known>>
      /\ pc' = [pc EXCEPT ![w] = "done"] /\ code' = [code EXCEPT ![w] = "ok"]
  BY DEF ListComments, Reply, Goto
<1>4. IsFiniteSet(RowsOf(call[w].task))
  <2>1. IsFiniteSet(1..Len(comments))
    BY <1>1, FS_Interval
  <2>. QED  BY <1>1, <2>1, FS_Subset DEF RowsOf
<1>5. /\ s \in Seq(RowsOf(call[w].task)) /\ IsInjective(s)
      /\ \A k \in RowsOf(call[w].task) : \E i \in DOMAIN s : s[i] = k
  BY <1>4, EachOnce
<1>6. /\ s \in Seq(1..Len(comments)) /\ s \in Seq(Nat)
      /\ \A i \in DOMAIN s : s[i] \in RowsOf(call[w].task)
  BY <1>1, <1>5, WiderSeq DEF RowsOf
<1>7. Types'
  BY <1>1, <1>2, <1>3, <1>6 DEF Types, Phases, Codes, environment
<1>8. OnlyOf(w)
  BY <1>1, <1>2, <1>3 DEF Types, OnlyOf
<1>9. RequestOK(w)'
  BY <1>1, <1>3 DEF Types, RequestOK, InsertPhases
<1>10. AnswerOK(w)'
  <2>1. listed'[w] = s /\ pc'[w] = "done" /\ call'[w].op = "list" /\ comments' = comments
    BY <1>1, <1>2, <1>3 DEF Types, RequestOK
  <2>2. InOrder(s)'
    BY <1>2, <2>1 DEF InOrder
  <2>3. \A k \in known[w] : comments[k].task = call[w].task => k \in RowsOf(call[w].task)
    BY <1>1 DEF RequestOK, RowsOf
  <2>4. \A i \in DOMAIN s : comments[s[i]].task = call[w].task
    BY <1>6 DEF RowsOf
  <2>. QED  BY <1>3, <1>5, <1>6, <2>1, <2>2, <2>3, <2>4 DEF AnswerOK, Ok
<1>11. RoomOK'
  <2>1. Pending' \subseteq Pending
    BY <1>1, <1>3 DEF Types, Pending
  <2>. QED  BY <1>3, <2>1, QuietRoom
<1>. QED  BY <1>3, <1>7, <1>8, <1>9, <1>10, <1>11 DEF Kept

\* The row is written, and its answer is given or lost.
LEMMA WriteKeeps ==
    ASSUME CommentInv, NEW w \in Workers, SaveComment(w) \/ LostReply(w)
    PROVE  Kept(w) /\ Writes(w)
<1>1. Writes(w)
  BY DEF SaveComment, LostReply, Reply, Goto, Writes
<1>2. /\ Types /\ RequestOK(w) /\ AnswerOK(w) /\ Len(comments) \in Nat
      /\ pc[w] = "insert_row" /\ pc' = [pc EXCEPT ![w] = "done"]
      /\ UNCHANGED <<founder, members, taskTeam, clock, call, stamp, listed, known>>
  BY <1>1 DEF CommentInv, TablesOK, Writes, environment
<1>3. \/ /\ code' = [code EXCEPT ![w] = "ok"]
         /\ added' = [added EXCEPT ![w] = Comment(Len(comments) + 1, call[w].task, call[w].user, 0)]
      \/ code' = [code EXCEPT ![w] = "error"] /\ added' = added
  BY DEF SaveComment, LostReply, Reply
<1>4. RoomOK' /\ Grows /\ Len(comments') = Len(comments) + 1 /\ comments'[Len(comments) + 1] = Row(w)
  BY <1>1, WriteRoom, WriteTables
<1>5. Len(comments') \in 0..MaxComments
  <2>1. Cardinality(Pending') \in Nat
    BY <1>4, FS_CardinalityType DEF RoomOK
  <2>. QED  BY <1>2, <1>4, <2>1, CommentConstants DEF RoomOK
<1>6. Types'
  <2>1. call[w].task \in Tasks /\ call[w].user \in Users
    BY <1>2 DEF RequestOK
  <2>2. Comment(Len(comments) + 1, call[w].task, call[w].user, 0) \in Answers
    BY <1>4, <1>5, <2>1, CommentConstants DEF Comment, Answers
  <2>3. added' \in [Workers -> Answers]
    BY <1>2, <1>3, <2>2 DEF Types
  <2>4. code' \in [Workers -> Codes]
    BY <1>2, <1>3 DEF Types, Codes
  <2>. QED  BY <1>2, <2>3, <2>4 DEF Types, Phases
<1>7. OnlyOf(w)
  BY <1>2, <1>3 DEF Types, OnlyOf
<1>8. pc'[w] = "done" /\ known[w] \subseteq 1..Len(comments') /\ known' = known
  BY <1>2, <1>4 DEF Types, RequestOK
<1>9. RequestOK(w)'
  BY <1>8 DEF RequestOK, InsertPhases
<1>10. AnswerOK(w)'
  <2>1. listed'[w] \in Seq(1..Len(comments')) /\ \A i \in DOMAIN listed[w] : listed[w][i] \in 1..Len(comments)
    <3>1. listed[w] \in Seq(1..Len(comments)) /\ 1..Len(comments) \subseteq 1..Len(comments')
      BY <1>2, <1>4 DEF AnswerOK
    <3>. QED  BY <1>2, <3>1, WiderSeq
  <2>2. InOrder(listed[w])'
    <3>1. InOrder(listed[w])
      BY <1>2 DEF AnswerOK
    <3>2. \A i \in DOMAIN listed[w] : comments'[listed[w][i]] = comments[listed[w][i]]
      BY <1>4, <2>1 DEF Grows
    <3>3. listed'[w] = listed[w]
      BY <1>2
    <3>. QED  BY <3>1, <3>2, <3>3 DEF InOrder
  <2>3. call[w].op = "add" /\ Row(w)' = Row(w)
    BY <1>2 DEF RequestOK, InsertPhases, Row
  <2>4. code'[w] = "ok" => added'[w].id = Len(comments) + 1
    BY <1>2, <1>3 DEF Types, Comment
  <2>5. Len(comments) + 1 \in 1..Len(comments')
    BY <1>2, <1>4
  <2>. QED  BY <1>2, <1>4, <2>1, <2>2, <2>3, <2>4, <2>5 DEF AnswerOK, Ok
<1>. QED  BY <1>1, <1>4, <1>6, <1>7, <1>9, <1>10 DEF Kept

LEMMA RespondKeeps ==
    ASSUME CommentInv, NEW w \in Workers, Respond(w)
    PROVE  Kept(w) /\ UNCHANGED <<environment, comments>>
<1>1. Types /\ Len(comments) \in Nat
  BY DEF CommentInv, TablesOK
<1>2. NoCall \in Requests /\ Comment(0, Nil, Nil, 0) \in Answers /\ <<>> \in Seq(Nat)
  BY CommentConstants DEF NoCall, Request, Requests, Comment, Answers
<1>3. Types'
  BY <1>1, <1>2, CommentConstants DEF Respond, Goto, Types, Phases, Codes, environment
<1>4. OnlyOf(w)
  BY <1>1 DEF Respond, Goto, Types, OnlyOf
<1>5. /\ pc'[w] = "idle" /\ call'[w] = NoCall /\ known'[w] = {} /\ listed'[w] = <<>>
      /\ UNCHANGED <<environment, comments>>
  BY <1>1 DEF Respond, Goto, Types
<1>6. RequestOK(w)' /\ AnswerOK(w)'
  BY <1>1, <1>5 DEF RequestOK, InsertPhases, AnswerOK, InOrder, Ok
<1>7. RoomOK'
  <2>1. Pending' \subseteq Pending
    BY <1>1 DEF Respond, Goto, Types, Pending, NoCall, Request
  <2>. QED  BY <1>5, <2>1, QuietRoom
<1>. QED  BY <1>3, <1>4, <1>5, <1>6, <1>7 DEF Kept

-----------------------------------------------------------------------------
(* Every step.                                                             *)

\* The steps of the team service, of the task service and of the clock.
LEMMA EnvironmentKeeps ==
    ASSUME CommentInv, TeamStep \/ TaskCreated \/ Tick
    PROVE  Grows /\ TablesOK' /\ Types' /\ RoomOK' /\ UNCHANGED requests
<1>1. Types /\ TablesOK /\ Len(comments) \in Nat
  BY DEF CommentInv, TablesOK
<1>2. comments' = comments /\ UNCHANGED requests
  BY DEF TeamStep, TaskCreated, Tick
<1>3. RoomOK'
  BY <1>2, QuietRoom DEF Pending, requests
<1>4. CASE TeamStep
  <2>1. PICK m \in Teams, u \in Users : Team!Found(m, u) \/ Team!Join(m, u)
    BY <1>4 DEF TeamStep, Team!Next
  <2>2. /\ founder' \in [Teams -> Users \cup {Nil}] /\ members' \in [Teams -> SUBSET Users]
        /\ \A n \in Teams : members[n] \subseteq members'[n]
        /\ \A n \in Teams : founder'[n] = Nil => members'[n] = {}
    <3>1. /\ founder \in [Teams -> Users \cup {Nil}] /\ members \in [Teams -> SUBSET Users]
          /\ \A n \in Teams : founder[n] = Nil => members[n] = {}
      BY <1>1 DEF Types, TablesOK
    <3>2. CASE Team!Found(m, u)
      BY <3>1, <3>2, CommentConstants DEF Team!Found
    <3>3. CASE Team!Join(m, u)
      BY <3>1, <3>3 DEF Team!Join
    <3>. QED  BY <2>1, <3>2, <3>3
  <2>3. UNCHANGED <<taskTeam, clock>>
    BY <1>4 DEF TeamStep
  <2>4. Grows
    BY <1>1, <1>2, <2>2, <2>3 DEF Types, Grows
  <2>5. TablesOK'
    BY <1>1, <1>2, <2>2, <2>3 DEF TablesOK
  <2>6. Types'
    BY <1>1, <1>2, <2>2, <2>3 DEF Types, requests
  <2>. QED  BY <1>2, <1>3, <2>4, <2>5, <2>6
<1>5. CASE TaskCreated
  <2>1. PICK t \in Tasks, m \in Teams : taskTeam[t] = Nil /\ taskTeam' = [taskTeam EXCEPT ![t] = m]
    BY <1>5 DEF TaskCreated
  <2>2. /\ taskTeam' \in [Tasks -> Teams \cup {Nil}] /\ UNCHANGED <<founder, members, clock>>
        /\ \A x \in Tasks : taskTeam[x] \in Teams => taskTeam'[x] = taskTeam[x]
    BY <1>1, <1>5, <2>1, CommentConstants DEF Types, TaskCreated
  <2>3. Grows
    BY <1>1, <1>2, <2>2 DEF Types, Grows
  <2>4. TablesOK'
    <3>1. \A i \in 1..Len(comments) : comments[i].task \in Tasks
      BY <1>1, RowFields DEF TablesOK
    <3>. QED  BY <1>1, <1>2, <2>2, <3>1 DEF TablesOK
  <2>5. Types'
    BY <1>1, <1>2, <2>2 DEF Types, requests
  <2>. QED  BY <1>2, <1>3, <2>3, <2>4, <2>5
<1>6. CASE Tick
  <2>1. clock' \in 1..MaxTime /\ clock <= clock' /\ UNCHANGED <<founder, members, taskTeam>>
    BY <1>1, <1>6, CommentConstants DEF Types, Tick
  <2>2. Grows
    BY <1>1, <1>2, <2>1 DEF Types, Grows
  <2>3. TablesOK'
    <3>1. \A i \in 1..Len(comments) : comments[i].created \in Int
      BY <1>1, RowFields DEF TablesOK
    <3>. QED  BY <1>1, <1>2, <2>1, <3>1 DEF TablesOK, Types
  <2>4. Types'
    BY <1>1, <1>2, <2>1 DEF Types, requests
  <2>. QED  BY <1>2, <1>3, <2>2, <2>3, <2>4
<1>. QED  BY <1>4, <1>5, <1>6

LEMMA CommentInvInit == Init => CommentInv
<1>. SUFFICES ASSUME Init PROVE CommentInv
  OBVIOUS
<1>1. NoCall \in Requests /\ Comment(0, Nil, Nil, 0) \in Answers /\ <<>> \in Seq(Nat)
  BY CommentConstants DEF NoCall, Request, Requests, Comment, Answers
<1>2. Types
  BY <1>1, CommentConstants DEF Init, Team!Init, Types, Phases, Codes
<1>3. TablesOK
  BY DEF Init, Team!Init, TablesOK
<1>4. RoomOK
  <2>1. Pending = {} /\ Len(comments) = 0
    BY DEF Init, Pending, NoCall, Request
  <2>. QED  BY <2>1, FS_EmptySet, CommentConstants DEF RoomOK
<1>5. \A w \in Workers : RequestOK(w) /\ AnswerOK(w)
  BY DEF Init, RequestOK, InsertPhases, AnswerOK, InOrder, Ok
<1>. QED  BY <1>2, <1>3, <1>4, <1>5 DEF CommentInv

LEMMA CommentInvNext == CommentInv /\ [Next]_vars => CommentInv'
<1>. SUFFICES ASSUME CommentInv, [Next]_vars PROVE CommentInv'
  OBVIOUS
<1>1. ASSUME NEW w \in Workers, AddTaskComment(w) \/ ListTaskComments(w) \/ Serve(w)
      PROVE  CommentInv'
  <2>1. Kept(w) /\ (Writes(w) \/ UNCHANGED <<environment, comments>>)
    BY <1>1, BeginKeeps, ReadKeeps, ListKeeps, WriteKeeps, RespondKeeps DEF Serve
  <2>2. Grows /\ TablesOK'
    BY <2>1, WriteTables, QuietTables
  <2>3. \A v \in Workers \ {w} : RequestOK(v)' /\ AnswerOK(v)'
    BY <2>1, <2>2, OthersKeep DEF Kept, OnlyOf
  <2>. QED  BY <2>1, <2>2, <2>3 DEF CommentInv, Kept
<1>2. CASE TeamStep \/ TaskCreated \/ Tick
  <2>1. Grows /\ TablesOK' /\ Types' /\ RoomOK' /\ UNCHANGED requests
    BY <1>2, EnvironmentKeeps
  <2>2. \A v \in Workers : RequestOK(v)' /\ AnswerOK(v)'
    BY <2>1, OthersKeep DEF requests
  <2>. QED  BY <2>1, <2>2 DEF CommentInv
<1>3. CASE Crash
  <2>1. Types /\ TablesOK /\ UNCHANGED <<environment, comments>> /\ Len(comments) \in Nat
    BY <1>3 DEF CommentInv, TablesOK, Crash
  <2>2. NoCall \in Requests /\ Comment(0, Nil, Nil, 0) \in Answers /\ <<>> \in Seq(Nat)
    BY CommentConstants DEF NoCall, Request, Requests, Comment, Answers
  <2>3. Types'
    BY <1>3, <2>1, <2>2, CommentConstants DEF Crash, Types, Phases, Codes, environment
  <2>4. TablesOK'
    BY <2>1, QuietTables
  <2>5. RoomOK'
    <3>1. Pending' \subseteq Pending
      BY <1>3 DEF Crash, Pending, NoCall, Request
    <3>. QED  BY <2>1, <3>1, QuietRoom
  <2>6. \A w \in Workers : RequestOK(w)' /\ AnswerOK(w)'
    BY <1>3, <2>1 DEF Crash, RequestOK, InsertPhases, AnswerOK, InOrder, Ok
  <2>. QED  BY <2>3, <2>4, <2>5, <2>6 DEF CommentInv
<1>4. CASE UNCHANGED vars
  <2>1. UNCHANGED <<environment, comments, requests>>
    BY <1>4 DEF vars
  <2>2. Grows /\ TablesOK'
    BY <2>1, QuietTables
  <2>3. RoomOK' /\ Types'
    BY <2>1, QuietRoom DEF CommentInv, Types, Pending, requests, environment
  <2>4. \A v \in Workers : RequestOK(v)' /\ AnswerOK(v)'
    BY <2>1, <2>2, OthersKeep DEF requests
  <2>. QED  BY <2>2, <2>3, <2>4 DEF CommentInv
<1>. QED  BY <1>1, <1>2, <1>3, <1>4 DEF Next

-----------------------------------------------------------------------------
(* The properties.                                                         *)

\* The inductive invariant holds in every reachable state.
THEOREM CommentInvariant == Spec => []CommentInv
BY CommentInvInit, CommentInvNext, PTL DEF Spec

\* Every variable has its type; the table never outgrows the bound.
THEOREM CommentTypes == Spec => []TypeOK
<1>1. CommentInv => TypeOK
  <2>. SUFFICES ASSUME CommentInv PROVE TypeOK
    OBVIOUS
  <2>1. /\ Types /\ comments \in Seq(Rows) /\ Ids = 1..Len(comments) /\ Len(comments) \in Nat
        /\ \A w \in Workers : listed[w] \in Seq(Ids)
    BY DEF CommentInv, TablesOK, AnswerOK, Ids
  <2>2. Len(comments) <= MaxComments
    <3>1. Cardinality(Pending) \in Nat
      BY FS_CardinalityType DEF CommentInv, RoomOK
    <3>. QED  BY <2>1, <3>1, CommentConstants DEF CommentInv, RoomOK
  <2>3. \A i \in Ids : comments[i] \in Rows
    BY <2>1
  <2>4. \A w \in Workers : ToSet(listed[w]) \subseteq Ids
    BY <2>1, WiderSeq DEF ToSet
  <2>. QED  BY <2>1, <2>2, <2>3, <2>4 DEF TypeOK, Types, Rows, Phases, Requests, Codes, Answers
<1>. QED  BY <1>1, CommentInvariant, PTL

\* Add: the team and the role that were read hold when the row is written, and after.
THEOREM CommentsByMembers == Spec => []OnlyMembersComment
<1>1. CommentInv => OnlyMembersComment
  BY DEF CommentInv, TablesOK, OnlyMembersComment, Ids
<1>. QED  BY <1>1, CommentInvariant, PTL

\* ListComments: every comment that was there, once, and of this task only.
THEOREM ListsAreComplete == Spec => []ListIsComplete
<1>1. CommentInv => ListIsComplete
  <2>. SUFFICES ASSUME CommentInv, NEW w \in Workers, Ok(w, "list")
                PROVE  /\ ToSet(listed[w]) \subseteq RowsOf(call[w].task)
                       /\ known[w] \cap RowsOf(call[w].task) \subseteq ToSet(listed[w])
                       /\ IsInjective(listed[w])
    BY DEF ListIsComplete
  <2>1. AnswerOK(w) /\ Ids = 1..Len(comments)
    BY DEF CommentInv, TablesOK, Ids
  <2>2. listed[w] \in Seq(Ids)
    BY <2>1 DEF AnswerOK
  <2>3. \A i \in DOMAIN listed[w] : listed[w][i] \in Ids
    BY <2>2, WiderSeq
  <2>. QED  BY <2>1, <2>3 DEF AnswerOK, RowsOf, ToSet
<1>. QED  BY <1>1, CommentInvariant, PTL

\* ORDER BY created_at: a reply comes after what it replies to, since created_at is
\* taken by MySQL after the author could read it.
THEOREM RepliesComeLater == Spec => []RepliesFollow
<1>1. CommentInv => RepliesFollow
  <2>. SUFFICES ASSUME CommentInv, NEW w \in Workers,
                       NEW i \in DOMAIN listed[w], NEW j \in DOMAIN listed[w],
                       listed[w][j] \in comments[listed[w][i]].after,
                       comments[listed[w][i]].created # comments[listed[w][j]].created
                PROVE  j < i
    BY DEF RepliesFollow
  <2>1. /\ listed[w] \in Seq(1..Len(comments)) /\ InOrder(listed[w]) /\ comments \in Seq(Rows)
    BY DEF CommentInv, AnswerOK, TablesOK
  <2>2. listed[w][i] \in 1..Len(comments) /\ listed[w][j] \in 1..Len(comments)
    BY <2>1, WiderSeq
  <2>3. i \in Int /\ j \in Int
    BY <2>1
  <2>4. comments[listed[w][i]].created \in Int /\ comments[listed[w][j]].created \in Int
    BY <2>1, <2>2, RowFields
  <2>5. comments[listed[w][j]].created < comments[listed[w][i]].created
    BY <2>2, <2>4 DEF CommentInv, TablesOK
  <2>6. ~(i < j) /\ i # j
    BY <2>1, <2>4, <2>5 DEF InOrder
  <2>. QED  BY <2>3, <2>6
<1>. QED  BY <1>1, CommentInvariant, PTL
=============================================================================
