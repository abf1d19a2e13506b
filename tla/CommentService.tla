-------------------------- MODULE CommentService --------------------------
(***************************************************************************)
(* comment.Service (Add, List) with the MySQL table task_comments, beside  *)
(* the services that create tasks and teams. Of the team service it sees   *)
(* what Membership promises, and that service's steps are its environment. *)
(*                                                                         *)
(* A worker serves one request; an action is one call to MySQL. Phases     *)
(* (pc): get_task, role, then insert and insert_row for Add, or select.    *)
(* MySQL takes created_at when the INSERT begins (insert) and the id when  *)
(* the row is written (insert_row), so that two INSERTs may overlap.       *)
(*                                                                         *)
(* Definitions marked "Mutant" are faulty variants of the code that the    *)
(* specification does not use.                                             *)
(***************************************************************************)
EXTENDS Integers, FiniteSets, Sequences, SequencesExt

CONSTANTS
    Workers, Users, Teams, Tasks, Nil,
    MaxComments,    \* bound: comments that are written or under way
    MaxTime,        \* bound: the clock of MySQL, in milliseconds
    Faults          \* the failures that may happen

ASSUME CommentConstants ==
    /\ Nil \notin Users \cup Teams \cup Tasks
    /\ MaxComments \in Nat /\ MaxTime \in Nat \ {0}
    /\ Faults \subseteq {"mysql", "lost_reply", "crash"}

VARIABLES
    founder, members,   \* the teams, as Membership has them
    taskTeam,           \* table tasks: [Tasks -> team_id, or Nil]
    comments,           \* table task_comments, the id of a row is its index
    clock,              \* CURRENT_TIMESTAMP(3)
    pc, call, code,     \* phase, request and answer of each worker
    stamp,              \* created_at of the INSERT under way
    added,              \* the comment it answers an Add with
    listed,             \* the ids it answers a List with
    known               \* auxiliary: comments that were there when its request arrived

environment == <<founder, members, taskTeam, clock>>
requests    == <<pc, call, code, stamp, added, listed, known>>
vars        == <<environment, comments, requests>>

Request(op, u, t) == [op |-> op, user |-> u, task |-> t]
NoCall == Request("none", Nil, Nil)

\* domain.Comment; the body stands for the request it came with.
Comment(id, t, u, created) == [id |-> id, task |-> t, user |-> u, created |-> created]
Ids == DOMAIN comments

Goto(w, phase) == pc' = [pc EXCEPT ![w] = phase]
Reply(w, c)    == Goto(w, "done") /\ code' = [code EXCEPT ![w] = c]

\* A row, with what its author could see (after, auxiliary).
Row(w) == [task |-> call[w].task, user |-> call[w].user, created |-> stamp[w], after |-> known[w]]

-----------------------------------------------------------------------------
Pending == {w \in Workers : call[w].op = "add" /\ pc[w] # "done"}

Begin(w, c) ==
    /\ pc[w] = "idle"
    /\ call'  = [call EXCEPT ![w] = c]
    /\ known' = [known EXCEPT ![w] = Ids]
    /\ Goto(w, "get_task")
    /\ UNCHANGED <<environment, comments, code, stamp, added, listed>>

\* A request with an empty body is answered 400 and does nothing.
AddTaskComment(w) ==
    /\ Len(comments) + Cardinality(Pending) < MaxComments
    /\ \E u \in Users, t \in Tasks : Begin(w, Request("add", u, t))

ListTaskComments(w) == \E u \in Users, t \in Tasks : Begin(w, Request("list", u, t))

Respond(w) ==
    /\ pc[w] = "done"
    /\ Goto(w, "idle")
    /\ call'   = [call EXCEPT ![w] = NoCall]
    /\ code'   = [code EXCEPT ![w] = "none"]
    /\ stamp'  = [stamp EXCEPT ![w] = 0]
    /\ added'  = [added EXCEPT ![w] = Comment(0, Nil, Nil, 0)]
    /\ listed' = [listed EXCEPT ![w] = <<>>]
    /\ known'  = [known EXCEPT ![w] = {}]
    /\ UNCHANGED <<environment, comments>>

-----------------------------------------------------------------------------
GetTaskByID(w) ==
    /\ pc[w] = "get_task"
    /\ \/ taskTeam[call[w].task] = Nil /\ Reply(w, "not_found")
       \/ taskTeam[call[w].task] # Nil /\ Goto(w, "role") /\ UNCHANGED code
    /\ UNCHANGED <<environment, comments, call, stamp, added, listed, known>>

\* Mutant: whoever is a member of some team may comment.
CheckAnyTeam(w) ==
    /\ pc[w] = "role"
    /\ \/ (\A m \in Teams : call[w].user \notin members[m]) /\ Reply(w, "forbidden")
       \/ /\ \E m \in Teams : call[w].user \in members[m]
          /\ Goto(w, IF call[w].op = "add" THEN "insert" ELSE "select")
          /\ UNCHANGED code
    /\ UNCHANGED <<environment, comments, call, stamp, added, listed, known>>
\* The team of the task does not change once it was read.
CheckMember(w) ==
    LET m == taskTeam[call[w].task] IN
    /\ pc[w] = "role"
    /\ \/ call[w].user \notin members[m] /\ Reply(w, "forbidden")
       \/ /\ call[w].user \in members[m]
          /\ Goto(w, IF call[w].op = "add" THEN "insert" ELSE "select")
          /\ UNCHANGED code
    /\ UNCHANGED <<environment, comments, call, stamp, added, listed, known>>

\* Mutant: the INSERT writes the CreatedAt of the input, which nobody set.
BeginInsertUnset(w) ==
    /\ pc[w] = "insert"
    /\ stamp' = [stamp EXCEPT ![w] = 0]
    /\ Goto(w, "insert_row")
    /\ UNCHANGED <<environment, comments, call, code, added, listed, known>>
BeginInsert(w) ==
    /\ pc[w] = "insert"
    /\ stamp' = [stamp EXCEPT ![w] = clock]
    /\ Goto(w, "insert_row")
    /\ UNCHANGED <<environment, comments, call, code, added, listed, known>>

\* The comment that is answered has LastInsertId and the created_at of the input, which
\* nobody set. The row gets its id and is seen by others in one step: the order of ids
\* decides nothing, lists are ordered by created_at.
SaveComment(w) ==
    /\ pc[w] = "insert_row"
    /\ comments' = Append(comments, Row(w))
    /\ added'    = [added EXCEPT ![w] = Comment(Len(comments) + 1, call[w].task, call[w].user, 0)]
    /\ Reply(w, "ok")
    /\ UNCHANGED <<environment, call, stamp, listed, known>>

RowsOf(t) == {i \in Ids : comments[i].task = t}

\* ORDER BY created_at ASC; rows of the same millisecond come in any order.
\* Mutant: ORDER BY is missing.
AnyOrder(s) == TRUE
InOrder(s) == \A i, j \in DOMAIN s : i < j => comments[s[i]].created <= comments[s[j]].created

\* Mutant: WHERE user_id = ?.
SelectOwn(w) ==
    /\ pc[w] = "select"
    /\ \E s \in SetToSeqs({i \in Ids : comments[i].user = call[w].user}) :
          InOrder(s) /\ listed' = [listed EXCEPT ![w] = s]
    /\ Reply(w, "ok")
    /\ UNCHANGED <<environment, comments, call, stamp, added, known>>
ListComments(w) ==
    /\ pc[w] = "select"
    /\ \E s \in SetToSeqs(RowsOf(call[w].task)) :
          InOrder(s) /\ listed' = [listed EXCEPT ![w] = s]
    /\ Reply(w, "ok")
    /\ UNCHANGED <<environment, comments, call, stamp, added, known>>

-----------------------------------------------------------------------------
(* Failures and the environment.                                           *)

StorageError(w) ==
    /\ "mysql" \in Faults
    /\ pc[w] \notin {"idle", "done"}
    /\ Reply(w, "error")
    /\ UNCHANGED <<environment, comments, call, stamp, added, listed, known>>

\* The row is written and its answer is lost, or LastInsertId fails: 500.
LostReply(w) ==
    /\ "lost_reply" \in Faults
    /\ pc[w] = "insert_row"
    /\ comments' = Append(comments, Row(w))
    /\ Reply(w, "error")
    /\ UNCHANGED <<environment, call, stamp, added, listed, known>>

Crash ==
    /\ "crash" \in Faults
    /\ pc'     = [w \in Workers |-> "idle"]
    /\ call'   = [w \in Workers |-> NoCall]
    /\ code'   = [w \in Workers |-> "none"]
    /\ stamp'  = [w \in Workers |-> 0]
    /\ added'  = [w \in Workers |-> Comment(0, Nil, Nil, 0)]
    /\ listed' = [w \in Workers |-> <<>>]
    /\ known'  = [w \in Workers |-> {}]
    /\ UNCHANGED <<environment, comments>>

Team == INSTANCE Membership

TeamStep == Team!Next /\ UNCHANGED <<taskTeam, clock, comments, requests>>

\* SaveTask of the task service: a member creates a task. Tasks keep their team.
TaskCreated ==
    /\ \E t \in Tasks, m \in Teams :
          /\ taskTeam[t] = Nil /\ members[m] # {}
          /\ taskTeam' = [taskTeam EXCEPT ![t] = m]
    /\ UNCHANGED <<founder, members, clock, comments, requests>>

Tick ==
    /\ clock < MaxTime
    /\ clock' = clock + 1
    /\ UNCHANGED <<founder, members, taskTeam, comments, requests>>

-----------------------------------------------------------------------------
Init ==
    /\ Team!Init
    /\ taskTeam = [t \in Tasks |-> Nil]
    /\ comments = <<>>
    /\ clock    = 1
    /\ pc       = [w \in Workers |-> "idle"]
    /\ call     = [w \in Workers |-> NoCall]
    /\ code     = [w \in Workers |-> "none"]
    /\ stamp    = [w \in Workers |-> 0]
    /\ added    = [w \in Workers |-> Comment(0, Nil, Nil, 0)]
    /\ listed   = [w \in Workers |-> <<>>]
    /\ known    = [w \in Workers |-> {}]

Serve(w) ==
    \/ GetTaskByID(w) \/ CheckMember(w) \/ BeginInsert(w) \/ SaveComment(w) \/ ListComments(w)
    \/ StorageError(w) \/ LostReply(w) \/ Respond(w)

Next ==
    \/ \E w \in Workers : AddTaskComment(w) \/ ListTaskComments(w) \/ Serve(w)
    \/ TeamStep \/ TaskCreated \/ Tick \/ Crash

Spec == Init /\ [][Next]_vars

-----------------------------------------------------------------------------
(* Properties.                                                             *)

\* Every variable has its type.
TypeOK ==
    /\ founder  \in [Teams -> Users \cup {Nil}]
    /\ members  \in [Teams -> SUBSET Users]
    /\ taskTeam \in [Tasks -> Teams \cup {Nil}]
    /\ Len(comments) <= MaxComments
    /\ \A i \in Ids : comments[i] \in [task : Tasks, user : Users, created : 1..MaxTime,
                                       after : SUBSET (1..MaxComments)]
    /\ clock  \in 1..MaxTime
    /\ pc     \in [Workers -> {"idle", "get_task", "role", "insert", "insert_row", "select",
                               "done"}]
    /\ call   \in [Workers -> [op : {"none", "add", "list"}, user : Users \cup {Nil},
                               task : Tasks \cup {Nil}]]
    /\ code   \in [Workers -> {"none", "ok", "forbidden", "not_found", "error"}]
    /\ stamp  \in [Workers -> 0..MaxTime]
    /\ added  \in [Workers -> [id : 0..MaxComments, task : Tasks \cup {Nil},
                               user : Users \cup {Nil}, created : 0..MaxTime]]
    /\ \A w \in Workers : ToSet(listed[w]) \subseteq Ids
    /\ known  \in [Workers -> SUBSET (1..MaxComments)]

Ok(w, op) == pc[w] = "done" /\ code[w] = "ok" /\ call[w].op = op

\* Only members of the team of a task comment on it, although the team is read and
\* the role is checked calls before the row is written.
OnlyMembersComment ==
    \A i \in Ids : comments[i].user \in members[taskTeam[comments[i].task]]

\* A List has each comment of its task that was there when it was asked for, none of
\* another task, and none twice.
ListIsComplete ==
    \A w \in Workers : Ok(w, "list") =>
        /\ ToSet(listed[w]) \subseteq RowsOf(call[w].task)
        /\ known[w] \cap RowsOf(call[w].task) \subseteq ToSet(listed[w])
        /\ IsInjective(listed[w])

\* A comment that was written by somebody who could see another one is listed after
\* it, unless both are of the same millisecond.
RepliesFollow ==
    \A w \in Workers : \A i, j \in DOMAIN listed[w] :
        listed[w][j] \in comments[listed[w][i]].after
            /\ comments[listed[w][i]].created # comments[listed[w][j]].created => j < i

=============================================================================
