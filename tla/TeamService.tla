---------------------------- MODULE TeamService ----------------------------
(***************************************************************************)
(* The team service: team.Service (Create, Invite, ListForUser) with the   *)
(* MySQL tables teams and team_members and the mail service it notifies.   *)
(*                                                                         *)
(* As in TaskService a worker serves one request, and an action is one     *)
(* call to a store. Phases of a request (pc):                              *)
(*   create   insert_team, insert_owner, commit                            *)
(*   invite   get_team, role, get_user, save_member, notify                *)
(*   list     list_teams                                                   *)
(*                                                                         *)
(* Definitions marked "Mutant" are faulty variants of the code that the    *)
(* specification does not use.                                             *)
(***************************************************************************)
CONSTANTS
    Workers,        \* goroutines serving requests
    Users,          \* rows of the table users
    Strangers,      \* ids that are in no row of users
    Teams,          \* the ids uuid.NewV7 may hand out
    Nil,
    Faults          \* the failures that may happen

Roles == {"owner", "admin", "member"}

ASSUME TeamConstants ==
    /\ Users \cap Strangers = {}
    /\ Nil \notin Users \cup Strangers \cup Teams \cup Roles
    /\ Faults \subseteq {"mysql", "lost_reply", "mail", "crash"}

VARIABLES
    teams,      \* table teams: [Teams -> created_by, or Nil]
    roles,      \* table team_members: [Teams -> [Users -> a role or Nil]]
    pc,         \* phase of each worker
    call,       \* the request each worker serves
    listed,     \* the teams it answers with
    code,       \* its answer
    mails,      \* <<team, user>> of the invitation mails that were sent
    entitled,   \* auxiliary: workers whose caller was owner or admin of the team of an
                \* invitation at some moment since it arrived
    known       \* auxiliary: teams of the caller when its request arrived

tables == <<teams, roles>>
vars   == <<tables, pc, call, listed, code, mails, entitled, known>>

Request(op, u, m, target) == [op |-> op, user |-> u, team |-> m, target |-> target]
NoCall == Request("none", Nil, Nil, Nil)

Goto(w, phase) == pc' = [pc EXCEPT ![w] = phase]
Reply(w, c)    == Goto(w, "done") /\ code' = [code EXCEPT ![w] = c]

MembersOf(m) == {u \in Users : roles[m][u] # Nil}
TeamsOf(u)   == {m \in Teams : teams[m] # Nil /\ u \in MembersOf(m)}

-----------------------------------------------------------------------------
(* Requests arrive.                                                        *)

MayInvite(c) == c.op = "invite" /\ roles[c.team][c.user] \in {"owner", "admin"}

Begin(w, c, phase) ==
    /\ pc[w] = "idle"
    /\ call'  = [call EXCEPT ![w] = c]
    /\ known' = [known EXCEPT ![w] = TeamsOf(c.user)]
    /\ entitled' = IF MayInvite(c) THEN entitled \cup {w} ELSE entitled
    /\ Goto(w, phase)
    /\ UNCHANGED <<tables, listed, code, mails>>

\* The fresh id of the new team is chosen here.
CreateTeam(w) ==
    \E u \in Users, m \in Teams :
        /\ teams[m] = Nil
        /\ \A v \in Workers : ~(call[v].op = "create" /\ call[v].team = m)
        /\ Begin(w, Request("create", u, m, Nil), "insert_team")

InviteToTeam(w) ==
    \E u \in Users, m \in Teams, target \in Users \cup Strangers :
        Begin(w, Request("invite", u, m, target), "get_team")

ListTeams(w) ==
    \E u \in Users : Begin(w, Request("list", u, Nil, Nil), "list_teams")

Respond(w) ==
    /\ pc[w] = "done"
    /\ Goto(w, "idle")
    /\ call'   = [call EXCEPT ![w] = NoCall]
    /\ listed' = [listed EXCEPT ![w] = {}]
    /\ code'   = [code EXCEPT ![w] = "none"]
    /\ known'  = [known EXCEPT ![w] = {}]
    /\ entitled' = entitled \ {w}
    /\ UNCHANGED <<tables, mails>>

-----------------------------------------------------------------------------
(* CreateTeamWithOwner: one transaction. Its rows are seen after COMMIT.   *)

\* Mutant: the team is inserted with s.db, not with tx.
InsertTeamOutsideTx(w) ==
    /\ pc[w] = "insert_team"
    /\ teams' = [teams EXCEPT ![call[w].team] = call[w].user]
    /\ Goto(w, "insert_owner")
    /\ UNCHANGED <<roles, call, listed, code, mails, entitled, known>>
InsertTeam(w) ==
    /\ pc[w] = "insert_team"
    /\ Goto(w, "insert_owner")
    /\ UNCHANGED <<tables, call, listed, code, mails, entitled, known>>

InsertOwner(w) ==
    /\ pc[w] = "insert_owner"
    /\ Goto(w, "commit")
    /\ UNCHANGED <<tables, call, listed, code, mails, entitled, known>>

CommitTeam(w) ==
    /\ teams' = [teams EXCEPT ![call[w].team] = call[w].user]
    /\ roles' = [roles EXCEPT ![call[w].team][call[w].user] = "owner"]
    /\ entitled' = entitled \cup {v \in Workers : /\ call[v].op = "invite"
                                                 /\ call[v].team = call[w].team
                                                 /\ call[v].user = call[w].user}

Commit(w) ==
    /\ pc[w] = "commit"
    /\ CommitTeam(w)
    /\ Reply(w, "ok")
    /\ UNCHANGED <<call, listed, mails, known>>

-----------------------------------------------------------------------------
(* Invite.                                                                 *)

GetTeamByID(w) ==
    /\ pc[w] = "get_team"
    /\ \/ teams[call[w].team] = Nil /\ Reply(w, "not_found")
       \/ teams[call[w].team] # Nil /\ Goto(w, "role") /\ UNCHANGED code
    /\ UNCHANGED <<tables, call, listed, mails, entitled, known>>

\* Only a caller whose role is not member may invite.
\* Mutant: every member may invite.
CheckMember(w) ==
    /\ pc[w] = "role"
    /\ LET role == roles[call[w].team][call[w].user] IN
       \/ role = Nil /\ Reply(w, "forbidden")
       \/ role # Nil /\ Goto(w, "get_user") /\ UNCHANGED code
    /\ UNCHANGED <<tables, call, listed, mails, entitled, known>>
CheckRole(w) ==
    /\ pc[w] = "role"
    /\ LET role == roles[call[w].team][call[w].user] IN
       \/ role \in {Nil, "member"} /\ Reply(w, "forbidden")
       \/ role \in {"owner", "admin"} /\ Goto(w, "get_user") /\ UNCHANGED code
    /\ UNCHANGED <<tables, call, listed, mails, entitled, known>>

\* Mutant: the mail goes out when the address is known, before the row is saved.
NotifyFirst(w) ==
    /\ pc[w] = "get_user"
    /\ \/ call[w].target \notin Users /\ Reply(w, "not_found") /\ UNCHANGED mails
       \/ /\ call[w].target \in Users
          /\ mails' = mails \cup {<<call[w].team, call[w].target>>}
          /\ Goto(w, "save_member")
          /\ UNCHANGED code
    /\ UNCHANGED <<tables, call, listed, entitled, known>>
\* Mutant: the error of GetByID is not looked at.
GetByIDIgnored(w) ==
    /\ pc[w] = "get_user"
    /\ Goto(w, "save_member")
    /\ UNCHANGED <<tables, call, listed, code, mails, entitled, known>>
GetByID(w) ==
    /\ pc[w] = "get_user"
    /\ \/ call[w].target \notin Users /\ Reply(w, "not_found")
       \/ call[w].target \in Users /\ Goto(w, "save_member") /\ UNCHANGED code
    /\ UNCHANGED <<tables, call, listed, mails, entitled, known>>

\* INSERT ... ON DUPLICATE KEY UPDATE role: a row that is there gets the role too.
\* Mutant: the target gets the role of the caller.
UpsertCallersRole(w) ==
    LET m == call[w].team  u == call[w].target IN
    /\ roles' = [roles EXCEPT ![m][u] = roles[m][call[w].user]]
    /\ UNCHANGED <<teams, entitled>>
UpsertMember(w) ==
    LET m == call[w].team  u == call[w].target IN
    /\ roles' = [roles EXCEPT ![m][u] = "member"]
    /\ UNCHANGED <<teams, entitled>>

SaveMember(w) ==
    /\ pc[w] = "save_member"
    /\ UpsertMember(w)
    /\ Goto(w, "notify")
    /\ UNCHANGED <<call, listed, code, mails, known>>

\* The mail may fail, at the service or at the circuit breaker: a warning.
SendInvite(w) ==
    /\ pc[w] = "notify"
    /\ \/ mails' = mails \cup {<<call[w].team, call[w].target>>}
       \/ "mail" \in Faults /\ UNCHANGED mails
    /\ Reply(w, "ok")
    /\ UNCHANGED <<tables, call, listed, entitled, known>>

-----------------------------------------------------------------------------
\* teams joined with the rows of the caller in team_members.
GetTeamsByUser(w) ==
    /\ pc[w] = "list_teams"
    /\ listed' = [listed EXCEPT ![w] = TeamsOf(call[w].user)]
    /\ Reply(w, "ok")
    /\ UNCHANGED <<tables, call, mails, entitled, known>>

-----------------------------------------------------------------------------
(* Failures.                                                               *)

MySQLPhases == {"insert_team", "insert_owner", "commit", "get_team", "role", "get_user",
                "save_member", "list_teams"}

\* A call to MySQL fails, a transaction is rolled back: 500.
\* Mutant: the error of SaveMember is a warning, as that of SendInvite is.
StorageErrorIgnored(w) ==
    /\ "mysql" \in Faults
    /\ pc[w] \in MySQLPhases
    /\ \/ pc[w] = "save_member" /\ Goto(w, "notify") /\ UNCHANGED code
       \/ pc[w] # "save_member" /\ Reply(w, "error")
    /\ UNCHANGED <<tables, call, listed, mails, entitled, known>>
StorageError(w) ==
    /\ "mysql" \in Faults
    /\ pc[w] \in MySQLPhases
    /\ Reply(w, "error")
    /\ UNCHANGED <<tables, call, listed, mails, entitled, known>>

\* The write is durable and its answer is lost: 500, and no mail.
LostReply(w) ==
    /\ "lost_reply" \in Faults
    /\ \/ pc[w] = "commit" /\ CommitTeam(w)
       \/ pc[w] = "save_member" /\ UpsertMember(w)
    /\ Reply(w, "error")
    /\ UNCHANGED <<call, listed, mails, known>>

\* The process dies and is restarted.
Crash ==
    /\ "crash" \in Faults
    /\ pc'     = [w \in Workers |-> "idle"]
    /\ call'   = [w \in Workers |-> NoCall]
    /\ listed' = [w \in Workers |-> {}]
    /\ code'   = [w \in Workers |-> "none"]
    /\ known'  = [w \in Workers |-> {}]
    /\ entitled' = {}
    /\ UNCHANGED <<tables, mails>>

-----------------------------------------------------------------------------
Init ==
    /\ teams   = [m \in Teams |-> Nil]
    /\ roles   = [m \in Teams |-> [u \in Users |-> Nil]]
    /\ pc      = [w \in Workers |-> "idle"]
    /\ call    = [w \in Workers |-> NoCall]
    /\ listed  = [w \in Workers |-> {}]
    /\ code    = [w \in Workers |-> "none"]
    /\ known   = [w \in Workers |-> {}]
    /\ mails   = {}
    /\ entitled = {}

Arrive(w) == CreateTeam(w) \/ InviteToTeam(w) \/ ListTeams(w)

Serve(w) ==
    \/ InsertTeam(w) \/ InsertOwner(w) \/ Commit(w)
    \/ GetTeamByID(w) \/ CheckRole(w) \/ GetByID(w) \/ SaveMember(w) \/ SendInvite(w)
    \/ GetTeamsByUser(w)
    \/ StorageError(w) \/ LostReply(w)
    \/ Respond(w)

Next == (\E w \in Workers : Arrive(w) \/ Serve(w)) \/ Crash

Spec == Init /\ [][Next]_vars

-----------------------------------------------------------------------------
(* Properties.                                                             *)

\* Every variable has its type.
TypeOK ==
    /\ teams   \in [Teams -> Users \cup {Nil}]
    /\ roles   \in [Teams -> [Users -> Roles \cup {Nil}]]
    /\ pc      \in [Workers -> MySQLPhases \cup {"idle", "notify", "done"}]
    /\ call    \in [Workers -> [op     : {"none", "create", "invite", "list"},
                                user   : Users \cup {Nil},
                                team   : Teams \cup {Nil},
                                target : Users \cup Strangers \cup {Nil}]]
    /\ listed  \in [Workers -> SUBSET Teams]
    /\ code    \in [Workers -> {"none", "ok", "forbidden", "not_found", "error"}]
    /\ known   \in [Workers -> SUBSET Teams]
    /\ mails   \in SUBSET (Teams \X Users)
    /\ entitled \in SUBSET Workers

\* The team service keeps its promise to the other services, whatever fails.
Promise == INSTANCE Membership WITH
    founder <- teams, members <- [m \in Teams |-> MembersOf(m)]
KeepsPromise == Promise!Spec

\* The rows of a team and of its founder are one: no crash or failure between
\* the two INSERTs leaves a team that nobody belongs to.
FounderIsMember ==
    \A m \in Teams : IF teams[m] = Nil THEN MembersOf(m) = {} ELSE teams[m] \in MembersOf(m)

\* An owner is the founder: no invitation makes a second one.
OwnerIsFounder ==
    \A m \in Teams, u \in Users : roles[m][u] \in {"owner", "admin"} => teams[m] = u

\* README: only owner and admin may invite. A row of team_members appears or changes
\* only for an invitation whose caller was owner or admin at some moment since it
\* arrived. More cannot be asked: the caller may have lost the role since CheckRole.
InvitedByOwnerOrAdmin ==
    [][\A m \in Teams, u \in Users :
          teams[m] # Nil /\ roles'[m][u] # roles[m][u] =>
              \E w \in entitled : call[w].op = "invite" /\ call[w].team = m /\ call[w].target = u]_vars

Answered(w, op) == pc[w] = "done" /\ code[w] = "ok" /\ call[w].op = op

\* An invitation that is answered 200 made the target a member, and a create
\* that is answered 201 made its caller one.
AckedIsMember ==
    \A w \in Workers :
        /\ Answered(w, "invite") => call[w].target \in MembersOf(call[w].team)
        /\ Answered(w, "create") => call[w].user \in MembersOf(call[w].team)

\* Nobody gets a mail about a team he is not a member of.
MailAfterJoin == \A p \in mails : p[2] \in MembersOf(p[1])

\* A list of teams has every team the caller belonged to when it was asked for,
\* and none the caller does not belong to.
ListIsComplete ==
    \A w \in Workers : Answered(w, "list") =>
        /\ known[w] \subseteq listed[w]
        /\ listed[w] \subseteq TeamsOf(call[w].user)

\* README: the creator of a team becomes its owner, and only owner and admin may
\* invite. A team has somebody who may.
SomebodyMayInvite ==
    \A m \in Teams : teams[m] # Nil => \E u \in Users : roles[m][u] \in {"owner", "admin"}

=============================================================================
