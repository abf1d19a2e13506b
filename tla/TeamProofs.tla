----------------------------- MODULE TeamProofs -----------------------------
(***************************************************************************)
(* Proofs about the team service: its inductive invariant, and that it     *)
(* keeps the promise of Membership.                                        *)
(***************************************************************************)
EXTENDS TeamService, TLAPS

-----------------------------------------------------------------------------
(* The inductive invariant.                                                *)

CreatePhases == {"insert_team", "insert_owner", "commit"}
InvitePhases == {"get_team", "role", "get_user", "save_member", "notify"}

\* What the phases of a request stand for. Between the role check and the INSERT
\* the caller stays the founder, if not the owner.
RequestOK(w) ==
    /\ pc[w] # "idle" => call[w].op # "none" /\ call[w].user \in Users
    /\ pc[w] = "idle" => call[w] = NoCall
    /\ call[w].op \in {"create", "invite"} => call[w].team \in Teams
    /\ call[w].op = "invite" => call[w].target \in Users \cup Strangers
    /\ pc[w] \in CreatePhases => call[w].op = "create" /\ teams[call[w].team] = Nil
    /\ pc[w] \in InvitePhases => call[w].op = "invite"
    /\ pc[w] \in {"get_user", "save_member"} => teams[call[w].team] = call[w].user
    /\ pc[w] \in {"save_member", "notify"} => call[w].target \in Users
    /\ pc[w] = "notify" => call[w].target \in MembersOf(call[w].team)
    /\ pc[w] = "list_teams" => call[w].op = "list"
    /\ known[w] \subseteq TeamsOf(call[w].user)

\* Two creates have different ids.
DistinctIds ==
    \A v, w \in Workers :
        call[v].op = "create" /\ call[w].op = "create" /\ call[v].team = call[w].team => v = w

\* Who may invite now is entitled, and so is who passed the role check.
EntitledOK ==
    \A w \in Workers : MayInvite(call[w]) \/ pc[w] \in {"get_user", "save_member"} => w \in entitled

TeamInv ==
    /\ TypeOK
    /\ \A w \in Workers : RequestOK(w)
    /\ DistinctIds /\ EntitledOK
    /\ FounderIsMember /\ OwnerIsFounder
    /\ AckedIsMember /\ MailAfterJoin /\ ListIsComplete

-----------------------------------------------------------------------------
(* What steps do to the tables.                                            *)

\* Rows are added, and a row of team_members may change its role.
Grows ==
    /\ \A m \in Teams : teams[m] # Nil => teams'[m] = teams[m]
    /\ \A m \in Teams, u \in Users : roles[m][u] # Nil => roles'[m][u] # Nil

Founds(w) == pc[w] = "commit" /\ CommitTeam(w) /\ Goto(w, "done")
Joins(w)  == pc[w] = "save_member" /\ UpsertMember(w)

LEMMA TableChange ==
    ASSUME [Next]_vars
    PROVE  UNCHANGED tables \/ \E w \in Workers : Founds(w) \/ Joins(w)
<1>1. ASSUME NEW w \in Workers, Arrive(w) PROVE UNCHANGED tables
  BY <1>1 DEF Arrive, CreateTeam, InviteToTeam, ListTeams, Begin
<1>2. ASSUME NEW w \in Workers, Serve(w) PROVE UNCHANGED tables \/ Founds(w) \/ Joins(w)
  BY <1>2 DEF Serve, InsertTeam, InsertOwner, Commit, GetTeamByID, CheckRole, GetByID, SaveMember,
     SendInvite, GetTeamsByUser, StorageError, LostReply, Respond, Reply, Founds,
     Joins
<1>. QED  BY <1>1, <1>2 DEF Next, Crash, vars

\* A founded team has one row in each table; a join changes one row of roles.
LEMMA FoundsRows ==
    ASSUME TeamInv, NEW w \in Workers, Founds(w), NEW m \in Teams
    PROVE  /\ call[w].team \in Teams /\ call[w].user \in Users
           /\ m # call[w].team => teams'[m] = teams[m] /\ roles'[m] = roles[m]
           /\ m = call[w].team =>
                 /\ teams[m] = Nil /\ teams'[m] = call[w].user
                 /\ roles'[m] = [u \in Users |-> IF u = call[w].user THEN "owner" ELSE Nil]
<1>1. /\ pc[w] = "commit" /\ call[w].team \in Teams /\ call[w].user \in Users
      /\ teams[call[w].team] = Nil
  BY DEF TeamInv, RequestOK, Founds, CreatePhases
<1>2. \A u \in Users : roles[call[w].team][u] = Nil
  BY <1>1 DEF TeamInv, FounderIsMember, MembersOf
<1>. QED  BY <1>1, <1>2 DEF Founds, CommitTeam, TeamInv, TypeOK

LEMMA JoinsRow ==
    ASSUME TeamInv, NEW w \in Workers, Joins(w), NEW m \in Teams, NEW u \in Users
    PROVE  /\ call[w].team \in Teams /\ call[w].target \in Users
           /\ teams' = teams /\ teams[call[w].team] = call[w].user /\ call[w].user \in Users
           /\ roles'[m][u] = IF m = call[w].team /\ u = call[w].target
                             THEN "member" ELSE roles[m][u]
<1>1. /\ pc[w] = "save_member" /\ call[w].team \in Teams /\ call[w].target \in Users
      /\ teams[call[w].team] = call[w].user /\ call[w].user \in Users
  BY DEF TeamInv, RequestOK, Joins, InvitePhases
<1>. QED  BY <1>1 DEF Joins, UpsertMember, TeamInv, TypeOK

LEMMA TablesGrow == ASSUME TeamInv, [Next]_vars PROVE Grows
<1>1. CASE UNCHANGED tables
  BY <1>1 DEF tables, Grows
<1>2. ASSUME NEW w \in Workers, Founds(w) PROVE Grows
  <2>1. ASSUME NEW m \in Teams PROVE /\ teams[m] # Nil => teams'[m] = teams[m]
                                     /\ \A u \in Users : roles[m][u] # Nil => roles'[m][u] # Nil
    <3>1. teams[m] = Nil => \A u \in Users : roles[m][u] = Nil
      BY DEF TeamInv, FounderIsMember, MembersOf
    <3>. QED  BY <1>2, <3>1, FoundsRows
  <2>. QED  BY <2>1 DEF Grows
<1>3. ASSUME NEW w \in Workers, Joins(w) PROVE Grows
  <2>1. teams' = teams
    BY <1>3 DEF Joins, UpsertMember
  <2>2. ASSUME NEW m \in Teams, NEW u \in Users, roles[m][u] # Nil PROVE roles'[m][u] # Nil
    BY <1>3, <2>2, JoinsRow, TeamConstants DEF TeamConstants, Roles
  <2>. QED  BY <2>1, <2>2 DEF Grows
<1>. QED  BY <1>1, <1>2, <1>3, TableChange

LEMMA TypeStep == ASSUME TeamInv, [Next]_vars PROVE TypeOK'
<1>. USE DEF TeamInv
<1>1. teams' \in [Teams -> Users \cup {Nil}] /\ roles' \in [Teams -> [Users -> Roles \cup {Nil}]]
  <2>1. CASE UNCHANGED tables
    BY <2>1 DEF tables, TypeOK
  <2>2. ASSUME NEW w \in Workers, Founds(w)
        PROVE  /\ teams' \in [Teams -> Users \cup {Nil}]
               /\ roles' \in [Teams -> [Users -> Roles \cup {Nil}]]
    <3>1. call[w].user \in Users
      BY <2>2 DEF Founds, RequestOK
    <3>. QED  BY <2>2, <3>1 DEF Founds, CommitTeam, TypeOK, Roles
  <2>3. ASSUME NEW w \in Workers, Joins(w)
        PROVE  /\ teams' \in [Teams -> Users \cup {Nil}]
               /\ roles' \in [Teams -> [Users -> Roles \cup {Nil}]]
    <3>1. call[w].user \in Users
      BY <2>3 DEF Joins, RequestOK
    <3>. QED  BY <2>3, <3>1 DEF Joins, UpsertMember, TypeOK, Roles
  <2>. QED  BY <2>1, <2>2, <2>3, TableChange
<1>2. ASSUME NEW w \in Workers, Arrive(w)
      PROVE  TypeOK'
  <2>1. ASSUME NEW c \in [op : {"create", "invite", "list"}, user : Users, team : Teams \cup {Nil},
                         target : Users \cup Strangers \cup {Nil}],
               NEW phase \in {"insert_team", "get_team", "list_teams"}, Begin(w, c, phase)
        PROVE  TypeOK'
    BY <1>1, <2>1 DEF Begin, TypeOK, Goto, MySQLPhases, TeamsOf
  <2>. QED  BY <1>2, <2>1 DEF Arrive, CreateTeam, InviteToTeam, ListTeams, Request
<1>3. ASSUME NEW w \in Workers, Serve(w) PROVE TypeOK'
  <2>0. entitled' \in SUBSET Workers
    BY <1>3 DEF Serve, TypeOK, InsertTeam, InsertOwner, Commit, CommitTeam, GetTeamByID, CheckRole,
       GetByID, SaveMember, UpsertMember, SendInvite, GetTeamsByUser, StorageError, LostReply, Respond
  <2>1. CASE SendInvite(w)
    <3>1. call[w].team \in Teams /\ call[w].target \in Users
      BY <2>1 DEF SendInvite, RequestOK, InvitePhases
    <3>. QED  BY <1>1, <2>1, <3>1 DEF SendInvite, TypeOK, Goto, Reply, MySQLPhases
  <2>2. CASE GetTeamsByUser(w)
    <3>1. TeamsOf(call[w].user) \in SUBSET Teams
      BY DEF TeamsOf
    <3>. QED  BY <1>1, <2>2, <3>1 DEF GetTeamsByUser, TypeOK, Goto, Reply, MySQLPhases
  <2>5. CASE Respond(w)
    BY <1>1, <2>5 DEF Respond, NoCall, Request, TypeOK, Goto, MySQLPhases
  <2>3. CASE GetTeamByID(w) \/ CheckRole(w) \/ GetByID(w) \/ StorageError(w) \/ LostReply(w)
    BY <1>1, <2>0, <2>3 DEF GetTeamByID, CheckRole, GetByID, StorageError, LostReply, TypeOK, Goto, Reply,
       MySQLPhases
  <2>4. CASE InsertTeam(w) \/ InsertOwner(w) \/ Commit(w) \/ SaveMember(w)
    BY <1>1, <2>0, <2>4 DEF InsertTeam, InsertOwner, Commit, SaveMember, TypeOK, Goto, Reply, MySQLPhases
  <2>. QED  BY <1>3, <2>1, <2>2, <2>3, <2>4, <2>5 DEF Serve
<1>4. CASE Crash
  BY <1>1, <1>4 DEF Crash, TypeOK, NoCall, Request, MySQLPhases
<1>5. CASE UNCHANGED vars
  BY <1>5 DEF vars, tables, TypeOK
<1>. QED  BY <1>2, <1>3, <1>4, <1>5 DEF Next

-----------------------------------------------------------------------------
(* Tables: founders and owners.                                            *)

LEMMA TablesStep ==
    ASSUME TeamInv, [Next]_vars PROVE FounderIsMember' /\ OwnerIsFounder'
<1>. USE DEF TeamInv
<1>1. CASE UNCHANGED tables
  BY <1>1 DEF tables, FounderIsMember, OwnerIsFounder, MembersOf
<1>2. ASSUME NEW w \in Workers, Founds(w)
      PROVE  FounderIsMember' /\ OwnerIsFounder'
  <2>. SUFFICES ASSUME NEW m \in Teams
                PROVE  /\ IF teams'[m] = Nil THEN MembersOf(m)' = {} ELSE teams'[m] \in MembersOf(m)'
                       /\ \A u \in Users : roles'[m][u] \in {"owner", "admin"} => teams'[m] = u
    BY DEF FounderIsMember, OwnerIsFounder, MembersOf
  <2>0. /\ call[w].team \in Teams /\ call[w].user \in Users
        /\ m # call[w].team => teams'[m] = teams[m] /\ roles'[m] = roles[m]
        /\ m = call[w].team =>
              /\ teams'[m] = call[w].user
              /\ roles'[m] = [u \in Users |-> IF u = call[w].user THEN "owner" ELSE Nil]
    BY <1>2, FoundsRows
  <2>1. CASE m # call[w].team
    <3>1. MembersOf(m)' = MembersOf(m)
      BY <2>0, <2>1 DEF MembersOf
    <3>. QED  BY <2>0, <2>1, <3>1 DEF FounderIsMember, OwnerIsFounder
  <2>2. CASE m = call[w].team
    <3>1. \A u \in Users : roles'[m][u] = IF u = call[w].user THEN "owner" ELSE Nil
      BY <2>0, <2>2
    <3>2. Nil \notin Users /\ Nil # "owner" /\ Nil # "admin"
      BY TeamConstants DEF TeamConstants, Roles
    <3>3. MembersOf(m)' = {call[w].user}
      BY <2>0, <3>1, <3>2 DEF MembersOf
    <3>. QED  BY <2>0, <2>2, <3>1, <3>2, <3>3
  <2>. QED  BY <2>1, <2>2
<1>3. ASSUME NEW w \in Workers, Joins(w)
      PROVE  FounderIsMember' /\ OwnerIsFounder'
  <2>. SUFFICES ASSUME NEW m \in Teams
                PROVE  /\ IF teams'[m] = Nil THEN MembersOf(m)' = {} ELSE teams'[m] \in MembersOf(m)'
                       /\ \A u \in Users : roles'[m][u] \in {"owner", "admin"} => teams'[m] = u
    BY DEF FounderIsMember, OwnerIsFounder, MembersOf
  <2>1. /\ teams' = teams /\ call[w].team \in Teams /\ call[w].target \in Users
        /\ teams[call[w].team] = call[w].user /\ call[w].user \in Users
    BY <1>3 DEF RequestOK, Joins, InvitePhases, UpsertMember
  <2>2. ASSUME NEW u \in Users
        PROVE  /\ roles'[m][u] = IF m = call[w].team /\ u = call[w].target
                                 THEN "member" ELSE roles[m][u]
    BY <1>3, JoinsRow
  <2>3. MembersOf(m)' = IF m = call[w].team THEN MembersOf(m) \cup {call[w].target} ELSE MembersOf(m)
    BY <2>1, <2>2, TeamConstants DEF MembersOf, TeamConstants, Roles
  <2>. QED  BY <2>1, <2>2, <2>3, TeamConstants DEF FounderIsMember, OwnerIsFounder, MembersOf, TeamConstants
<1>. QED  BY <1>1, <1>2, <1>3, TableChange

-----------------------------------------------------------------------------
(* Requests: one worker takes a step, the tables grow under the others.    *)

Waits(v) ==
    /\ pc'[v] = pc[v] /\ call'[v] = call[v] /\ known'[v] = known[v]
    /\ listed'[v] = listed[v] /\ code'[v] = code[v]

\* The part of the invariant that is about one worker.
AnswerOK(w) ==
    /\ Answered(w, "invite") => call[w].target \in MembersOf(call[w].team)
    /\ Answered(w, "create") => call[w].user \in MembersOf(call[w].team)
    /\ Answered(w, "list") => /\ known[w] \subseteq listed[w]
                              /\ listed[w] \subseteq TeamsOf(call[w].user)
WorkerOK(w) == RequestOK(w) /\ AnswerOK(w)

\* Nobody leaves a team.
LEMMA MembersStay ==
    ASSUME TeamInv, [Next]_vars
    PROVE  /\ \A m \in Teams : MembersOf(m) \subseteq MembersOf(m)'
           /\ \A u \in Users : TeamsOf(u) \subseteq TeamsOf(u)'
<1>1. Grows
  BY TablesGrow
<1>2. ASSUME NEW m \in Teams PROVE MembersOf(m) \subseteq MembersOf(m)'
  BY <1>1 DEF Grows, MembersOf
<1>3. ASSUME NEW u \in Users, NEW m \in TeamsOf(u) PROVE m \in TeamsOf(u)'
  BY <1>1, <1>2 DEF Grows, TeamsOf
<1>. QED  BY <1>2, <1>3

\* The id of a team is known to the worker that creates it and to no other.
LEMMA IdsAreReserved ==
    ASSUME TeamInv, [Next]_vars, NEW w \in Workers, Waits(w), pc[w] \in CreatePhases
    PROVE  teams'[call[w].team] = Nil
<1>. USE DEF TeamInv
<1>1. call[w].op = "create" /\ call[w].team \in Teams /\ teams[call[w].team] = Nil
  BY DEF RequestOK
<1>2. CASE UNCHANGED tables
  BY <1>1, <1>2 DEF tables
<1>3. ASSUME NEW v \in Workers, Founds(v), v # w PROVE teams'[call[w].team] = Nil
  <2>1. call[v].op = "create"
    BY <1>3 DEF RequestOK, Founds, CreatePhases
  <2>2. call[v].team # call[w].team
    BY <1>1, <1>3, <2>1 DEF DistinctIds
  <2>. QED  BY <1>1, <1>3, <2>2, FoundsRows
<1>4. ASSUME NEW v \in Workers, Joins(v) PROVE teams'[call[w].team] = Nil
  BY <1>1, <1>4 DEF Joins, UpsertMember
<1>5. ~Founds(w)
  BY DEF Founds, Goto, Waits, TypeOK
<1>. QED  BY <1>2, <1>3, <1>4, <1>5, TableChange

LEMMA WaitingStep ==
    ASSUME TeamInv, [Next]_vars, NEW w \in Workers, Waits(w)
    PROVE  WorkerOK(w)'
<1>. USE DEF TeamInv
<1>1. /\ \A m \in Teams : MembersOf(m) \subseteq MembersOf(m)'
      /\ \A u \in Users : TeamsOf(u) \subseteq TeamsOf(u)'
  BY MembersStay
<1>2. pc[w] \in {"get_user", "save_member"} => teams'[call[w].team] = call[w].user
  <2>1. SUFFICES ASSUME pc[w] \in {"get_user", "save_member"}
                 PROVE  teams'[call[w].team] = call[w].user
    OBVIOUS
  <2>2. /\ call[w].team \in Teams /\ call[w].user \in Users
        /\ teams[call[w].team] = call[w].user
    BY <2>1 DEF RequestOK, InvitePhases
  <2>. QED  BY <2>2, TablesGrow, TeamConstants DEF Grows, TeamConstants
<1>3. pc[w] \in CreatePhases => teams'[call[w].team] = Nil
  BY IdsAreReserved
<1>4. known[w] \subseteq TeamsOf(call[w].user)'
  <2>1. CASE pc[w] = "idle"
    <3>1. call[w].user = Nil /\ TeamsOf(call[w].user) = {}
      BY <2>1, TeamConstants DEF RequestOK, NoCall, Request, TeamsOf, MembersOf, TeamConstants
    <3>. QED  BY <3>1 DEF RequestOK
  <2>2. CASE pc[w] # "idle"
    BY <1>1, <2>2 DEF RequestOK, Waits
  <2>. QED  BY <2>1, <2>2
<1>5. RequestOK(w)'
  <2>1. pc[w] = "notify" => call[w].target \in MembersOf(call[w].team)'
    BY <1>1 DEF RequestOK, InvitePhases, Waits
  <2>. QED  BY <1>2, <1>3, <1>4, <2>1 DEF RequestOK, Waits
<1>6. AnswerOK(w)'
  <2>1. Answered(w, "invite") => call[w].target \in MembersOf(call[w].team)'
    BY <1>1 DEF AckedIsMember, Answered, RequestOK, Waits
  <2>2. Answered(w, "create") => call[w].user \in MembersOf(call[w].team)'
    BY <1>1 DEF AckedIsMember, Answered, RequestOK, Waits
  <2>3. Answered(w, "list") => /\ known[w] \subseteq listed[w]
                               /\ listed[w] \subseteq TeamsOf(call[w].user)'
    BY <1>1 DEF ListIsComplete, Answered, RequestOK, Waits
  <2>. QED  BY <2>1, <2>2, <2>3 DEF AnswerOK, Answered, Waits
<1>. QED  BY <1>5, <1>6 DEF WorkerOK

\* A worker with no request.
LEMMA IdleIsOK ==
    ASSUME NEW w \in Workers, pc'[w] = "idle", call'[w] = NoCall, known'[w] = {}
    PROVE  WorkerOK(w)'
  BY DEF WorkerOK, RequestOK, AnswerOK, Answered, NoCall, Request, CreatePhases, InvitePhases

LEMMA ArriveStep ==
    ASSUME TeamInv, NEW w \in Workers, Arrive(w)
    PROVE  WorkerOK(w)' /\ DistinctIds' /\ \A v \in Workers \ {w} : Waits(v)
<1>. USE DEF TeamInv
<1>1. ASSUME NEW c \in [op : {"create", "invite", "list"}, user : Users, team : Teams \cup {Nil},
                       target : Users \cup Strangers \cup {Nil}],
             NEW phase \in {"insert_team", "get_team", "list_teams"}, Begin(w, c, phase),
             c.op = "create" => /\ phase = "insert_team" /\ c.team \in Teams /\ teams[c.team] = Nil
                                /\ \A v \in Workers : ~(call[v].op = "create" /\ call[v].team = c.team),
             c.op = "invite" => /\ phase = "get_team" /\ c.team \in Teams
                                /\ c.target \in Users \cup Strangers,
             c.op = "list" => phase = "list_teams"
      PROVE  WorkerOK(w)' /\ DistinctIds' /\ \A v \in Workers \ {w} : Waits(v)
  <2>1. /\ pc'[w] = phase /\ call'[w] = c /\ known'[w] = TeamsOf(c.user)
        /\ \A v \in Workers \ {w} : Waits(v)
    BY <1>1 DEF Begin, Goto, TypeOK, Waits
  <2>2. TeamsOf(c.user)' = TeamsOf(c.user) /\ teams' = teams
    BY <1>1 DEF Begin, tables, TeamsOf, MembersOf
  <2>3. RequestOK(w)'
    BY <1>1, <2>1, <2>2 DEF RequestOK, CreatePhases, InvitePhases
  <2>4. AnswerOK(w)'
    BY <2>1 DEF AnswerOK, Answered
  <2>5. DistinctIds'
    BY <1>1, <2>1 DEF DistinctIds, Waits
  <2>. QED  BY <2>1, <2>3, <2>4, <2>5 DEF WorkerOK
<1>2. CASE CreateTeam(w)
  BY <1>1, <1>2 DEF CreateTeam, Request
<1>3. CASE InviteToTeam(w)
  BY <1>1, <1>3 DEF InviteToTeam, Request
<1>4. CASE ListTeams(w)
  BY <1>1, <1>4 DEF ListTeams, Request
<1>. QED  BY <1>2, <1>3, <1>4 DEF Arrive

\* The request a worker serves does not change until it is answered.
LEMMA ServeFrame ==
    ASSUME TeamInv, NEW w \in Workers, Serve(w)
    PROVE  /\ \A v \in Workers \ {w} : Waits(v)
           /\ Respond(w) \/ (call' = call /\ known' = known)
<1>. USE DEF TeamInv, TypeOK, Waits, Goto, Reply
<1>1. CASE Respond(w)
  BY <1>1 DEF Respond
<1>2. CASE InsertTeam(w) \/ InsertOwner(w) \/ Commit(w) \/ SaveMember(w) \/ SendInvite(w)
  BY <1>2 DEF InsertTeam, InsertOwner, Commit, SaveMember, SendInvite
<1>3. CASE GetTeamByID(w) \/ CheckRole(w) \/ GetByID(w)
  BY <1>3 DEF GetTeamByID, CheckRole, GetByID
<1>4. CASE StorageError(w) \/ LostReply(w) \/ GetTeamsByUser(w)
  BY <1>4 DEF StorageError, LostReply, GetTeamsByUser
<1>. QED  BY <1>1, <1>2, <1>3, <1>4 DEF Serve

\* One step per call: what the worker learnt from it holds when it goes on.
LEMMA ServeStep ==
    ASSUME TeamInv, NEW w \in Workers, Serve(w)
    PROVE  WorkerOK(w)'
<1>. USE DEF TeamInv
<1>0. [Next]_vars /\ RequestOK(w)
  BY DEF Next
<1>1. CASE Respond(w)
  <2>1. pc'[w] = "idle" /\ call'[w] = NoCall /\ known'[w] = {}
    BY <1>1 DEF Respond, Goto, TypeOK
  <2>. QED  BY <2>1, IdleIsOK
<1>. USE DEF TypeOK, Goto, Reply
<1>2. /\ \A m \in Teams : MembersOf(m) \subseteq MembersOf(m)'
      /\ \A u \in Users : TeamsOf(u) \subseteq TeamsOf(u)'
  BY <1>0, MembersStay
<1>3. ASSUME pc'[w] = "done", call' = call, known' = known, pc[w] # "idle" PROVE RequestOK(w)'
  BY <1>0, <1>2, <1>3 DEF RequestOK, CreatePhases, InvitePhases
<1>4. ASSUME pc'[w] # "done" \/ code'[w] # "ok" PROVE AnswerOK(w)'
  BY <1>4 DEF AnswerOK, Answered
<1>5. CASE InsertTeam(w) \/ InsertOwner(w)
  <2>1. /\ pc[w] \in CreatePhases /\ pc'[w] \in CreatePhases /\ pc'[w] \in {"insert_owner", "commit"}
        /\ call' = call /\ known' = known /\ teams' = teams /\ roles' = roles
    BY <1>5 DEF InsertTeam, InsertOwner, CreatePhases, tables
  <2>2. TeamsOf(call[w].user)' = TeamsOf(call[w].user)
    BY <2>1 DEF TeamsOf, MembersOf
  <2>3. RequestOK(w)'
    BY <1>0, <2>1, <2>2 DEF RequestOK, CreatePhases, InvitePhases
  <2>. QED  BY <1>4, <2>1, <2>3 DEF WorkerOK
<1>6. CASE Commit(w)
  <2>1. /\ pc[w] = "commit" /\ pc'[w] = "done" /\ call' = call /\ known' = known /\ CommitTeam(w)
    BY <1>6 DEF Commit
  <2>2. call[w].op = "create" /\ call[w].team \in Teams /\ call[w].user \in Users
    BY <1>0, <2>1 DEF RequestOK, CreatePhases
  <2>3. call[w].user \in MembersOf(call[w].team)'
    BY <2>1, <2>2, TeamConstants DEF CommitTeam, MembersOf, TeamConstants, Roles
  <2>4. AnswerOK(w)'
    BY <2>1, <2>2, <2>3 DEF AnswerOK, Answered
  <2>. QED  BY <1>3, <2>1, <2>4 DEF WorkerOK
<1>7. CASE GetTeamByID(w) \/ CheckRole(w) \/ GetByID(w)
  <2>1. /\ call' = call /\ known' = known /\ teams' = teams /\ roles' = roles
        /\ pc[w] \in InvitePhases
        /\ pc'[w] = "done" => code'[w] # "ok"
        /\ pc'[w] \in {"done", "role", "get_user", "save_member"}
        /\ pc'[w] = "get_user" => roles[call[w].team][call[w].user] \in {"owner", "admin"}
        /\ pc'[w] = "save_member" => pc[w] = "get_user" /\ call[w].target \in Users
    BY <1>7 DEF GetTeamByID, CheckRole, GetByID, tables, InvitePhases
  <2>2. call[w].op = "invite" /\ call[w].team \in Teams /\ call[w].user \in Users
    BY <1>0, <2>1 DEF RequestOK, InvitePhases
  <2>3. pc'[w] \in {"get_user", "save_member"} => teams[call[w].team] = call[w].user
    BY <1>0, <2>1, <2>2 DEF OwnerIsFounder, RequestOK
  <2>4. TeamsOf(call[w].user)' = TeamsOf(call[w].user)
    BY <2>1 DEF TeamsOf, MembersOf
  <2>5. RequestOK(w)'
    BY <1>0, <2>1, <2>2, <2>3, <2>4 DEF RequestOK, CreatePhases, InvitePhases
  <2>. QED  BY <1>4, <2>1, <2>5 DEF WorkerOK
<1>8. CASE SaveMember(w)
  <2>1. /\ pc[w] = "save_member" /\ pc'[w] = "notify" /\ call' = call /\ known' = known
        /\ UpsertMember(w)
    BY <1>8 DEF SaveMember
  <2>2. /\ call[w].op = "invite" /\ call[w].team \in Teams /\ call[w].user \in Users
        /\ call[w].target \in Users /\ known[w] \subseteq TeamsOf(call[w].user)
    BY <1>0, <2>1 DEF RequestOK, InvitePhases
  <2>3. call[w].target \in MembersOf(call[w].team)'
    BY <2>1, <2>2, TeamConstants DEF UpsertMember, MembersOf, TeamConstants, Roles
  <2>4. RequestOK(w)'
    BY <1>2, <2>1, <2>2, <2>3 DEF RequestOK, CreatePhases, InvitePhases
  <2>. QED  BY <1>4, <2>1, <2>4 DEF WorkerOK
<1>9. CASE SendInvite(w)
  <2>1. pc[w] = "notify" /\ pc'[w] = "done" /\ call' = call /\ known' = known
    BY <1>9 DEF SendInvite
  <2>2. /\ call[w].op = "invite" /\ call[w].team \in Teams
        /\ call[w].target \in MembersOf(call[w].team)
    BY <1>0, <2>1 DEF RequestOK, InvitePhases
  <2>3. AnswerOK(w)'
    BY <1>2, <2>1, <2>2 DEF AnswerOK, Answered
  <2>. QED  BY <1>3, <2>1, <2>3 DEF WorkerOK
<1>10. CASE GetTeamsByUser(w)
  <2>1. /\ pc[w] = "list_teams" /\ pc'[w] = "done" /\ call' = call /\ known' = known
        /\ listed'[w] = TeamsOf(call[w].user)
    BY <1>10 DEF GetTeamsByUser
  <2>2. call[w].op = "list" /\ call[w].user \in Users /\ known[w] \subseteq TeamsOf(call[w].user)
    BY <1>0, <2>1 DEF RequestOK
  <2>3. AnswerOK(w)'
    BY <1>2, <2>1, <2>2 DEF AnswerOK, Answered
  <2>. QED  BY <1>3, <2>1, <2>3 DEF WorkerOK
<1>11. CASE StorageError(w) \/ LostReply(w)
  <2>1. /\ pc[w] # "idle" /\ pc'[w] = "done" /\ code'[w] = "error" /\ call' = call /\ known' = known
    BY <1>11 DEF StorageError, LostReply, MySQLPhases
  <2>. QED  BY <1>3, <1>4, <2>1 DEF WorkerOK
<1>. QED
  BY <1>1, <1>5, <1>6, <1>7, <1>8, <1>9, <1>10, <1>11 DEF Serve

LEMMA EntitledStep == ASSUME TeamInv, [Next]_vars PROVE EntitledOK'
<1>. USE DEF TeamInv
<1>1. ASSUME NEW w \in Workers, Arrive(w) PROVE EntitledOK'
  <2>1. ASSUME NEW c, NEW phase \in {"insert_team", "get_team", "list_teams"}, Begin(w, c, phase)
        PROVE  EntitledOK'
    <3>1. /\ roles' = roles /\ call'[w] = c /\ pc'[w] = phase
          /\ \A v \in Workers \ {w} : call'[v] = call[v] /\ pc'[v] = pc[v]
          /\ entitled \subseteq entitled' /\ (MayInvite(c) => w \in entitled')
      BY <2>1 DEF Begin, Goto, TypeOK, tables
    <3>. QED  BY <3>1 DEF EntitledOK, MayInvite
  <2>. QED  BY <1>1, <2>1 DEF Arrive, CreateTeam, InviteToTeam, ListTeams
<1>2. ASSUME NEW w \in Workers, Respond(w) PROVE EntitledOK'
  <2>1. /\ roles' = roles /\ call'[w].op = "none" /\ pc'[w] = "idle"
        /\ \A v \in Workers \ {w} : call'[v] = call[v] /\ pc'[v] = pc[v]
        /\ entitled' = entitled \ {w}
    BY <1>2 DEF Respond, Goto, TypeOK, tables, NoCall, Request
  <2>. QED  BY <2>1 DEF EntitledOK, MayInvite
<1>3. ASSUME NEW w \in Workers, Serve(w), ~Respond(w) PROVE EntitledOK'
  <2>1. /\ call' = call /\ \A v \in Workers \ {w} : pc'[v] = pc[v]
        /\ pc'[w] \in {"get_user", "save_member"} =>
              pc[w] \in {"get_user", "save_member"} \/ MayInvite(call[w])
    <3>1. call' = call /\ \A v \in Workers \ {w} : pc'[v] = pc[v]
      BY <1>3, ServeFrame DEF Waits
    <3>2. CASE CheckRole(w)
      <4>1. call[w].op = "invite"
        BY <3>2 DEF CheckRole, RequestOK, InvitePhases
      <4>. QED  BY <3>1, <3>2, <4>1 DEF CheckRole, MayInvite, Goto, Reply, TypeOK
    <3>. QED  BY <1>3, <3>1, <3>2 DEF Serve, InsertTeam, InsertOwner, Commit, GetTeamByID, GetByID,
                SaveMember, SendInvite, GetTeamsByUser, StorageError, LostReply, Goto, Reply, TypeOK
  <2>2. ASSUME NEW v \in Workers PROVE /\ v \in entitled => v \in entitled'
                                       /\ MayInvite(call[v])' => MayInvite(call[v]) \/ v \in entitled'
    <3>1. CASE roles' = roles /\ entitled' = entitled
      BY <2>1, <3>1 DEF MayInvite
    <3>2. CASE Commit(w) \/ (pc[w] = "commit" /\ LostReply(w))
      <4>1. /\ call[w].team \in Teams /\ call[w].user \in Users /\ CommitTeam(w)
        BY <3>2 DEF Commit, LostReply, RequestOK, CreatePhases
      <4>2. v \in entitled => v \in entitled'
        BY <4>1 DEF CommitTeam
      <4>3. ASSUME call[v].op = "invite" PROVE call[v].team \in Teams /\ call[v].user \in Users
        BY <4>3 DEF RequestOK, NoCall, Request
      <4>4. ASSUME call[v].op = "invite", ~(call[v].team = call[w].team /\ call[v].user = call[w].user)
            PROVE  roles'[call[v].team][call[v].user] = roles[call[v].team][call[v].user]
        BY <4>1, <4>3, <4>4 DEF CommitTeam, TypeOK
      <4>. QED  BY <2>1, <4>1, <4>2, <4>4 DEF MayInvite, CommitTeam
    <3>3. CASE SaveMember(w) \/ (pc[w] = "save_member" /\ LostReply(w))
      <4>1. /\ Joins(w) /\ entitled' = entitled
        BY <3>3 DEF SaveMember, LostReply, UpsertMember, Joins
      <4>2. ASSUME call[v].op = "invite" PROVE call[v].team \in Teams /\ call[v].user \in Users
        BY <4>2 DEF RequestOK, NoCall, Request
      <4>. QED  BY <2>1, <4>1, <4>2, JoinsRow DEF MayInvite
    <3>. QED  BY <1>3, <3>1, <3>2, <3>3 DEF Serve, InsertTeam, InsertOwner, GetTeamByID, CheckRole, GetByID,
                SendInvite, GetTeamsByUser, StorageError, LostReply, tables
  <2>. QED  BY <2>1, <2>2 DEF EntitledOK
<1>4. CASE Crash
  <2>1. \A v \in Workers : call'[v].op = "none" /\ pc'[v] = "idle"
    BY <1>4 DEF Crash, NoCall, Request
  <2>. QED  BY <2>1 DEF EntitledOK, MayInvite
<1>5. CASE UNCHANGED vars
  BY <1>5 DEF vars, tables, EntitledOK, MayInvite
<1>. QED  BY <1>1, <1>2, <1>3, <1>4, <1>5 DEF Next

LEMMA MailStep == ASSUME TeamInv, [Next]_vars PROVE MailAfterJoin'
<1>. USE DEF TeamInv
<1>1. \A m \in Teams : MembersOf(m) \subseteq MembersOf(m)'
  BY MembersStay
<1>2. CASE mails' = mails
  BY <1>1, <1>2 DEF MailAfterJoin, TypeOK
<1>3. ASSUME NEW w \in Workers, SendInvite(w) PROVE MailAfterJoin'
  <2>1. call[w].team \in Teams /\ call[w].target \in MembersOf(call[w].team)
    BY <1>3 DEF SendInvite, RequestOK, InvitePhases
  <2>2. mails' \subseteq mails \cup {<<call[w].team, call[w].target>>}
    BY <1>3 DEF SendInvite
  <2>3. ASSUME NEW p \in mails' PROVE p[2] \in MembersOf(p[1])'
    <3>1. CASE p \in mails
      BY <1>1, <3>1 DEF MailAfterJoin, TypeOK
    <3>2. CASE p = <<call[w].team, call[w].target>>
      BY <1>1, <2>1, <3>2
    <3>. QED  BY <2>2, <3>1, <3>2
  <2>. QED  BY <2>3 DEF MailAfterJoin
<1>4. mails' = mails \/ \E w \in Workers : SendInvite(w)
  BY DEF Next, vars, Crash, Arrive, CreateTeam, InviteToTeam, ListTeams, Begin, Serve, InsertTeam,
     InsertOwner, Commit, GetTeamByID, CheckRole, GetByID, SaveMember, GetTeamsByUser, StorageError,
     LostReply, Respond
<1>. QED  BY <1>2, <1>3, <1>4

-----------------------------------------------------------------------------
(* The invariant is inductive.                                             *)

LEMMA TeamInit == Init => TeamInv
  BY TeamConstants DEF Init, TeamInv, TypeOK, RequestOK, DistinctIds, FounderIsMember, OwnerIsFounder,
     AckedIsMember, MailAfterJoin, ListIsComplete, MembersOf, TeamsOf, NoCall, Request,
     Answered, CreatePhases, InvitePhases, MySQLPhases, TeamConstants, Roles, EntitledOK, MayInvite

LEMMA WorkersStep ==
    ASSUME TeamInv, [Next]_vars PROVE DistinctIds' /\ \A w \in Workers : WorkerOK(w)'
<1>1. ASSUME NEW w \in Workers, Arrive(w)
      PROVE  DistinctIds' /\ \A v \in Workers : WorkerOK(v)'
  BY <1>1, ArriveStep, WaitingStep
<1>2. ASSUME NEW w \in Workers, Serve(w)
      PROVE  DistinctIds' /\ \A v \in Workers : WorkerOK(v)'
  <2>1. \A v \in Workers : WorkerOK(v)'
    BY <1>2, ServeStep, ServeFrame, WaitingStep
  <2>2. DistinctIds'
    <3>1. CASE Respond(w)
      BY <3>1 DEF Respond, DistinctIds, TeamInv, TypeOK, NoCall, Request
    <3>2. CASE call' = call
      BY <3>2 DEF DistinctIds, TeamInv
    <3>. QED  BY <1>2, <3>1, <3>2, ServeFrame
  <2>. QED  BY <2>1, <2>2
<1>3. CASE Crash
  <2>1. ASSUME NEW v \in Workers PROVE pc'[v] = "idle" /\ call'[v] = NoCall /\ known'[v] = {}
    BY <1>3 DEF Crash
  <2>2. \A v \in Workers : WorkerOK(v)'
    BY <2>1, IdleIsOK
  <2>. QED  BY <2>1, <2>2 DEF DistinctIds, NoCall, Request
<1>4. CASE UNCHANGED vars
  <2>1. ASSUME NEW v \in Workers PROVE Waits(v)
    BY <1>4 DEF vars, Waits
  <2>2. DistinctIds'
    BY <1>4 DEF vars, DistinctIds, TeamInv
  <2>. QED  BY <2>1, <2>2, WaitingStep
<1>. QED  BY <1>1, <1>2, <1>3, <1>4 DEF Next

LEMMA TeamStep == TeamInv /\ [Next]_vars => TeamInv'
<1>. SUFFICES ASSUME TeamInv, [Next]_vars PROVE TeamInv'
  OBVIOUS
<1>1. TypeOK' /\ FounderIsMember' /\ OwnerIsFounder' /\ MailAfterJoin' /\ EntitledOK'
  BY TypeStep, TablesStep, MailStep, EntitledStep
<1>2. DistinctIds' /\ \A w \in Workers : WorkerOK(w)'
  BY WorkersStep
<1>3. AckedIsMember' /\ ListIsComplete'
  BY <1>2 DEF WorkerOK, AnswerOK, AckedIsMember, ListIsComplete
<1>. QED  BY <1>1, <1>2, <1>3 DEF TeamInv, WorkerOK

\* The inductive invariant holds in every reachable state.
THEOREM TeamInvariant == Spec => []TeamInv
  BY TeamInit, TeamStep, PTL DEF Spec

-----------------------------------------------------------------------------
(* The properties of TeamService.                                          *)

\* Every variable of the team service keeps its type; in particular no stranger gets
\* a row in team_members.
THEOREM TeamTypes == Spec => []TypeOK
<1>1. TeamInv => TypeOK
  BY DEF TeamInv
<1>. QED  BY <1>1, TeamInvariant, PTL

\* CreateTeamWithOwner is all or nothing: a team has its founder as a member, and an
\* id that names no team has no members.
THEOREM TeamHasItsFounder == Spec => []FounderIsMember
<1>1. TeamInv => FounderIsMember
  BY DEF TeamInv
<1>. QED  BY <1>1, TeamInvariant, PTL

\* No sequence of invitations makes anybody but the founder owner or admin.
THEOREM NoSecondOwner == Spec => []OwnerIsFounder
<1>1. TeamInv => OwnerIsFounder
  BY DEF TeamInv
<1>. QED  BY <1>1, TeamInvariant, PTL

\* Invite: a row of a team appears or changes only for a request whose caller was owner
\* or admin at some moment of it, although the role is checked two calls before the row
\* is saved and the caller may lose it in between.
THEOREM OnlyOwnersAndAdminsInvite == Spec => InvitedByOwnerOrAdmin
<1>. DEFINE Invited == \A m \in Teams, u \in Users : teams[m] # Nil /\ roles'[m][u] # roles[m][u] =>
              \E w \in entitled : call[w].op = "invite" /\ call[w].team = m /\ call[w].target = u
<1>1. TeamInv /\ [Next]_vars => [Invited]_vars
  <2>. SUFFICES ASSUME TeamInv, [Next]_vars, NEW m \in Teams, NEW u \in Users, teams[m] # Nil,
                       roles'[m][u] # roles[m][u]
                PROVE  \E w \in entitled : /\ call[w].op = "invite" /\ call[w].team = m
                                           /\ call[w].target = u
    OBVIOUS
  <2>1. PICK w \in Workers : Founds(w) \/ Joins(w)
    BY TableChange DEF tables
  <2>2. ~Founds(w)
    BY FoundsRows
  <2>3. Joins(w) /\ m = call[w].team /\ u = call[w].target
    BY <2>1, <2>2, JoinsRow
  <2>4. call[w].op = "invite" /\ w \in entitled
    BY <2>3 DEF TeamInv, RequestOK, EntitledOK, Joins, InvitePhases
  <2>. QED  BY <2>3, <2>4
<1>. QED  BY <1>1, TeamInvariant, PTL DEF Spec, InvitedByOwnerOrAdmin

\* What Create and Invite answer with success is in team_members.
THEOREM AckedMembership == Spec => []AckedIsMember
<1>1. TeamInv => AckedIsMember
  BY DEF TeamInv
<1>. QED  BY <1>1, TeamInvariant, PTL

\* The invitation mail goes out only after the row is there.
THEOREM MailsGoToMembers == Spec => []MailAfterJoin
<1>1. TeamInv => MailAfterJoin
  BY DEF TeamInv
<1>. QED  BY <1>1, TeamInvariant, PTL

\* ListForUser returns every team its caller belonged to when the request arrived.
THEOREM TeamListsAreComplete == Spec => []ListIsComplete
<1>1. TeamInv => ListIsComplete
  BY DEF TeamInv
<1>. QED  BY <1>1, TeamInvariant, PTL

-----------------------------------------------------------------------------
(* TeamService implements Membership: CommitTeam is Found, the first       *)
(* UpsertMember of a row is Join, every other step is a stutter.           *)

LEMMA PromiseInit == Init => Promise!Init
  BY DEF Init, Promise!Init, MembersOf

LEMMA PromiseStep ==
    ASSUME TeamInv, [Next]_vars
    PROVE  [Promise!Next]_<<teams, [m \in Teams |-> MembersOf(m)]>>
<1>. DEFINE members == [m \in Teams |-> MembersOf(m)]
<1>. USE DEF TeamInv
<1>1. CASE UNCHANGED tables
  BY <1>1 DEF tables, MembersOf
<1>2. ASSUME NEW w \in Workers, Founds(w)
      PROVE  Promise!Found(call[w].team, call[w].user) /\ call[w].team \in Teams
             /\ call[w].user \in Users
  <2>1. /\ call[w].team \in Teams /\ call[w].user \in Users /\ teams[call[w].team] = Nil
    BY <1>2 DEF Founds, RequestOK, CreatePhases
  <2>2. teams' = [teams EXCEPT ![call[w].team] = call[w].user]
    BY <1>2 DEF Founds, CommitTeam
  <2>3. ASSUME NEW m \in Teams, m # call[w].team PROVE MembersOf(m)' = MembersOf(m)
    <3>1. roles'[m] = roles[m]
      BY <1>2, <2>3, FoundsRows
    <3>. QED  BY <3>1 DEF MembersOf
  <2>4. ASSUME NEW m \in Teams, m = call[w].team PROVE MembersOf(m)' = {call[w].user}
    <3>1. roles'[m] = [u \in Users |-> IF u = call[w].user THEN "owner" ELSE Nil]
      BY <1>2, <2>4, FoundsRows
    <3>2. Nil # "owner"
      BY TeamConstants DEF TeamConstants, Roles
    <3>. QED  BY <2>1, <3>1, <3>2 DEF MembersOf
  <2>5. members' = [members EXCEPT ![call[w].team] = {call[w].user}]
    BY <2>1, <2>3, <2>4
  <2>. QED  BY <2>1, <2>2, <2>5 DEF Promise!Found
<1>3. ASSUME NEW w \in Workers, Joins(w)
      PROVE  \/ UNCHANGED <<teams, members>>
             \/ /\ Promise!Join(call[w].team, call[w].target)
                /\ call[w].team \in Teams /\ call[w].target \in Users
  <2>1. /\ teams' = teams /\ call[w].team \in Teams /\ call[w].target \in Users
        /\ teams[call[w].team] = call[w].user /\ call[w].user \in Users
    BY <1>3 DEF RequestOK, Joins, InvitePhases, UpsertMember
  <2>2. ASSUME NEW m \in Teams
        PROVE  MembersOf(m)' = IF m = call[w].team THEN MembersOf(m) \cup {call[w].target}
                                                   ELSE MembersOf(m)
    <3>1. ASSUME NEW u \in Users
          PROVE  roles'[m][u] = IF m = call[w].team /\ u = call[w].target
                                THEN "member" ELSE roles[m][u]
      BY <1>3, JoinsRow
    <3>. QED  BY <2>1, <3>1, TeamConstants DEF MembersOf, TeamConstants, Roles
  <2>3. members' = [members EXCEPT ![call[w].team] = @ \cup {call[w].target}]
    BY <2>1, <2>2
  <2>4. CASE call[w].target \in MembersOf(call[w].team)
    <3>1. \A m \in Teams : MembersOf(m)' = MembersOf(m)
      BY <2>2, <2>4
    <3>. QED  BY <2>1, <3>1
  <2>5. CASE call[w].target \notin MembersOf(call[w].team)
    <3>1. teams[call[w].team] # Nil
      BY <2>1, TeamConstants DEF TeamConstants
    <3>2. call[w].target \notin members[call[w].team]
      BY <2>1, <2>5
    <3>. QED  BY <2>1, <2>3, <3>1, <3>2 DEF Promise!Join
  <2>. QED  BY <2>4, <2>5
<1>. QED  BY <1>1, <1>2, <1>3, TableChange DEF Promise!Next

\* The team service implements Membership, the promise the task service relies on:
\* whatever fails, teams appear with their founder, members join and nobody leaves.
THEOREM PromiseIsKept == Spec => KeepsPromise
<1>1. Init => Promise!Init
  BY PromiseInit
<1>2. TeamInv /\ [Next]_vars => [Promise!Next]_<<teams, [m \in Teams |-> MembersOf(m)]>>
  BY PromiseStep
<1>. QED  BY <1>1, <1>2, TeamInvariant, PTL DEF Spec, KeepsPromise, Promise!Spec
=============================================================================
