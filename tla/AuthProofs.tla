----------------------------- MODULE AuthProofs -----------------------------
(***************************************************************************)
(* Proofs about registration, login and sessions: the inductive invariant  *)
(* of AuthService, and from it every property the module states.           *)
(***************************************************************************)
EXTENDS AuthService, TLAPS

-----------------------------------------------------------------------------
(* The inductive invariant.                                                *)

RegisterPhases == {"find_email", "hash", "save_user"}

\* What the phases of a request stand for. The row that a login has read stays the
\* row of its email, and the user of the context is set by ParseToken alone.
RequestOK(w) ==
    /\ pc[w] = "idle" => call[w] = NoCall /\ user[w] = Nil
    /\ call[w].op \in {"register", "login"} => call[w].email \in Emails /\ call[w].password \in Passwords
    /\ call[w].op = "register" => call[w].id \in Ids
    /\ pc[w] \in RegisterPhases => call[w].op = "register" /\ users[call[w].id] = Nil
    /\ pc[w] = "save_user" => call[w].password \notin LongPasswords
    /\ pc[w] \in {"get_user", "sign"} => call[w].op = "login"
    /\ pc[w] = "sign" => /\ user[w] \in Ids /\ users[user[w]] # Nil
                         /\ users[user[w]].email = call[w].email
    /\ pc[w] = "parse_token" => call[w].op = "session" /\ user[w] = Nil
    /\ pc[w] = "handler" => call[w].op = "session"

\* Two registrations have different ids.
OwnIds ==
    \A v, w \in Workers : call[v].id # Nil /\ call[v].id = call[w].id => v = w

\* The unique key on email.
OneAccountPerEmail ==
    \A i, j \in Ids :
        users[i] # Nil /\ users[j] # Nil /\ users[i].email = users[j].email => i = j

\* A token is of an account that logged in when the token was made, or later.
Genuine(t) == users[t.sub] # Nil /\ since[t.sub] <= t.age

\* The tokens that requests carry were signed like those that clients still hold.
GenuineTokens ==
    /\ \A t \in tokens : Genuine(t)
    /\ \A w \in Workers : call[w].token # Nil => Genuine(call[w].token)

RegisterOK(w) ==
    /\ Answered(w, "register", "ok") => users[call[w].id] = Account(call[w].email, call[w].password)
    /\ Answered(w, "register", "conflict") =>
          WithEmail(call[w].email) # {} /\ users[call[w].id] = Nil

LoginOK(w) ==
    Answered(w, "login", "ok") =>
        /\ user[w] \in Ids /\ users[user[w]] # Nil /\ users[user[w]].email = call[w].email
        /\ SameKey(users[user[w]].password, call[w].password)

AuthInv ==
    /\ TypeOK
    /\ \A w \in Workers : RequestOK(w) /\ RegisterOK(w) /\ LoginOK(w)
    /\ OwnIds /\ OneAccountPerEmail /\ GenuineTokens

-----------------------------------------------------------------------------
(* What steps do to the table and to the requests.                         *)

Inserts(w) == pc[w] = "save_user" /\ pc'[w] = "done" /\ Insert(w)

\* A step of w leaves the requests of the others alone.
OnlyOf(w) ==
    \A v \in Workers \ {w} :
        /\ pc'[v] = pc[v] /\ call'[v] = call[v]
        /\ code'[v] = code[v] /\ user'[v] = user[v]

Begins(w) == BeginRegister(w) \/ BeginLogin(w) \/ BeginSession(w)

\* The table users changes by the INSERT of one registration only.
LEMMA StepOf ==
    ASSUME TypeOK, NEW w \in Workers, Begins(w) \/ Serve(w)
    PROVE  OnlyOf(w) /\ (users' = users \/ Inserts(w))
<1>1. CASE Begins(w)
  BY <1>1 DEF Begins, BeginRegister, BeginLogin, BeginSession, Begin, Goto, TypeOK, OnlyOf
<1>2. CASE Serve(w)
  <2>1. CASE FindByEmail(w) \/ HashPassword(w)
    BY <2>1 DEF FindByEmail, HashPassword, Reply, Goto, TypeOK, OnlyOf
  <2>2. CASE SaveUser(w) \/ LostReply(w)
    BY <2>2 DEF SaveUser, LostReply, Reply, Goto, TypeOK, OnlyOf, Inserts
  <2>3. CASE GetByEmail(w) \/ CompareAndSign(w)
    BY <2>3 DEF GetByEmail, CompareAndSign, Sign, Reply, Goto, TypeOK, OnlyOf
  <2>4. CASE ParseToken(w) \/ Handle(w)
    BY <2>4 DEF ParseToken, Handle, Reply, Goto, TypeOK, OnlyOf
  <2>5. CASE StorageError(w) \/ Respond(w)
    BY <2>5 DEF StorageError, Respond, Reply, Goto, TypeOK, OnlyOf
  <2>. QED  BY <1>2, <2>1, <2>2, <2>3, <2>4, <2>5 DEF Serve
<1>. QED  BY <1>1, <1>2

\* The INSERT adds a row under the id of the request, and no other row has its email.
LEMMA InsertRow ==
    ASSUME AuthInv, NEW w \in Workers, Inserts(w)
    PROVE  /\ call[w].id \in Ids /\ users[call[w].id] = Nil
           /\ Account(call[w].email, call[w].password) \in Accounts
           /\ Account(call[w].email, call[w].password) # Nil
           /\ users'[call[w].id] = Account(call[w].email, call[w].password)
           /\ \A i \in Ids \ {call[w].id} : users'[i] = users[i]
           /\ \A i \in Ids : users[i] # Nil => users[i].email # call[w].email
           /\ users' \in [Ids -> Accounts \cup {Nil}]
<1>1. /\ call[w].id \in Ids /\ users[call[w].id] = Nil /\ call[w].email \in Emails
      /\ call[w].password \in Passwords \ LongPasswords
  BY DEF AuthInv, RequestOK, Inserts, RegisterPhases
<1>2. /\ Account(call[w].email, call[w].password) \in Accounts
      /\ Account(call[w].email, call[w].password) # Nil
  BY <1>1, AuthConstants DEF Account, Accounts
<1>3. users \in [Ids -> Accounts \cup {Nil}]
  BY DEF AuthInv, TypeOK
<1>. QED  BY <1>1, <1>2, <1>3 DEF Inserts, Insert, WithEmail

\* The requests of others keep what is known of them while a row is added.
LEMMA OthersKeep ==
    ASSUME AuthInv, NEW w \in Workers, OnlyOf(w), users' = users \/ Inserts(w),
           NEW v \in Workers \ {w}
    PROVE  RequestOK(v)' /\ RegisterOK(v)' /\ LoginOK(v)'
<1>1. /\ pc'[v] = pc[v] /\ call'[v] = call[v] /\ code'[v] = code[v] /\ user'[v] = user[v]
      /\ RequestOK(v) /\ RegisterOK(v) /\ LoginOK(v)
  BY DEF OnlyOf, AuthInv
<1>2. CASE users' = users
  BY <1>1, <1>2 DEF RequestOK, RegisterOK, LoginOK, Answered, WithEmail
<1>3. CASE Inserts(w)
  <2>1. \A i \in Ids : users[i] # Nil => users'[i] = users[i]
    BY <1>3, InsertRow
  <2>2. call[v].id \in Ids => users'[call[v].id] = users[call[v].id]
    BY <1>3, InsertRow, AuthConstants DEF AuthInv, OwnIds
  <2>3. \A e : WithEmail(e) # {} => WithEmail(e)' # {}
    BY <2>1 DEF WithEmail
  <2>4. RequestOK(v)'
    BY <1>1, <2>1, <2>2 DEF RequestOK, RegisterPhases
  <2>5. RegisterOK(v)'
    BY <1>1, <2>2, <2>3 DEF RegisterOK, Answered, RequestOK
  <2>6. LoginOK(v)'
    BY <1>1, <2>1 DEF LoginOK, Answered, RequestOK, SameKey
  <2>. QED  BY <2>4, <2>5, <2>6
<1>. QED  BY <1>2, <1>3

-----------------------------------------------------------------------------
(* One request, action by action.                                          *)

Kept(w) == RequestOK(w) /\ RegisterOK(w) /\ LoginOK(w)

\* What the three kinds of request come with, and where each starts.
NewRequest(c) ==
    /\ c \in [op : {"register", "login", "session"}, email : Emails \cup {Nil},
              password : Passwords \cup {Nil}, id : Ids \cup {Nil}, token : AllTokens \cup {Nil}]
    /\ c.op \in {"register", "login"} => c.email \in Emails /\ c.password \in Passwords
    /\ c.op = "register" => c.id \in Ids /\ users[c.id] = Nil
    /\ c.op # "register" => c.id = Nil
    /\ c.id # Nil => \A v \in Workers : call[v].id # c.id
    /\ c.token # Nil => c.token \in tokens
FirstPhase(c) ==
    CASE c.op = "register" -> "find_email"
      [] c.op = "login"    -> "get_user"
      [] c.op = "session"  -> "parse_token"

LEMMA BeginKeeps ==
    ASSUME AuthInv, NEW w \in Workers, Begins(w)
    PROVE  Kept(w)' /\ TypeOK' /\ OwnIds' /\ GenuineTokens'
<1>. USE AuthConstants DEF AuthInv
<1>1. TypeOK /\ pc[w] = "idle" /\ user[w] = Nil /\ UNCHANGED <<users, code, user, tokens, since>>
  BY DEF Begins, BeginRegister, BeginLogin, BeginSession, Begin, RequestOK
<1>2. PICK c : NewRequest(c) /\ call' = [call EXCEPT ![w] = c]
                              /\ pc' = [pc EXCEPT ![w] = FirstPhase(c)]
  <2>1. CASE BeginRegister(w)
    <3>1. PICK e \in Emails, p \in Passwords, i \in Ids :
              /\ users[i] = Nil /\ \A v \in Workers : call[v].id # i
              /\ Begin(w, Request("register", e, p, i, Nil), "find_email")
      BY <2>1 DEF BeginRegister
    <3>2. NewRequest(Request("register", e, p, i, Nil))
      BY <3>1 DEF NewRequest, Request
    <3>3. FirstPhase(Request("register", e, p, i, Nil)) = "find_email"
      BY DEF FirstPhase, Request
    <3>. QED  BY <3>1, <3>2, <3>3 DEF Begin, Goto
  <2>2. CASE BeginLogin(w)
    <3>1. PICK e \in Emails, p \in Passwords : Begin(w, Request("login", e, p, Nil, Nil), "get_user")
      BY <2>2 DEF BeginLogin
    <3>2. NewRequest(Request("login", e, p, Nil, Nil))
      BY <3>1 DEF NewRequest, Request
    <3>3. FirstPhase(Request("login", e, p, Nil, Nil)) = "get_user"
      BY DEF FirstPhase, Request
    <3>. QED  BY <3>1, <3>2, <3>3 DEF Begin, Goto
  <2>3. CASE BeginSession(w)
    <3>1. PICK t \in tokens \cup {Nil} : Begin(w, Request("session", Nil, Nil, Nil, t), "parse_token")
      BY <2>3 DEF BeginSession
    <3>2. NewRequest(Request("session", Nil, Nil, Nil, t))
      BY <1>1, <3>1 DEF NewRequest, Request, TypeOK
    <3>3. FirstPhase(Request("session", Nil, Nil, Nil, t)) = "parse_token"
      BY DEF FirstPhase, Request
    <3>. QED  BY <3>1, <3>2, <3>3 DEF Begin, Goto
  <2>. QED  BY <2>1, <2>2, <2>3 DEF Begins
<1>3. TypeOK'
  BY <1>1, <1>2 DEF TypeOK, NewRequest, FirstPhase
<1>4. Kept(w)'
  BY <1>1, <1>2 DEF TypeOK, NewRequest, FirstPhase, Kept, RequestOK, RegisterOK, LoginOK, Answered,
     RegisterPhases
<1>5. OwnIds'
  BY <1>1, <1>2 DEF TypeOK, NewRequest, OwnIds
<1>6. GenuineTokens'
  BY <1>1, <1>2 DEF TypeOK, NewRequest, GenuineTokens, Genuine
<1>. QED  BY <1>3, <1>4, <1>5, <1>6

LEMMA RegisterKeeps ==
    ASSUME AuthInv, NEW w \in Workers,
           FindByEmail(w) \/ HashPassword(w) \/ SaveUser(w) \/ LostReply(w)
    PROVE  Kept(w)' /\ TypeOK'
<1>1. TypeOK /\ RequestOK(w)
  BY DEF AuthInv
<1>2. CASE FindByEmail(w)
  BY <1>1, <1>2 DEF FindByEmail, Reply, Goto, TypeOK, Kept, RequestOK, RegisterOK, LoginOK,
     Answered, RegisterPhases, WithEmail
<1>3. CASE HashPassword(w)
  BY <1>1, <1>3 DEF HashPassword, Reply, Goto, TypeOK, Kept, RequestOK, RegisterOK, LoginOK,
     Answered, RegisterPhases
<1>4. CASE SaveUser(w) /\ WithEmail(call[w].email) # {}
  <2>1. /\ pc[w] = "save_user" /\ UNCHANGED <<users, call, user, tokens, since>>
        /\ pc' = [pc EXCEPT ![w] = "done"] /\ code' = [code EXCEPT ![w] = "conflict"]
    BY <1>4 DEF SaveUser, Insert, Reply, Goto
  <2>2. WithEmail(call[w].email)' # {}
    BY <1>4, <2>1 DEF WithEmail
  <2>3. TypeOK'
    BY <1>1, <2>1 DEF TypeOK
  <2>4. Kept(w)'
    BY <1>1, <2>1, <2>2 DEF TypeOK, Kept, RequestOK, RegisterOK, LoginOK, Answered, RegisterPhases
  <2>. QED  BY <2>3, <2>4
<1>5. CASE (SaveUser(w) \/ LostReply(w)) /\ Insert(w)
  <2>1. Inserts(w) /\ UNCHANGED <<call, user, tokens, since>>
    BY <1>1, <1>5 DEF SaveUser, LostReply, Reply, Goto, TypeOK, Inserts
  <2>2. /\ users' \in [Ids -> Accounts \cup {Nil}]
        /\ users'[call[w].id] = Account(call[w].email, call[w].password)
    BY <2>1, InsertRow
  <2>3. pc' = [pc EXCEPT ![w] = "done"] /\ \E c \in {"ok", "error"} : code' = [code EXCEPT ![w] = c]
    <3>1. WithEmail(call[w].email) = {}
      BY <1>5 DEF Insert
    <3>. QED  BY <3>1, <1>5 DEF SaveUser, LostReply, Reply, Goto
  <2>4. TypeOK'
    BY <1>1, <2>1, <2>2, <2>3 DEF TypeOK
  <2>5. Kept(w)'
    BY <1>1, <2>1, <2>2, <2>3 DEF TypeOK, Kept, RequestOK, RegisterOK, LoginOK, Answered,
       RegisterPhases, Inserts
  <2>. QED  BY <2>4, <2>5
<1>. QED  BY <1>2, <1>3, <1>4, <1>5 DEF SaveUser, LostReply

LEMMA LoginKeeps ==
    ASSUME AuthInv, NEW w \in Workers, GetByEmail(w) \/ CompareAndSign(w)
    PROVE  Kept(w)' /\ TypeOK' /\ GenuineTokens'
<1>1. TypeOK /\ RequestOK(w) /\ GenuineTokens
  BY DEF AuthInv
<1>2. CASE GetByEmail(w)
  <2>1. /\ UNCHANGED <<users, call, tokens, since>> /\ pc[w] = "get_user"
        /\ \/ pc' = [pc EXCEPT ![w] = "done"] /\ code' = [code EXCEPT ![w] = "unauthorized"]
              /\ user' = user
           \/ /\ pc' = [pc EXCEPT ![w] = "sign"] /\ code' = code
              /\ \E i \in Ids : /\ user' = [user EXCEPT ![w] = i]
                                /\ users[i] # Nil /\ users[i].email = call[w].email
    BY <1>2 DEF GetByEmail, Reply, Goto, WithEmail
  <2>2. TypeOK'
    <3>1. /\ pc' \in [Workers -> {"idle", "find_email", "hash", "save_user", "get_user", "sign",
                                  "parse_token", "handler", "done"}]
          /\ code' \in [Workers -> {"none", "ok", "conflict", "unauthorized", "error"}]
      <4>1. pc' \in {[pc EXCEPT ![w] = "done"], [pc EXCEPT ![w] = "sign"]}
        BY <2>1
      <4>2. code' \in {code, [code EXCEPT ![w] = "unauthorized"]}
        BY <2>1
      <4>. QED  BY <1>1, <4>1, <4>2 DEF TypeOK
    <3>2. user' \in [Workers -> Ids \cup {Nil}]
      BY <1>1, <2>1 DEF TypeOK
    <3>. QED  BY <1>1, <2>1, <3>1, <3>2 DEF TypeOK
  <2>3. Kept(w)'
    BY <1>1, <2>1 DEF TypeOK, Kept, RequestOK, RegisterOK, LoginOK, Answered, RegisterPhases
  <2>. QED  BY <1>1, <2>1, <2>2, <2>3 DEF GenuineTokens, Genuine
<1>3. CASE CompareAndSign(w)
  <2>1. /\ pc[w] = "sign" /\ user[w] \in Ids /\ users[user[w]] \in Accounts
        /\ users[user[w]].email = call[w].email /\ users[user[w]] # Nil
        /\ UNCHANGED <<users, call, user>> /\ pc' = [pc EXCEPT ![w] = "done"]
    BY <1>1, <1>3 DEF CompareAndSign, Sign, Reply, Goto, TypeOK, RequestOK
  <2>2. CASE SameKey(users[user[w]].password, call[w].password) /\ Sign(w, user[w])
    <3>2. TypeOK'
      BY <1>1, <2>1, <2>2, AuthConstants DEF Sign, Reply, TypeOK, AllTokens, Token
    <3>3. Kept(w)'
      BY <1>1, <2>1, <2>2 DEF Sign, Reply, TypeOK, Kept, RequestOK, RegisterOK, LoginOK,
         Answered, RegisterPhases, SameKey
    <3>4. GenuineTokens'
      <4>1. \A i \in Ids : since'[i] = since[i] \/ since'[i] = 0
        BY <1>1, <2>1, <2>2 DEF Sign, TypeOK
      <4>2. ASSUME NEW t \in AllTokens, Genuine(t) PROVE Genuine(t)'
        BY <1>1, <2>1, <4>1, <4>2 DEF Genuine, AllTokens, TypeOK
      <4>3. Genuine(Token(user[w], 0))'
        BY <1>1, <2>1, <2>2 DEF Genuine, Token, Sign, TypeOK
      <4>. QED  BY <1>1, <2>1, <2>2, <4>2, <4>3 DEF GenuineTokens, Sign, TypeOK
    <3>. QED  BY <3>2, <3>3, <3>4
  <2>3. CASE ~SameKey(users[user[w]].password, call[w].password)
    <3>1. Reply(w, "unauthorized") /\ UNCHANGED <<tokens, since>>
      BY <1>3, <2>3 DEF CompareAndSign
    <3>2. Kept(w)' /\ TypeOK'
      BY <1>1, <2>1, <3>1 DEF Reply, TypeOK, Kept, RequestOK, RegisterOK, LoginOK, Answered,
         RegisterPhases
    <3>. QED  BY <1>1, <2>1, <3>1, <3>2 DEF GenuineTokens, Genuine
  <2>. QED  BY <1>3, <2>2, <2>3 DEF CompareAndSign
<1>. QED  BY <1>2, <1>3

\* ParseToken, Handle, a failed query and the end of a request.
LEMMA RestKeeps ==
    ASSUME AuthInv, NEW w \in Workers,
           ParseToken(w) \/ Handle(w) \/ StorageError(w) \/ Respond(w)
    PROVE  Kept(w)' /\ TypeOK'
<1>1. TypeOK /\ RequestOK(w)
  BY DEF AuthInv
<1>2. CASE ParseToken(w)
  BY <1>1, <1>2 DEF ParseToken, Reply, Goto, TypeOK, AllTokens, Kept, RequestOK, RegisterOK, LoginOK,
     Answered, RegisterPhases
<1>3. CASE Handle(w)
  BY <1>1, <1>3 DEF Handle, Reply, Goto, TypeOK, Kept, RequestOK, RegisterOK, LoginOK,
     Answered, RegisterPhases
<1>4. CASE StorageError(w)
  BY <1>1, <1>4 DEF StorageError, Reply, Goto, TypeOK, Kept, RequestOK, RegisterOK, LoginOK,
     Answered, RegisterPhases
<1>5. CASE Respond(w)
  BY <1>1, <1>5 DEF Respond, Goto, TypeOK, Kept, RequestOK, RegisterOK, LoginOK,
     Answered, RegisterPhases, NoCall, Request
<1>. QED  BY <1>2, <1>3, <1>4, <1>5

-----------------------------------------------------------------------------
(* Every step.                                                             *)

\* A served request leaves the request itself, and so the ids in progress, as they
\* are, or ends it; a token of the others stays genuine when a row is added.
LEMMA ServeKeeps ==
    ASSUME AuthInv, NEW w \in Workers, Serve(w)
    PROVE  Kept(w)' /\ TypeOK' /\ OwnIds' /\ GenuineTokens'
<1>1. TypeOK /\ OwnIds /\ GenuineTokens
  BY DEF AuthInv
<1>2. Kept(w)' /\ TypeOK'
  BY RegisterKeeps, LoginKeeps, RestKeeps DEF Serve
<1>3. call' = call \/ call' = [call EXCEPT ![w] = NoCall]
  BY DEF Serve, FindByEmail, HashPassword, SaveUser, GetByEmail, CompareAndSign, ParseToken,
     Handle, StorageError, LostReply, Respond
<1>4. OwnIds'
  BY <1>1, <1>3 DEF TypeOK, OwnIds, NoCall, Request
<1>5. CASE GetByEmail(w) \/ CompareAndSign(w)
  BY <1>2, <1>4, <1>5, LoginKeeps
<1>6. CASE ~(GetByEmail(w) \/ CompareAndSign(w))
  <2>1. UNCHANGED <<tokens, since>>
    BY <1>6 DEF Serve, FindByEmail, HashPassword, SaveUser, ParseToken,
       Handle, StorageError, LostReply, Respond
  <2>2. \A i \in Ids : users[i] # Nil => users'[i] # Nil
    BY <1>1, StepOf, InsertRow
  <2>3. \A t \in AllTokens : Genuine(t) => Genuine(t)'
    BY <2>1, <2>2 DEF Genuine, AllTokens
  <2>4. GenuineTokens'
    BY <1>1, <1>3, <2>1, <2>3 DEF TypeOK, GenuineTokens, NoCall, Request
  <2>. QED  BY <1>2, <1>4, <2>4
<1>. QED  BY <1>5, <1>6

LEMMA EmailsStayUnique ==
    ASSUME AuthInv, NEW w \in Workers, users' = users \/ Inserts(w)
    PROVE  OneAccountPerEmail'
<1>1. CASE users' = users
  BY <1>1 DEF AuthInv, OneAccountPerEmail
<1>2. CASE Inserts(w)
  <2>1. users'[call[w].id] = Account(call[w].email, call[w].password)
    BY <1>2, InsertRow
  <2>2. users'[call[w].id].email = call[w].email
    BY <2>1 DEF Account
  <2>. QED  BY <1>2, <2>2, InsertRow DEF AuthInv, OneAccountPerEmail
<1>. QED  BY <1>1, <1>2

\* A tick makes the tokens and the time since each login older by the same amount.
LEMMA TickKeeps ==
    ASSUME AuthInv, Tick
    PROVE  AuthInv'
<1>. USE AuthConstants DEF AuthInv
<1>1. TypeOK /\ GenuineTokens /\ UNCHANGED <<users, pc, code, user>>
  BY DEF Tick
<1>2. \A t \in AllTokens : Older(t) \in AllTokens /\ Older(t).sub = t.sub
  BY DEF AllTokens, Older, Valid, Token
<1>3. \A t \in AllTokens : Genuine(t) => Genuine(Older(t))'
  BY <1>1 DEF Genuine, AllTokens, Older, Valid, Token, Tick, TypeOK
<1>4. ASSUME NEW w \in Workers
      PROVE  /\ call'[w].op = call[w].op /\ call'[w].email = call[w].email
             /\ call'[w].password = call[w].password /\ call'[w].id = call[w].id
             /\ call[w].token = Nil => call'[w] = call[w]
             /\ call[w].token # Nil => call'[w].token = Older(call[w].token)
             /\ call'[w] \in [op : {"none", "register", "login", "session"},
                              email : Emails \cup {Nil}, password : Passwords \cup {Nil},
                              id : Ids \cup {Nil}, token : AllTokens \cup {Nil}]
  <2>1. call[w] \in [op : {"none", "register", "login", "session"},
                     email : Emails \cup {Nil}, password : Passwords \cup {Nil},
                     id : Ids \cup {Nil}, token : AllTokens \cup {Nil}]
    BY <1>1 DEF TypeOK
  <2>2. call'[w] = IF call[w].token = Nil THEN call[w]
                   ELSE [call[w] EXCEPT !.token = Older(call[w].token)]
    BY DEF Tick
  <2>. QED  BY <1>2, <2>1, <2>2
<1>5. TypeOK'
  <2>1. tokens' \in SUBSET AllTokens
    BY <1>1, <1>2 DEF Tick, TypeOK
  <2>2. since' \in [Ids -> 0..Expiry]
    BY <1>1 DEF Tick, TypeOK
  <2>3. call' = [w \in Workers |-> call'[w]]
    BY DEF Tick
  <2>. QED  BY <1>1, <1>4, <2>1, <2>2, <2>3 DEF TypeOK
<1>6. \A w \in Workers : call[w] = NoCall => call'[w] = NoCall
  BY <1>4 DEF NoCall, Request
<1>7. \A w \in Workers : RequestOK(w)' /\ RegisterOK(w)' /\ LoginOK(w)'
  BY <1>1, <1>4, <1>6 DEF RequestOK, RegisterOK, LoginOK, Answered, WithEmail
<1>8. GenuineTokens'
  BY <1>1, <1>3, <1>4 DEF Tick, TypeOK, GenuineTokens
<1>9. OwnIds' /\ OneAccountPerEmail'
  BY <1>1, <1>4 DEF OwnIds, OneAccountPerEmail
<1>. QED  BY <1>5, <1>7, <1>8, <1>9

LEMMA AuthInvInit == Init => AuthInv
<1>. SUFFICES ASSUME Init PROVE AuthInv
  OBVIOUS
<1>1. TypeOK
  BY AuthConstants DEF Init, TypeOK, NoCall, Request
<1>2. \A w \in Workers : RequestOK(w) /\ RegisterOK(w) /\ LoginOK(w)
  BY DEF Init, RequestOK, RegisterOK, LoginOK, Answered, RegisterPhases, NoCall, Request
<1>3. OwnIds /\ OneAccountPerEmail /\ GenuineTokens
  BY DEF Init, OwnIds, OneAccountPerEmail, GenuineTokens, NoCall, Request
<1>. QED  BY <1>1, <1>2, <1>3 DEF AuthInv

LEMMA AuthInvNext == AuthInv /\ [Next]_vars => AuthInv'
<1>. SUFFICES ASSUME AuthInv, [Next]_vars PROVE AuthInv'
  OBVIOUS
<1>1. TypeOK
  BY DEF AuthInv
<1>2. ASSUME NEW w \in Workers, Begins(w) \/ Serve(w) PROVE AuthInv'
  <2>1. OnlyOf(w) /\ (users' = users \/ Inserts(w))
    BY <1>1, <1>2, StepOf
  <2>2. Kept(w)' /\ TypeOK' /\ OwnIds' /\ GenuineTokens'
    BY <1>2, BeginKeeps, ServeKeeps
  <2>3. \A v \in Workers \ {w} : RequestOK(v)' /\ RegisterOK(v)' /\ LoginOK(v)'
    BY <2>1, OthersKeep
  <2>4. OneAccountPerEmail'
    BY <2>1, EmailsStayUnique
  <2>. QED  BY <2>2, <2>3, <2>4 DEF AuthInv, Kept
<1>3. CASE Tick
  BY <1>3, TickKeeps
<1>4. CASE Forget
  <2>1. UNCHANGED <<users, pc, call, code, user, since>> /\ tokens' \subseteq tokens
    BY <1>4 DEF Forget
  <2>2. TypeOK' /\ GenuineTokens' /\ OwnIds' /\ OneAccountPerEmail'
    BY <2>1 DEF AuthInv, TypeOK, GenuineTokens, Genuine, OwnIds, OneAccountPerEmail
  <2>. QED  BY <2>1, <2>2 DEF AuthInv, RequestOK, RegisterOK, LoginOK, Answered, WithEmail
<1>5. CASE Crash
  <2>1. TypeOK'
    BY <1>1, <1>5, AuthConstants DEF Crash, TypeOK, NoCall, Request
  <2>2. \A w \in Workers : RequestOK(w)' /\ RegisterOK(w)' /\ LoginOK(w)'
    BY <1>5 DEF Crash, RequestOK, RegisterOK, LoginOK, Answered, RegisterPhases, NoCall, Request
  <2>3. OwnIds' /\ OneAccountPerEmail' /\ GenuineTokens'
    BY <1>5 DEF Crash, AuthInv, OwnIds, OneAccountPerEmail, GenuineTokens, Genuine, NoCall, Request
  <2>. QED  BY <2>1, <2>2, <2>3 DEF AuthInv
<1>6. CASE UNCHANGED vars
  BY <1>6 DEF vars, AuthInv, TypeOK, RequestOK, RegisterOK, LoginOK, Answered, WithEmail, OwnIds,
     OneAccountPerEmail, GenuineTokens, Genuine
<1>. QED  BY <1>2, <1>3, <1>4, <1>5, <1>6 DEF Next, Begins

-----------------------------------------------------------------------------
(* The properties.                                                         *)

\* The inductive invariant holds in every reachable state.
THEOREM AuthInvariant == Spec => []AuthInv
BY AuthInvInit, AuthInvNext, PTL DEF Spec

\* Every variable has its type: no account has a password that bcrypt refuses, and no
\* token is for nobody.
THEOREM AuthTypes == Spec => []TypeOK
<1>1. AuthInv => TypeOK
  BY DEF AuthInv
<1>. QED  BY <1>1, AuthInvariant, PTL

\* Register: whoever is answered 201 made the one account of the email; 409 means the
\* email is taken and this request made nothing.
THEOREM RegistrationsAreTrue == Spec => []RegisterTellsTheTruth
<1>1. AuthInv => RegisterTellsTheTruth
  <2>. SUFFICES ASSUME AuthInv, NEW w \in Workers, Answered(w, "register", "ok")
                PROVE  WithEmail(call[w].email) = {call[w].id}
    BY DEF AuthInv, RegisterOK, RegisterTellsTheTruth
  <2>1. /\ call[w].id \in Ids /\ call[w].email \in Emails /\ call[w].password \in Passwords
        /\ users[call[w].id] = Account(call[w].email, call[w].password)
    BY DEF AuthInv, RequestOK, RegisterOK, Answered
  <2>2. users[call[w].id] # Nil /\ users[call[w].id].email = call[w].email
    BY <2>1, AuthConstants DEF Account
  <2>. QED  BY <2>1, <2>2 DEF AuthInv, OneAccountPerEmail, WithEmail
<1>. QED  BY <1>1, AuthInvariant, PTL

\* Login and the tokens it signs: nobody gets one for an account without its email and
\* a password that bcrypt takes for that of the account, whatever passwords are tried,
\* the long ones included.
THEOREM OnlyOwnersLogIn == Spec => []OnlyOwnersGetIn
<1>1. AuthInv => OnlyOwnersGetIn
  <2>. SUFFICES ASSUME AuthInv
                PROVE  \A w \in Workers : Answered(w, "login", "ok") =>
                          /\ WithEmail(call[w].email) = {user[w]}
                          /\ SameKey(users[user[w]].password, call[w].password)
    BY DEF AuthInv, GenuineTokens, Genuine, OnlyOwnersGetIn
  <2>1. SUFFICES ASSUME NEW w \in Workers, Answered(w, "login", "ok")
                 PROVE  /\ WithEmail(call[w].email) = {user[w]}
                        /\ SameKey(users[user[w]].password, call[w].password)
    OBVIOUS
  <2>2. /\ user[w] \in Ids /\ users[user[w]] # Nil /\ users[user[w]].email = call[w].email
        /\ SameKey(users[user[w]].password, call[w].password)
    BY <2>1 DEF AuthInv, LoginOK
  <2>. QED  BY <2>2 DEF AuthInv, OneAccountPerEmail, WithEmail
<1>. QED  BY <1>1, AuthInvariant, PTL

\* SaveUser: the unique key keeps a later registration from an existing account.
THEOREM AccountsStay == Spec => AccountsAreStable
<1>1. AuthInv /\ [Next]_vars => [\A i \in Ids : users[i] # Nil => users'[i] = users[i]]_vars
  <2>. SUFFICES ASSUME AuthInv, [Next]_vars, NEW i \in Ids, users[i] # Nil
                PROVE  users'[i] = users[i]
    OBVIOUS
  <2>1. TypeOK
    BY DEF AuthInv
  <2>2. ASSUME NEW w \in Workers, Begins(w) \/ Serve(w) PROVE users'[i] = users[i]
    BY <2>1, <2>2, StepOf, InsertRow
  <2>3. CASE Tick \/ Forget \/ Crash \/ UNCHANGED vars
    BY <2>3 DEF Tick, Forget, Crash, vars
  <2>. QED  BY <2>2, <2>3 DEF Next, Begins
<1>. QED  BY <1>1, AuthInvariant, PTL DEF Spec, AccountsAreStable

\* ParseToken: who passes as a user logged in less than Expiry ago.
THEOREM SessionsExpire == Spec => SessionsEnd
<1>1. AuthInv /\ [Next]_vars =>
          [\A w \in Workers : pc[w] = "parse_token" /\ user'[w] # Nil => since[user'[w]] < Expiry]_vars
  <2>. SUFFICES ASSUME AuthInv, [Next]_vars, NEW v \in Workers,
                       pc[v] = "parse_token", user'[v] # Nil
                PROVE  since[user'[v]] < Expiry
    OBVIOUS
  <2>1. TypeOK /\ GenuineTokens /\ user[v] = Nil
    BY DEF AuthInv, RequestOK
  <2>2. ASSUME NEW w \in Workers, Begins(w) \/ Serve(w) PROVE since[user'[v]] < Expiry
    <3>1. v = w
      BY <2>1, <2>2, StepOf DEF OnlyOf
    <3>2. ParseToken(w)
      BY <2>1, <2>2, <3>1 DEF Begins, BeginRegister, BeginLogin, BeginSession, Begin, Serve,
         FindByEmail, HashPassword, SaveUser, GetByEmail, CompareAndSign, Handle, StorageError,
         LostReply, Respond
    <3>3. /\ call[w].token # Nil /\ Valid(call[w].token)
          /\ user' = [user EXCEPT ![w] = call[w].token.sub]
      BY <2>1, <3>1, <3>2 DEF ParseToken
    <3>. QED  BY <2>1, <3>1, <3>3, AuthConstants DEF GenuineTokens, Genuine, Valid, TypeOK, AllTokens
  <2>3. CASE Tick \/ Forget \/ Crash \/ UNCHANGED vars
    BY <2>1, <2>3 DEF Tick, Forget, Crash, vars
  <2>. QED  BY <2>2, <2>3 DEF Next, Begins
<1>. QED  BY <1>1, AuthInvariant, PTL DEF Spec, SessionsEnd
=============================================================================
