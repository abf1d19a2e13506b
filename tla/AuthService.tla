---------------------------- MODULE AuthService ----------------------------
(***************************************************************************)
(* auth.Service (Register, Login) with the MySQL table users, and the JWT  *)
(* middleware that later requests pass.                                    *)
(*                                                                         *)
(* A worker serves one request; an action is one call to MySQL, or the     *)
(* work between two calls. Phases (pc):                                    *)
(*   register   find_email, hash, save_user                                *)
(*   login      get_user, sign                                             *)
(*   session    parse_token, handler                                       *)
(* A token is stateless: it lives with the clients and survives a crash.   *)
(* The model keeps the age of each token in ticks; Expiry is JWTExpiry.    *)
(*                                                                         *)
(* Definitions marked "Mutant" are faulty variants of the code that the    *)
(* specification does not use.                                             *)
(***************************************************************************)
EXTENDS Integers, FiniteSets

CONSTANTS
    Workers,
    Emails,             \* emails that differ in the collation of the table
    Passwords,
    LongPasswords,      \* those of more than 72 bytes, which bcrypt refuses to hash
    Key,                \* what bcrypt looks at when it compares: the password and a zero
                        \* byte, repeated, up to the 72nd byte
    Ids,                \* the ids uuid.NewV7 may hand out
    Nil,
    Expiry,             \* life of a token, in ticks
    MaxTokens,          \* bound: tokens in the hands of clients
    Faults              \* the failures that may happen

ASSUME AuthConstants ==
    /\ LongPasswords \subseteq Passwords
    /\ DOMAIN Key = Passwords
    /\ Expiry \in Nat \ {0} /\ MaxTokens \in Nat
    /\ Nil \notin Emails \cup Passwords \cup Ids
    /\ Nil \notin [email : Emails, password : Passwords] \cup [sub : Ids, age : 0..Expiry]
    /\ Faults \subseteq {"mysql", "lost_reply", "crash"}

\* The columns of users that matter; the password stands for its hash.
Account(e, p) == [email |-> e, password |-> p]

VARIABLES
    users,      \* table users: [Ids -> Account or Nil]
    pc, call, code,
    user,       \* id of the row a login found, or of the context of a session
    tokens,     \* tokens of the clients: set of [sub, age]
    since       \* auxiliary: ticks since each account last logged in, up to Expiry

vars == <<users, pc, call, code, user, tokens, since>>

Token(i, age) == [sub |-> i, age |-> age]
Valid(t) == t.age < Expiry

Request(op, e, p, i, t) == [op |-> op, email |-> e, password |-> p, id |-> i, token |-> t]
NoCall == Request("none", Nil, Nil, Nil, Nil)

Goto(w, phase) == pc' = [pc EXCEPT ![w] = phase]
Reply(w, c)    == Goto(w, "done") /\ code' = [code EXCEPT ![w] = c]

WithEmail(e) == {i \in Ids : users[i] # Nil /\ users[i].email = e}

-----------------------------------------------------------------------------
Begin(w, c, phase) ==
    /\ pc[w] = "idle"
    /\ call' = [call EXCEPT ![w] = c]
    /\ Goto(w, phase)
    /\ UNCHANGED <<users, code, user, tokens, since>>

\* The fresh id of the new user is chosen here.
BeginRegister(w) ==
    \E e \in Emails, p \in Passwords, i \in Ids :
        /\ users[i] = Nil
        /\ \A v \in Workers : call[v].id # i
        /\ Begin(w, Request("register", e, p, i, Nil), "find_email")

BeginLogin(w) ==
    \E e \in Emails, p \in Passwords :
        Begin(w, Request("login", e, p, Nil, Nil), "get_user")

\* A request with a token in its Authorization header; without one it goes on
\* unauthenticated, and every handler of a service answers 401.
BeginSession(w) ==
    \E t \in tokens \cup {Nil} : Begin(w, Request("session", Nil, Nil, Nil, t), "parse_token")

Respond(w) ==
    /\ pc[w] = "done"
    /\ Goto(w, "idle")
    /\ call' = [call EXCEPT ![w] = NoCall]
    /\ code' = [code EXCEPT ![w] = "none"]
    /\ user' = [user EXCEPT ![w] = Nil]
    /\ UNCHANGED <<users, tokens, since>>

-----------------------------------------------------------------------------
(* Register: look, hash, INSERT. The unique key on email decides.          *)

FindByEmail(w) ==
    /\ pc[w] = "find_email"
    /\ \/ WithEmail(call[w].email) # {} /\ Reply(w, "conflict")
       \/ WithEmail(call[w].email) = {} /\ Goto(w, "hash") /\ UNCHANGED code
    /\ UNCHANGED <<users, call, user, tokens, since>>

\* Mutant: the error of bcrypt is not looked at.
HashAnything(w) ==
    /\ pc[w] = "hash"
    /\ Goto(w, "save_user")
    /\ UNCHANGED <<users, call, code, user, tokens, since>>
HashPassword(w) ==
    /\ pc[w] = "hash"
    /\ \/ call[w].password \in LongPasswords /\ Reply(w, "error")
       \/ call[w].password \notin LongPasswords /\ Goto(w, "save_user") /\ UNCHANGED code
    /\ UNCHANGED <<users, call, user, tokens, since>>

Insert(w) ==
    /\ WithEmail(call[w].email) = {}
    /\ users' = [users EXCEPT ![call[w].id] = Account(call[w].email, call[w].password)]

\* Mutant: the table has no unique key on email, FindByEmail is thought to be enough.
SaveUserNoKey(w) ==
    /\ pc[w] = "save_user"
    /\ users' = [users EXCEPT ![call[w].id] = Account(call[w].email, call[w].password)]
    /\ Reply(w, "ok")
    /\ UNCHANGED <<call, user, tokens, since>>
\* Mutant: ON DUPLICATE KEY UPDATE password, as in SaveMember.
SaveUserUpsert(w) ==
    /\ pc[w] = "save_user"
    /\ \/ Insert(w)
       \/ \E i \in WithEmail(call[w].email) :
             users' = [users EXCEPT ![i].password = call[w].password]
    /\ Reply(w, "ok")
    /\ UNCHANGED <<call, user, tokens, since>>
SaveUser(w) ==
    /\ pc[w] = "save_user"
    /\ \/ Insert(w) /\ Reply(w, "ok")
       \/ WithEmail(call[w].email) # {} /\ Reply(w, "conflict") /\ UNCHANGED users
    /\ UNCHANGED <<call, user, tokens, since>>

-----------------------------------------------------------------------------
(* Login.                                                                  *)

GetByEmail(w) ==
    /\ pc[w] = "get_user"
    /\ \/ /\ WithEmail(call[w].email) = {}
          /\ Reply(w, "unauthorized")
          /\ UNCHANGED user
       \/ /\ \E i \in WithEmail(call[w].email) : user' = [user EXCEPT ![w] = i]
          /\ Goto(w, "sign")
          /\ UNCHANGED code
    /\ UNCHANGED <<users, call, tokens, since>>

Sign(w, i) ==
    /\ Cardinality(tokens \cup {Token(i, 0)}) <= MaxTokens
    /\ tokens' = tokens \cup {Token(i, 0)}
    /\ since'  = [since EXCEPT ![i] = 0]
    /\ Reply(w, "ok")

\* CompareHashAndPassword takes any password, also one that could not be registered.
SameKey(p, q) == Key[p] = Key[q]

\* The hash that was read is compared, and a token is signed for the id that was read.
\* Mutant: no comparison.
SignUnchecked(w) ==
    /\ pc[w] = "sign"
    /\ Sign(w, user[w])
    /\ UNCHANGED <<users, call, user>>
CompareAndSign(w) ==
    /\ pc[w] = "sign"
    /\ \/ SameKey(users[user[w]].password, call[w].password) /\ Sign(w, user[w])
       \/ /\ ~SameKey(users[user[w]].password, call[w].password)
          /\ Reply(w, "unauthorized")
          /\ UNCHANGED <<tokens, since>>
    /\ UNCHANGED <<users, call, user>>

-----------------------------------------------------------------------------
(* The JWT middleware, and any handler behind it.                          *)

\* Mutant: the claim exp is not looked at.
ParseForever(w) ==
    /\ pc[w] = "parse_token"
    /\ \/ call[w].token = Nil /\ Goto(w, "handler") /\ UNCHANGED <<user, code>>
       \/ /\ call[w].token # Nil
          /\ user' = [user EXCEPT ![w] = call[w].token.sub]
          /\ Goto(w, "handler")
          /\ UNCHANGED code
    /\ UNCHANGED <<users, call, tokens, since>>
ParseToken(w) ==
    LET t == call[w].token IN
    /\ pc[w] = "parse_token"
    /\ \/ t = Nil /\ Goto(w, "handler") /\ UNCHANGED <<user, code>>
       \/ t # Nil /\ ~Valid(t) /\ Reply(w, "unauthorized") /\ UNCHANGED user
       \/ /\ t # Nil /\ Valid(t)
          /\ user' = [user EXCEPT ![w] = t.sub]
          /\ Goto(w, "handler")
          /\ UNCHANGED code
    /\ UNCHANGED <<users, call, tokens, since>>

\* UserIDFromCtx finds the user, or the answer is 401.
Handle(w) ==
    /\ pc[w] = "handler"
    /\ Reply(w, IF user[w] = Nil THEN "unauthorized" ELSE "ok")
    /\ UNCHANGED <<users, call, user, tokens, since>>

-----------------------------------------------------------------------------
(* Time and failures.                                                      *)

Older(t) == IF Valid(t) THEN Token(t.sub, t.age + 1) ELSE t

\* Requests grow older with their tokens. An expired token may be thrown away.
Tick ==
    /\ tokens' = {Older(t) : t \in tokens}
    /\ call'   = [w \in Workers |-> IF call[w].token = Nil THEN call[w]
                                    ELSE [call[w] EXCEPT !.token = Older(@)]]
    /\ since'  = [i \in Ids |-> IF since[i] < Expiry THEN since[i] + 1 ELSE since[i]]
    /\ UNCHANGED <<users, pc, code, user>>

Forget ==
    /\ \E t \in tokens : tokens' = tokens \ {t}
    /\ UNCHANGED <<users, pc, call, code, user, since>>

StorageError(w) ==
    /\ "mysql" \in Faults
    /\ pc[w] \in {"find_email", "save_user", "get_user"}
    /\ Reply(w, "error")
    /\ UNCHANGED <<users, call, user, tokens, since>>

\* The row is written and its answer is lost: 500. A second try is answered 409.
LostReply(w) ==
    /\ "lost_reply" \in Faults
    /\ pc[w] = "save_user"
    /\ Insert(w)
    /\ Reply(w, "error")
    /\ UNCHANGED <<call, user, tokens, since>>

Crash ==
    /\ "crash" \in Faults
    /\ pc'   = [w \in Workers |-> "idle"]
    /\ call' = [w \in Workers |-> NoCall]
    /\ code' = [w \in Workers |-> "none"]
    /\ user' = [w \in Workers |-> Nil]
    /\ UNCHANGED <<users, tokens, since>>

-----------------------------------------------------------------------------
Init ==
    /\ users  = [i \in Ids |-> Nil]
    /\ pc     = [w \in Workers |-> "idle"]
    /\ call   = [w \in Workers |-> NoCall]
    /\ code   = [w \in Workers |-> "none"]
    /\ user   = [w \in Workers |-> Nil]
    /\ tokens = {}
    /\ since  = [i \in Ids |-> Expiry]

Serve(w) ==
    \/ FindByEmail(w) \/ HashPassword(w) \/ SaveUser(w)
    \/ GetByEmail(w) \/ CompareAndSign(w)
    \/ ParseToken(w) \/ Handle(w)
    \/ StorageError(w) \/ LostReply(w) \/ Respond(w)

Next ==
    \/ \E w \in Workers : BeginRegister(w) \/ BeginLogin(w) \/ BeginSession(w) \/ Serve(w)
    \/ Tick \/ Forget \/ Crash

Spec == Init /\ [][Next]_vars

-----------------------------------------------------------------------------
(* Properties.                                                             *)

Accounts  == [email : Emails, password : Passwords \ LongPasswords]
AllTokens == [sub : Ids, age : 0..Expiry]

\* Every variable has its type; in particular no account has a password that bcrypt
\* refuses, and no token is for nobody.
TypeOK ==
    /\ users  \in [Ids -> Accounts \cup {Nil}]
    /\ pc     \in [Workers -> {"idle", "find_email", "hash", "save_user", "get_user", "sign",
                               "parse_token", "handler", "done"}]
    /\ call   \in [Workers -> [op : {"none", "register", "login", "session"},
                               email : Emails \cup {Nil}, password : Passwords \cup {Nil},
                               id : Ids \cup {Nil}, token : AllTokens \cup {Nil}]]
    /\ code   \in [Workers -> {"none", "ok", "conflict", "unauthorized", "error"}]
    /\ user   \in [Workers -> Ids \cup {Nil}]
    /\ tokens \in SUBSET AllTokens
    /\ since  \in [Ids -> 0..Expiry]

Answered(w, op, c) == pc[w] = "done" /\ call[w].op = op /\ code[w] = c

\* A registration that is answered 201 made the only account of its email, with the
\* password it came with, and one that is answered 409 found the email taken and made
\* none, although several may have found the email free.
RegisterTellsTheTruth ==
    \A w \in Workers :
        /\ Answered(w, "register", "ok") =>
              /\ WithEmail(call[w].email) = {call[w].id}
              /\ users[call[w].id] = Account(call[w].email, call[w].password)
        /\ Answered(w, "register", "conflict") =>
              WithEmail(call[w].email) # {} /\ users[call[w].id] = Nil

\* An account keeps its email and password: no later registration takes it over.
AccountsAreStable == [][\A i \in Ids : users[i] # Nil => users'[i] = users[i]]_vars

\* A login that is answered 200 is for the account of its email and came with the
\* password of that account, or with one that bcrypt does not tell from it (a password
\* of 72 bytes is also opened by each longer one that begins with it). A token is of an
\* account that logged in when the token was made, or later.
OnlyOwnersGetIn ==
    /\ \A w \in Workers : Answered(w, "login", "ok") =>
          /\ WithEmail(call[w].email) = {user[w]}
          /\ SameKey(users[user[w]].password, call[w].password)
    /\ \A t \in tokens : users[t.sub] # Nil /\ since[t.sub] <= t.age

\* The middleware lets nobody pass as a user who did not log in within the life of a
\* token, although the server keeps no record of logins and may crash in between.
SessionsEnd ==
    [][\A w \in Workers : pc[w] = "parse_token" /\ user'[w] # Nil => since[user'[w]] < Expiry]_vars

=============================================================================
