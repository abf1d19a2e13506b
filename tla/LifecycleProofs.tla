-------------------------- MODULE LifecycleProofs --------------------------
(***************************************************************************)
(* Proofs about the life of the process: what a start that fails leaves    *)
(* behind, and what a shutdown does to requests, for any number of them.   *)
(***************************************************************************)
EXTENDS Lifecycle, TLAPS

-----------------------------------------------------------------------------
(* The inductive invariant.                                                *)

StartPhases == Stores \cup {"serve"}
ClosePhases == {"close_db", "close_redis", "return"}

LifeTypes ==
    /\ main \in StartPhases \cup {"notify", "select", "drain", "exited"} \cup ClosePhases
    /\ pool \in [Stores -> {"none", "open", "closed"}]
    /\ request \in [Requests -> {"none", "running", "done", "broken", "lost"}]
    /\ cancelled \in BOOLEAN /\ deadline \in BOOLEAN /\ failed \in BOOLEAN
    /\ code \in {"none", "0", "1", "killed"}

\* The server is there once New has succeeded, and takes nothing after the signal.
ServerOK ==
    /\ main \in StartPhases => server = "new" /\ \A r \in Requests : request[r] = "none"
    /\ main \in {"notify", "select"} => server # "new"
    /\ main \in {"drain"} \cup ClosePhases => server = "closed"
    /\ main = "mysql" => \A s \in Stores : pool[s] = "none"

\* The pool of MySQL is closed last, and what has gone wrong by then is known.
DrainOK ==
    /\ main \notin {"close_redis", "return", "exited"} => pool["mysql"] # "closed"
    /\ main \in ClosePhases /\ ~deadline => Running = {}
    /\ main \in ClosePhases /\ ~failed => Running = {}
    /\ failed => deadline

\* What can have become of requests.
RequestsOK ==
    /\ main # "exited" => \A r \in Requests : request[r] # "lost"
    /\ main = "exited" => Running = {}
    /\ main # "exited" /\ ~failed => \A r \in Requests : request[r] # "broken"
    /\ code = "none" <=> main # "exited"

LifeInv ==
    /\ LifeTypes /\ ServerOK /\ DrainOK /\ RequestsOK
    /\ CleanExit /\ NoEarlyClose /\ NothingLeftBehind

-----------------------------------------------------------------------------
(* The steps. Each lemma takes a part of the process.                      *)

LEMMA LifeInvInit == Init => LifeInv
BY DEF Init, LifeInv, LifeTypes, ServerOK, DrainOK, RequestsOK, CleanExit, NoEarlyClose,
   NothingLeftBehind, StartPhases, ClosePhases, Running, Stores

\* A process that exits loses what it was running; the other requests stay.
LEMMA ExitRequests ==
    ASSUME LifeTypes, NEW c, Exit(c)
    PROVE  /\ main' = "exited" /\ code' = c /\ Running' = {}
           /\ request' \in [Requests -> {"none", "running", "done", "broken", "lost"}]
           /\ \A r \in Requests : r \notin Running => request'[r] = request[r]
           /\ \A r \in Requests : request'[r] = "broken" => request[r] = "broken"
BY DEF LifeTypes, Exit, Running

\* app.New: the retry loops, and their error paths.
LEMMA NewKeeps ==
    ASSUME LifeInv, New
    PROVE  LifeInv'
<1>. USE DEF LifeInv, StartPhases, ClosePhases, Stores
<1>1. CASE InvalidDSN \/ GiveUp
  <2>1. /\ main' = "exited" /\ code' = "1" /\ Running' = {} /\ cancelled' = TRUE
        /\ request' \in [Requests -> {"none", "running", "done", "broken", "lost"}]
        /\ \A r \in Requests : request'[r] = "none"
        /\ UNCHANGED <<server, deadline, failed>>
    BY <1>1, ExitRequests DEF InvalidDSN, GiveUp, ServerOK, Running
  <2>2. /\ pool' \in [Stores -> {"none", "open", "closed"}]
        /\ \A s \in Stores : pool'[s] # "open"
    BY <1>1 DEF InvalidDSN, GiveUp, LifeTypes, ServerOK, startup
  <2>. QED
    BY <2>1, <2>2 DEF LifeTypes, ServerOK, DrainOK, RequestsOK, CleanExit, NoEarlyClose,
       NothingLeftBehind
<1>2. CASE PingMySQL \/ PingRedis
  <2>1. /\ main \in Stores /\ main' \in StartPhases /\ UNCHANGED <<server, shutdown, request, code>>
        /\ pool' \in [Stores -> {"none", "open", "closed"}]
        /\ main' = "mysql" => main = "mysql" /\ pool' = pool
        /\ pool'["mysql"] = "closed" => pool["mysql"] = "closed"
    BY <1>2 DEF PingMySQL, PingRedis, LifeTypes
  <2>. QED
    BY <2>1 DEF LifeTypes, ServerOK, DrainOK, RequestsOK, CleanExit, NoEarlyClose,
       NothingLeftBehind, Running, shutdown
<1>. QED  BY <1>1, <1>2 DEF New

\* main, until it waits for a signal or for an error of the server.
LEMMA ServeKeeps ==
    ASSUME LifeInv, GoServe \/ Notify \/ OnSignal \/ OnServerErr
    PROVE  LifeInv'
<1>. USE DEF LifeInv, StartPhases, ClosePhases, Stores
<1>1. CASE GoServe
  BY <1>1 DEF GoServe, LifeTypes, ServerOK, DrainOK, RequestsOK, CleanExit, NoEarlyClose,
     NothingLeftBehind, Running, startup, shutdown
<1>2. CASE Notify
  BY <1>2 DEF Notify, LifeTypes, ServerOK, DrainOK, RequestsOK, CleanExit, NoEarlyClose,
     NothingLeftBehind, Running, startup, shutdown
<1>3. CASE OnSignal
  BY <1>3 DEF OnSignal, LifeTypes, ServerOK, DrainOK, RequestsOK, CleanExit, NoEarlyClose,
     NothingLeftBehind, Running, startup
<1>4. CASE OnServerErr
  <2>1. /\ main = "select" /\ main' = "exited" /\ code' = "1" /\ Running' = {}
        /\ request' \in [Requests -> {"none", "running", "done", "broken", "lost"}]
        /\ \A r \in Requests : request'[r] = "broken" => request[r] = "broken"
        /\ UNCHANGED <<pool, server, cancelled, deadline, failed>>
    BY <1>4, ExitRequests DEF OnServerErr, startup, shutdown
  <2>. QED
    BY <2>1 DEF LifeTypes, ServerOK, DrainOK, RequestsOK, CleanExit, NoEarlyClose, NothingLeftBehind
<1>. QED  BY <1>1, <1>2, <1>3, <1>4

\* App.Shutdown: drain, close, return.
LEMMA ShutdownKeeps ==
    ASSUME LifeInv, Drain \/ CloseDB \/ CloseRedis \/ Return \/ Deadline
    PROVE  LifeInv'
<1>. USE DEF LifeInv, StartPhases, ClosePhases, Stores
<1>1. CASE Drain
  <2>1. /\ main = "drain" /\ main' = "close_db"
        /\ UNCHANGED <<pool, server, cancelled, deadline, request, code>>
        /\ Running' = Running
    BY <1>1 DEF Drain, startup, Running
  <2>2. (Running = {} /\ failed' = failed) \/ (deadline /\ failed' = TRUE)
    BY <1>1 DEF Drain
  <2>3. failed' \in BOOLEAN /\ (failed' => deadline) /\ (failed => failed')
    <3>1. failed \in BOOLEAN /\ (failed => deadline)
      BY DEF LifeTypes, DrainOK
    <3>2. CASE failed' = failed
      BY <3>1, <3>2, Zenon
    <3>3. CASE deadline /\ failed' = TRUE
      BY <3>3, Zenon
    <3>. QED  BY <2>2, <3>2, <3>3, Zenon
  <2>4. (~deadline => Running = {}) /\ (~failed' => Running = {})
    BY <2>2
  <2>. QED
    BY <2>1, <2>3, <2>4 DEF LifeTypes, ServerOK, DrainOK, RequestsOK, CleanExit, NoEarlyClose,
       NothingLeftBehind
<1>2. CASE CloseDB \/ CloseRedis
  <2>1. /\ main \in {"close_db", "close_redis"} /\ main' \in {"close_redis", "return"}
        /\ UNCHANGED <<server, request, code, cancelled, deadline, failed>>
        /\ pool' \in [Stores -> {"none", "open", "closed"}]
    BY <1>2 DEF CloseDB, CloseRedis, LifeTypes, shutdown
  <2>. QED
    BY <2>1 DEF LifeTypes, ServerOK, DrainOK, RequestsOK, CleanExit, NoEarlyClose,
       NothingLeftBehind, Running
<1>3. CASE Return
  <2>1. /\ main = "return" /\ main' = "exited" /\ code' = (IF failed THEN "1" ELSE "0")
        /\ Running' = {}
        /\ request' \in [Requests -> {"none", "running", "done", "broken", "lost"}]
        /\ \A r \in Requests : r \notin Running => request'[r] = request[r]
        /\ \A r \in Requests : request'[r] = "broken" => request[r] = "broken"
        /\ UNCHANGED <<pool, server, cancelled, deadline, failed>>
    BY <1>3, ExitRequests DEF Return, startup, shutdown
  <2>2. ~failed => \A r \in Requests : request'[r] \in {"none", "done"}
    BY <2>1 DEF LifeTypes, DrainOK, RequestsOK, Running
  <2>. QED
    BY <2>1, <2>2 DEF LifeTypes, ServerOK, DrainOK, RequestsOK, CleanExit, NoEarlyClose,
       NothingLeftBehind
<1>4. CASE Deadline
  BY <1>4 DEF Deadline, LifeTypes, ServerOK, DrainOK, RequestsOK, CleanExit, NoEarlyClose,
     NothingLeftBehind, Running, startup
<1>. QED  BY <1>1, <1>2, <1>3, <1>4

\* The goroutine of the server, handlers, signals and stores.
LEMMA AroundKeeps ==
    ASSUME LifeInv,
           \/ Listen \/ AcceptFails \/ Signal
           \/ \E r \in Requests : Accept(r) \/ Finish(r)
           \/ \E s \in Stores : StoreStartsOrStops(s)
    PROVE  LifeInv'
<1>. USE DEF LifeInv, StartPhases, ClosePhases, Stores
<1>1. CASE Listen \/ AcceptFails
  <2>1. /\ server \in {"starting", "listening"} /\ server' \in {"listening", "failed"}
        /\ UNCHANGED <<pool, main, cancelled, deadline, failed, request, code>>
    BY <1>1 DEF Listen, AcceptFails, startup, shutdown
  <2>. QED
    BY <2>1 DEF LifeTypes, ServerOK, DrainOK, RequestsOK, CleanExit, NoEarlyClose,
       NothingLeftBehind, Running
<1>2. CASE Signal /\ Exit("killed")
  <2>1. /\ main # "exited" /\ main' = "exited" /\ code' = "killed" /\ Running' = {}
        /\ request' \in [Requests -> {"none", "running", "done", "broken", "lost"}]
        /\ \A r \in Requests : request'[r] = "broken" => request[r] = "broken"
        /\ UNCHANGED <<pool, server, cancelled, deadline, failed>>
    BY <1>2, ExitRequests DEF Signal, RequestsOK, startup, shutdown
  <2>. QED
    BY <2>1 DEF LifeTypes, ServerOK, DrainOK, RequestsOK, CleanExit, NoEarlyClose, NothingLeftBehind
<1>3. ASSUME UNCHANGED <<pool, main, server, cancelled, deadline, failed, request, code>>
      PROVE  LifeInv'
  BY <1>3 DEF LifeTypes, ServerOK, DrainOK, RequestsOK, CleanExit, NoEarlyClose,
     NothingLeftBehind, Running
<1>4. CASE Signal /\ UNCHANGED <<main, request, code>>
  BY <1>3, <1>4 DEF Signal, startup, shutdown
<1>5. ASSUME NEW r \in Requests, Accept(r) PROVE LifeInv'
  <2>1. /\ server = "listening" /\ code = "none" /\ request[r] = "none"
        /\ request' = [request EXCEPT ![r] = "running"]
        /\ UNCHANGED <<pool, main, server, cancelled, deadline, failed, code>>
    BY <1>5 DEF Accept, startup, shutdown
  <2>. QED
    BY <2>1 DEF LifeTypes, ServerOK, DrainOK, RequestsOK, CleanExit, NoEarlyClose,
       NothingLeftBehind, Running
<1>6. ASSUME NEW r \in Requests, Finish(r) PROVE LifeInv'
  <2>1. /\ request[r] = "running"
        /\ \/ request' = [request EXCEPT ![r] = "done"]
           \/ pool["mysql"] = "closed" /\ request' = [request EXCEPT ![r] = "broken"]
        /\ UNCHANGED <<pool, main, server, cancelled, deadline, failed, code>>
    BY <1>6 DEF Finish, Running, startup, shutdown
  <2>2. main # "exited" /\ code = "none"
    BY <2>1 DEF RequestsOK, Running
  <2>3. pool["mysql"] = "closed" => failed /\ deadline
    BY <2>1, <2>2 DEF LifeTypes, DrainOK, Running
  <2>4. /\ request' \in [Requests -> {"none", "running", "done", "broken", "lost"}]
        /\ Running' \subseteq Running
        /\ \A x \in Requests : request'[x] = "broken" => request[x] = "broken" \/ (failed /\ deadline)
        /\ \A x \in Requests : request'[x] = "lost" => request[x] = "lost"
    <3>1. CASE request' = [request EXCEPT ![r] = "done"]
      BY <2>1, <3>1 DEF LifeTypes, Running
    <3>2. CASE pool["mysql"] = "closed" /\ request' = [request EXCEPT ![r] = "broken"]
      BY <2>1, <2>3, <3>2 DEF LifeTypes, Running
    <3>. QED  BY <2>1, <3>1, <3>2
  <2>. QED
    BY <2>1, <2>2, <2>3, <2>4 DEF LifeTypes, ServerOK, DrainOK, RequestsOK, CleanExit,
       NoEarlyClose, NothingLeftBehind
<1>7. ASSUME NEW s \in Stores, StoreStartsOrStops(s) PROVE LifeInv'
  BY <1>3, <1>7 DEF StoreStartsOrStops, shutdown
<1>. QED  BY <1>1, <1>2, <1>4, <1>5, <1>6, <1>7 DEF Signal

LEMMA LifeInvNext == LifeInv /\ [Next]_vars => LifeInv'
<1>. SUFFICES ASSUME LifeInv, [Next]_vars PROVE LifeInv'
  OBVIOUS
<1>1. CASE UNCHANGED vars
  BY <1>1 DEF vars, startup, shutdown, LifeInv, LifeTypes, ServerOK, DrainOK, RequestsOK, CleanExit,
     NoEarlyClose, NothingLeftBehind, Running
<1>. QED  BY <1>1, NewKeeps, ServeKeeps, ShutdownKeeps, AroundKeeps DEF Next, Main

-----------------------------------------------------------------------------
(* The properties.                                                         *)

\* The inductive invariant holds in every reachable state.
THEOREM LifeInvariant == Spec => []LifeInv
BY LifeInvInit, LifeInvNext, PTL DEF Spec

\* main and App.Shutdown: exit code 0 means that every request was answered.
THEOREM ExitsAreClean == Spec => []CleanExit
<1>1. LifeInv => CleanExit
  BY DEF LifeInv
<1>. QED  BY <1>1, LifeInvariant, PTL

\* App.Shutdown: the pools are closed under nobody who was given time.
THEOREM PoolsCloseLast == Spec => []NoEarlyClose
<1>1. LifeInv => NoEarlyClose
  BY DEF LifeInv
<1>. QED  BY <1>1, LifeInvariant, PTL

\* app.New: a start that fails closes what it opened and cancels appCtx.
THEOREM FailedStartsCleanUp == Spec => []NothingLeftBehind
<1>1. LifeInv => NothingLeftBehind
  BY DEF LifeInv
<1>. QED  BY <1>1, LifeInvariant, PTL
=============================================================================
