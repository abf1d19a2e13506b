----------------------------- MODULE Lifecycle -----------------------------
(***************************************************************************)
(* The process: main, app.New with the retry loops of mysql.New and        *)
(* redis.New, the goroutine of the HTTP server, signals and App.Shutdown.  *)
(*                                                                         *)
(* Phases of the main goroutine (main):                                    *)
(*   mysql, redis   the retry loops of New                                 *)
(*   serve, notify  go ListenAndServe, then signal.Notify                  *)
(*   select         waits for a signal or for an error of the server       *)
(*   drain          in http.Server.Shutdown                                *)
(*   close_db, close_redis, return, exited                                 *)
(*                                                                         *)
(* A request may take for ever: a query may wait for a lock, and nothing   *)
(* cancels the handlers. Only the deadline of the shutdown bounds it.      *)
(* Definitions marked "Mutant" are faulty variants that the specification  *)
(* does not use.                                                           *)
(***************************************************************************)
EXTENDS Naturals

CONSTANTS
    Requests,       \* requests that clients may send
    maxRetries      \* pings of a store before New gives up

ASSUME LifecycleConstants == maxRetries \in Nat \ {0}

Stores == {"mysql", "redis"}

VARIABLES
    up,             \* the stores that answer a ping
    main,           \* phase of the main goroutine
    attempt,        \* the next ping of the retry loop
    pool,           \* [Stores -> "none", "open" or "closed"]
    cancelled,      \* appCtx is done: the clean-up of RateLimit ends
    server,         \* the http.Server and its goroutine
    serverErr,      \* the channel serverErr holds an error
    quit,           \* the channel quit holds a signal
    deadline,       \* the context of the shutdown is done
    failed,         \* Server.Shutdown returned an error
    request,        \* [Requests -> how far each request got]
    code            \* exit code of the process, "none" while it runs

startup  == <<up, attempt, pool>>
shutdown == <<cancelled, deadline, failed>>
vars     == <<startup, main, server, serverErr, quit, shutdown, request, code>>

Running == {r \in Requests : request[r] = "running"}

Exit(c) ==
    /\ main' = "exited"
    /\ code' = c
    /\ request' = [r \in Requests |-> IF r \in Running THEN "lost" ELSE request[r]]

-----------------------------------------------------------------------------
(* app.New.                                                                *)

\* A DSN that does not parse is not tried again.
InvalidDSN ==
    /\ main = "mysql" /\ attempt = 1
    /\ cancelled' = TRUE
    /\ Exit("1")
    /\ UNCHANGED <<startup, server, serverErr, quit, deadline, failed>>

\* MySQL gets a pool per attempt, closed if the ping fails; Redis has one client.
PingMySQL ==
    /\ main = "mysql" /\ attempt <= maxRetries
    /\ \/ /\ "mysql" \in up
          /\ pool' = [pool EXCEPT !["mysql"] = "open"]
          /\ main' = "redis" /\ attempt' = 1
       \/ /\ "mysql" \notin up
          /\ attempt' = attempt + 1
          /\ UNCHANGED <<pool, main>>
    /\ UNCHANGED <<up, server, serverErr, quit, shutdown, request, code>>

PingRedis ==
    /\ main = "redis" /\ attempt <= maxRetries
    /\ pool' = [pool EXCEPT !["redis"] = "open"]
    /\ \/ "redis" \in up /\ main' = "serve" /\ attempt' = 1
       \/ "redis" \notin up /\ attempt' = attempt + 1 /\ UNCHANGED main
    /\ UNCHANGED <<up, server, serverErr, quit, shutdown, request, code>>

\* New returns an error, after it closed what it had opened.
\* Mutant: the pool of MySQL is forgotten when Redis is not there.
GiveUpRedisOnly ==
    /\ main \in Stores /\ attempt > maxRetries
    /\ pool' = [pool EXCEPT !["redis"] = IF @ = "open" THEN "closed" ELSE @]
    /\ cancelled' = TRUE
    /\ Exit("1")
    /\ UNCHANGED <<up, attempt, server, serverErr, quit, deadline, failed>>
GiveUp ==
    /\ main \in Stores /\ attempt > maxRetries
    /\ pool' = [s \in Stores |-> IF pool[s] = "open" THEN "closed" ELSE pool[s]]
    /\ cancelled' = TRUE
    /\ Exit("1")
    /\ UNCHANGED <<up, attempt, server, serverErr, quit, deadline, failed>>

-----------------------------------------------------------------------------
(* main.                                                                   *)

\* go func() { ListenAndServe }
GoServe ==
    /\ main = "serve"
    /\ main' = "notify" /\ server' = "starting"
    /\ UNCHANGED <<startup, serverErr, quit, shutdown, request, code>>

Notify ==
    /\ main = "notify"
    /\ main' = "select"
    /\ UNCHANGED <<startup, server, serverErr, quit, shutdown, request, code>>

\* The select takes either case when both are ready. A signal calls App.Shutdown: it
\* cancels appCtx, and the server takes no more requests. An error ends the process
\* at once.
\* Mutant: App.Shutdown closes the pools before it shuts the server down.
CloseFirst ==
    /\ main = "select" /\ quit
    /\ main' = "drain" /\ quit' = FALSE /\ server' = "closed"
    /\ cancelled' = TRUE
    /\ pool' = [s \in Stores |-> "closed"]
    /\ UNCHANGED <<up, attempt, serverErr, deadline, failed, request, code>>
OnSignal ==
    /\ main = "select" /\ quit
    /\ main' = "drain" /\ quit' = FALSE /\ server' = "closed"
    /\ cancelled' = TRUE
    /\ UNCHANGED <<startup, serverErr, deadline, failed, request, code>>

OnServerErr ==
    /\ main = "select" /\ serverErr
    /\ serverErr' = FALSE
    /\ Exit("1")
    /\ UNCHANGED <<startup, server, quit, shutdown>>

\* Server.Shutdown returns when no request runs, or with an error at the deadline.
\* Mutant: Shutdown gets context.Background().
DrainForever ==
    /\ main = "drain" /\ Running = {}
    /\ main' = "close_db"
    /\ UNCHANGED <<startup, server, serverErr, quit, shutdown, request, code>>
Drain ==
    /\ main = "drain"
    /\ \/ Running = {} /\ UNCHANGED failed
       \/ deadline /\ failed' = TRUE
    /\ main' = "close_db"
    /\ UNCHANGED <<startup, server, serverErr, quit, cancelled, deadline, request, code>>

CloseDB ==
    /\ main = "close_db"
    /\ pool' = [pool EXCEPT !["mysql"] = "closed"]
    /\ main' = "close_redis"
    /\ UNCHANGED <<up, attempt, server, serverErr, quit, shutdown, request, code>>

CloseRedis ==
    /\ main = "close_redis"
    /\ pool' = [pool EXCEPT !["redis"] = "closed"]
    /\ main' = "return"
    /\ UNCHANGED <<up, attempt, server, serverErr, quit, shutdown, request, code>>

\* Mutant: the error of Shutdown is dropped.
ReturnZero ==
    /\ main = "return"
    /\ Exit("0")
    /\ UNCHANGED <<startup, server, serverErr, quit, shutdown>>
Return ==
    /\ main = "return"
    /\ Exit(IF failed THEN "1" ELSE "0")
    /\ UNCHANGED <<startup, server, serverErr, quit, shutdown>>

-----------------------------------------------------------------------------
(* The goroutine of the server, requests, and what happens around them.    *)

\* ErrServerClosed is not sent: after a Shutdown the goroutine just ends.
Listen ==
    /\ server = "starting" /\ code = "none"
    /\ \/ server' = "listening" /\ UNCHANGED serverErr
       \/ server' = "failed" /\ serverErr' = TRUE
    /\ UNCHANGED <<startup, main, quit, shutdown, request, code>>

AcceptFails ==
    /\ server = "listening" /\ code = "none"
    /\ server' = "failed" /\ serverErr' = TRUE
    /\ UNCHANGED <<startup, main, quit, shutdown, request, code>>

Accept(r) ==
    /\ server = "listening" /\ code = "none"
    /\ request[r] = "none"
    /\ request' = [request EXCEPT ![r] = "running"]
    /\ UNCHANGED <<startup, main, server, serverErr, quit, shutdown, code>>

\* A handler answers; if it meets the closed pool of MySQL on its way, with a 500.
\* Redis is only a cache to the handlers.
Finish(r) ==
    /\ r \in Running
    /\ \/ request' = [request EXCEPT ![r] = "done"]
       \/ pool["mysql"] = "closed" /\ request' = [request EXCEPT ![r] = "broken"]
    /\ UNCHANGED <<startup, main, server, serverErr, quit, shutdown, code>>

\* Before signal.Notify a signal ends the process. Later the channel keeps one.
Signal ==
    /\ code = "none"
    /\ \/ /\ main \in Stores \cup {"serve", "notify"}
          /\ Exit("killed")
          /\ UNCHANGED quit
       \/ /\ main \notin Stores \cup {"serve", "notify"}
          /\ quit' = TRUE
          /\ UNCHANGED <<main, request, code>>
    /\ UNCHANGED <<startup, server, serverErr, shutdown>>

Deadline ==
    /\ main = "drain" /\ ~deadline
    /\ deadline' = TRUE
    /\ UNCHANGED <<startup, main, server, serverErr, quit, cancelled, failed, request, code>>

StoreStartsOrStops(s) ==
    /\ code = "none"
    /\ up' = IF s \in up THEN up \ {s} ELSE up \cup {s}
    /\ UNCHANGED <<attempt, pool, main, server, serverErr, quit, shutdown, request, code>>

-----------------------------------------------------------------------------
Init ==
    /\ up        \in SUBSET Stores
    /\ main      = "mysql"
    /\ attempt   = 1
    /\ pool      = [s \in Stores |-> "none"]
    /\ cancelled = FALSE
    /\ server    = "new"
    /\ serverErr = FALSE
    /\ quit      = FALSE
    /\ deadline  = FALSE
    /\ failed    = FALSE
    /\ request   = [r \in Requests |-> "none"]
    /\ code      = "none"

New == InvalidDSN \/ PingMySQL \/ PingRedis \/ GiveUp

Main ==
    \/ New \/ GoServe \/ Notify \/ OnSignal \/ OnServerErr
    \/ Drain \/ CloseDB \/ CloseRedis \/ Return

Next ==
    \/ Main \/ Listen \/ AcceptFails \/ Signal \/ Deadline
    \/ \E r \in Requests : Accept(r) \/ Finish(r)
    \/ \E s \in Stores : StoreStartsOrStops(s)

Spec == Init /\ [][Next]_vars

\* The main goroutine runs when it can, and the timer of the deadline fires. Nothing
\* is assumed of requests, stores and signals.
FairSpec == Spec /\ WF_vars(Main) /\ WF_vars(Deadline)

-----------------------------------------------------------------------------
(* Properties.                                                             *)

\* A process that ends with 0 has answered every request it took, and none of them
\* with an error of the shutdown (main, App.Shutdown).
CleanExit == code = "0" => \A r \in Requests : request[r] \in {"none", "done"}

\* No request meets a closed pool within the time the shutdown is given
\* (App.Shutdown closes the pools last).
NoEarlyClose == (\E r \in Requests : request[r] = "broken") => deadline

\* A start that fails leaves no pool open and no goroutine waiting for appCtx
\* (the error paths of app.New, mysql.New and redis.New).
NothingLeftBehind ==
    code = "1" /\ server = "new" => cancelled /\ \A s \in Stores : pool[s] # "open"

\* A signal that is received ends the process, even if requests hang.
SignalStops == quit ~> code # "none"

=============================================================================
