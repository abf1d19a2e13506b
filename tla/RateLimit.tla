----------------------------- MODULE RateLimit -----------------------------
(***************************************************************************)
(* middleware.RateLimit: a map from keys to token buckets, shared by the   *)
(* goroutines that serve requests and by the clean-up goroutine.           *)
(*                                                                         *)
(* Time is discrete: in one tick a bucket gains one token, so a minute has *)
(* RequestsPerMinute ticks. Only differences of times are kept, so that    *)
(* time may go on for ever. Ticks and steps of goroutines interleave       *)
(* freely: a goroutine may be delayed between any two of its steps.        *)
(*                                                                         *)
(* Phases of a request (pc): get_limiter, allow. Definitions marked        *)
(* "Mutant" are faulty variants that the specification does not use.       *)
(***************************************************************************)
EXTENDS Integers, FiniteSets

CONSTANTS
    Workers,            \* goroutines serving requests
    Users, Hosts,       \* who sends requests: users with a token, remote hosts
    Limiters,           \* the heap of rate.Limiter objects
    Nil,
    RequestsPerMinute,
    IdleLimit,          \* ticks in 10 minutes: entries idle for longer are deleted
    Period              \* ticks in 5 minutes, between two clean-ups

ASSUME RateConstants ==
    /\ RequestsPerMinute \in Nat \ {0}
    /\ IdleLimit \in Nat /\ IdleLimit > RequestsPerMinute
    /\ Period \in Nat \ {0}
    /\ Nil \notin Users \cup Hosts \cup Limiters \cup [user : Users \cup {Nil}, host : Hosts]
    /\ IsFiniteSet(Workers)
    /\ Users \cap Hosts = {}

Minute == RequestsPerMinute
Burst  == RequestsPerMinute

Senders  == [user : Users \cup {Nil}, host : Hosts]

\* Mutant: the user of the token is not looked at.
KeyOfHost(s) == <<"ip", s.host>>
\* Requests with a token share a limiter per user, the others per remote host.
KeyOf(s) == IF s.user # Nil THEN <<"u", s.user>> ELSE <<"ip", s.host>>
Keys     == ({"u"} \X Users) \cup ({"ip"} \X Hosts)

VARIABLES
    limiters,   \* the map: [Keys -> Limiters or Nil]
    idle,       \* ticks since lastSeen of an entry, up to IdleLimit + 1
    tokens,     \* tokens of each limiter
    pc,         \* phase of each worker
    sender,     \* who sent the request it serves
    limiter,    \* the limiter getLimiter gave it, until Allow returns
    ticker,     \* ticks until the ticker fires
    fired,      \* the channel of the ticker holds a value
    cleaner,    \* the clean-up goroutine: "running" or "stopped"
    cancelled,  \* the context of the application is done
    granted     \* auxiliary: requests let through, by user or host, in the last n ticks

requests == <<pc, sender, limiter>>
cleanup  == <<ticker, fired, cleaner, cancelled>>
vars     == <<limiters, idle, tokens, requests, cleanup, granted>>

Goto(w, phase) == pc' = [pc EXCEPT ![w] = phase]

\* A limiter that neither the map nor a goroutine refers to.
Unused == {l \in Limiters : (\A k \in Keys : limiters[k] # l) /\ \A w \in Workers : limiter[w] # l}

-----------------------------------------------------------------------------
Arrive(w) ==
    /\ pc[w] = "idle"
    /\ \E s \in Senders : sender' = [sender EXCEPT ![w] = s]
    /\ Goto(w, "get_limiter")
    /\ UNCHANGED <<limiters, idle, tokens, limiter, cleanup, granted>>

\* NewLimiter allocates; which object it is does not matter.
CreateLimiter(w, k) ==
    LET l == CHOOSE x \in Unused : TRUE IN
    /\ Unused # {}
    /\ limiters' = [limiters EXCEPT ![k] = l]
    /\ tokens'   = [tokens EXCEPT ![l] = Burst]
    /\ limiter'  = [limiter EXCEPT ![w] = l]

\* The closure getLimiter, under the mutex.
\* Mutant: no mutex. Another goroutine may not see the entry yet and create one too.
GetLimiterUnlocked(w) ==
    LET k == KeyOf(sender[w]) IN
    /\ pc[w] = "get_limiter"
    /\ \/ CreateLimiter(w, k)
       \/ /\ limiters[k] # Nil
          /\ limiter' = [limiter EXCEPT ![w] = limiters[k]]
          /\ UNCHANGED <<limiters, tokens>>
    /\ idle' = [idle EXCEPT ![k] = 0]
    /\ Goto(w, "allow")
    /\ UNCHANGED <<sender, cleanup, granted>>
getLimiter(w) ==
    LET k == KeyOf(sender[w]) IN
    /\ pc[w] = "get_limiter"
    /\ \/ limiters[k] = Nil /\ CreateLimiter(w, k)
       \/ /\ limiters[k] # Nil
          /\ limiter' = [limiter EXCEPT ![w] = limiters[k]]
          /\ UNCHANGED <<limiters, tokens>>
    /\ idle' = [idle EXCEPT ![k] = 0]
    /\ Goto(w, "allow")
    /\ UNCHANGED <<sender, cleanup, granted>>

Caller(s) == IF s.user # Nil THEN s.user ELSE s.host

\* Limiter.Allow takes a token if there is one; the entry may be gone by now. The
\* request goes on to the next handler, or is answered 429.
Allowed(w) ==
    /\ tokens[limiter[w]] > 0
    /\ tokens'  = [tokens EXCEPT ![limiter[w]] = @ - 1]
    /\ granted' = [granted EXCEPT ![Caller(sender[w])] = [n \in 0..Minute |-> @[n] + 1]]

Refused(w) ==
    /\ tokens[limiter[w]] = 0
    /\ UNCHANGED <<tokens, granted>>

Allow(w) ==
    /\ pc[w] = "allow"
    /\ Allowed(w) \/ Refused(w)
    /\ Goto(w, "idle")
    /\ sender'  = [sender EXCEPT ![w] = Nil]
    /\ limiter' = [limiter EXCEPT ![w] = Nil]
    /\ UNCHANGED <<limiters, idle, cleanup>>

-----------------------------------------------------------------------------
(* Time passes.                                                            *)

\* Mutant: the bucket has no size.
RefilledAlways(n) == n + 1
Refilled(n) == IF n < Burst THEN n + 1 ELSE n

Tick ==
    /\ tokens'  = [l \in Limiters |-> Refilled(tokens[l])]
    /\ idle'    = [k \in Keys |-> IF limiters[k] # Nil /\ idle[k] <= IdleLimit
                                  THEN idle[k] + 1 ELSE idle[k]]
    /\ granted' = [c \in Users \cup Hosts |->
                      [n \in 0..Minute |-> IF n = 0 THEN 0 ELSE granted[c][n - 1]]]
    /\ IF cleaner = "stopped" THEN UNCHANGED <<ticker, fired>>
       ELSE /\ ticker' = IF ticker = 1 THEN Period ELSE ticker - 1
            /\ fired'  = (fired \/ ticker = 1)
    /\ UNCHANGED <<limiters, requests, cleaner, cancelled>>

\* An entry the clean-up deletes: it was not asked for in more than 10 minutes.
Dropped(k) == limiters[k] # Nil /\ idle[k] > IdleLimit

\* One round of the clean-up goroutine, under the mutex.
\* Mutant: no loop around the select, the goroutine ends after one round.
CleanUpOnce ==
    /\ cleaner = "running" /\ fired
    /\ fired'    = FALSE
    /\ cleaner'  = "stopped"
    /\ limiters' = [k \in Keys |-> IF Dropped(k) THEN Nil ELSE limiters[k]]
    /\ idle'     = [k \in Keys |-> IF Dropped(k) THEN 0 ELSE idle[k]]
    /\ UNCHANGED <<tokens, requests, ticker, cancelled, granted>>
CleanUp ==
    /\ cleaner = "running" /\ fired
    /\ fired'    = FALSE
    /\ limiters' = [k \in Keys |-> IF Dropped(k) THEN Nil ELSE limiters[k]]
    /\ idle'     = [k \in Keys |-> IF Dropped(k) THEN 0 ELSE idle[k]]
    /\ UNCHANGED <<tokens, requests, ticker, cleaner, cancelled, granted>>

\* App.Shutdown cancels the context; requests in flight go on.
Shutdown ==
    /\ ~cancelled
    /\ cancelled' = TRUE
    /\ UNCHANGED <<limiters, idle, tokens, requests, ticker, fired, cleaner, granted>>

StopCleaner ==
    /\ cleaner = "running" /\ cancelled
    /\ cleaner' = "stopped"
    /\ fired'   = FALSE
    /\ ticker'  = Period
    /\ UNCHANGED <<limiters, idle, tokens, requests, cancelled, granted>>

-----------------------------------------------------------------------------
Init ==
    /\ limiters  = [k \in Keys |-> Nil]
    /\ idle      = [k \in Keys |-> 0]
    /\ tokens    = [l \in Limiters |-> Burst]
    /\ pc        = [w \in Workers |-> "idle"]
    /\ sender    = [w \in Workers |-> Nil]
    /\ limiter   = [w \in Workers |-> Nil]
    /\ ticker    = Period
    /\ fired     = FALSE
    /\ cleaner   = "running"
    /\ cancelled = FALSE
    /\ granted   = [c \in Users \cup Hosts |-> [n \in 0..Minute |-> 0]]

Next ==
    \/ \E w \in Workers : Arrive(w) \/ getLimiter(w) \/ Allow(w)
    \/ Tick \/ CleanUp \/ Shutdown \/ StopCleaner

Spec == Init /\ [][Next]_vars

\* Time goes on and the clean-up goroutine runs when it can; requests need not arrive.
FairSpec == Spec /\ WF_vars(Tick) /\ WF_vars(CleanUp)

-----------------------------------------------------------------------------
(* Properties.                                                             *)

\* Every variable has its type.
TypeOK ==
    /\ limiters  \in [Keys -> Limiters \cup {Nil}]
    /\ idle      \in [Keys -> 0..(IdleLimit + 1)]
    /\ tokens    \in [Limiters -> 0..Burst]
    /\ pc        \in [Workers -> {"idle", "get_limiter", "allow"}]
    /\ sender    \in [Workers -> Senders \cup {Nil}]
    /\ limiter   \in [Workers -> Limiters \cup {Nil}]
    /\ ticker    \in 1..Period
    /\ fired     \in BOOLEAN
    /\ cleaner   \in {"running", "stopped"}
    /\ cancelled \in BOOLEAN
    /\ granted   \in [Users \cup Hosts -> [0..Minute -> Nat]]

GrantedInMinute(c) == granted[c][Minute]

\* A caller gets at most a full bucket and its refill through in any minute. The
\* clean-up forgives nothing, but for one request of each goroutine that was delayed
\* for 10 minutes between getLimiter and Allow.
MinuteBound ==
    \A c \in Users \cup Hosts :
        GrantedInMinute(c) <= 2 * RequestsPerMinute + Cardinality(Workers)

\* Only a caller who had his requests of this minute is turned away, however many
\* others send requests, from the same host too.
OnlyBusyAreDenied ==
    [][\A w \in Workers :
          pc[w] = "allow" /\ pc'[w] = "idle" /\ Refused(w)
              => GrantedInMinute(Caller(sender[w])) >= RequestsPerMinute]_vars

\* The map does not leak: an entry goes away or is asked for again within finite time,
\* unless the application stops first.
IdleEntriesGo ==
    \A k \in Keys :
        limiters[k] # Nil /\ idle[k] > 0 ~> limiters[k] = Nil \/ idle[k] = 0 \/ cancelled

=============================================================================
