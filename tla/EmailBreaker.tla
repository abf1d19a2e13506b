---------------------------- MODULE EmailBreaker ----------------------------
(***************************************************************************)
(* EmailClient.SendInvite: calls of the mail service behind a circuit      *)
(* breaker. The breaker is gobreaker, modelled from how NewEmailClient     *)
(* configures it and SendInvite runs it:                                   *)
(*   closed     calls go through; three failures in a row open it, and     *)
(*              the counts start again after every Interval                *)
(*   open       calls are refused; half-open after Timeout                 *)
(*   half_open  MaxRequests calls go through; if all succeed it closes,    *)
(*              and one failure opens it                                   *)
(* Every change of state, and every Interval, begins a new generation; the *)
(* result of a call of an earlier generation is ignored. The breaker looks *)
(* at the clock only when a call begins or ends.                           *)
(*                                                                         *)
(* Phases of SendInvite (pc): invite, then calling, or hanging if the call *)
(* began in bad times. Only the ticks until expiry are kept, so that time  *)
(* may go on for ever. Definitions marked "Mutant" are faulty variants     *)
(* that the specification does not use.                                    *)
(***************************************************************************)
EXTENDS Integers, FiniteSets

CONSTANTS
    Workers,                \* goroutines that serve invitations
    MaxRequests,
    Interval, Timeout       \* in ticks

ASSUME BreakerConstants ==
    /\ {MaxRequests, Interval, Timeout} \subseteq Nat \ {0}
    /\ IsFiniteSet(Workers)

\* The shorter of the two times.
Window == IF Interval < Timeout THEN Interval ELSE Timeout

VARIABLES
    cb,         \* the breaker: state, counts of the generation, ticks until it expires
    pc,         \* phase of each worker
    live,       \* the workers whose call began in the current generation
    baseURL,    \* whether a mail service is configured
    healthy,    \* whether calls succeed: the service is up and clients are patient
    sent        \* auxiliary: calls since the last success, in the last n ticks

vars == <<cb, pc, live, baseURL, healthy, sent>>

Goto(w, phase) == pc' = [pc EXCEPT ![w] = phase]

-----------------------------------------------------------------------------
(* The breaker as a value.                                                 *)

Expires(s) == CASE s = "closed" -> Interval [] s = "open" -> Timeout [] OTHER -> 0

NewGeneration(s) ==
    [state |-> s, requests |-> 0, successes |-> 0, failures |-> 0, expiry |-> Expires(s)]

\* The generation is over; a half-open one has no end of its own.
Expired == cb.state # "half_open" /\ cb.expiry < 0

currentState ==
    IF Expired THEN NewGeneration(IF cb.state = "open" THEN "half_open" ELSE "closed") ELSE cb

\* Mutant: five failures are allowed.
ReadyToTripLate(b) == b.failures >= 5
ReadyToTrip(b) == b.failures >= 3

Admits(b) == b.state = "closed" \/ (b.state = "half_open" /\ b.requests < MaxRequests)

\* Requests and successes are read in the half-open state only, and kept only there.
onRequest(b) == IF b.state = "half_open" THEN [b EXCEPT !.requests = @ + 1] ELSE b

\* Mutant: a success is counted, and nobody looks at the count.
OnSuccessCountOnly(b) ==
    IF b.state = "closed" THEN [b EXCEPT !.failures = 0] ELSE [b EXCEPT !.successes = @ + 1]
onSuccess(b) ==
    IF b.state = "closed"                    THEN [b EXCEPT !.failures = 0]
    ELSE IF b.successes + 1 >= MaxRequests   THEN NewGeneration("closed")
    ELSE [b EXCEPT !.successes = @ + 1]

onFailure(b) ==
    LET c == [b EXCEPT !.failures = @ + 1] IN
    IF b.state = "half_open" \/ ReadyToTrip(c) THEN NewGeneration("open") ELSE c

-----------------------------------------------------------------------------
(* SendInvite.                                                             *)

SendInvite(w) ==
    /\ pc[w] = "idle"
    /\ Goto(w, "invite")
    /\ UNCHANGED <<cb, live, baseURL, healthy, sent>>

\* Nothing to send to, or the breaker refuses: SendInvite returns at once.
Skip(w) ==
    /\ pc[w] = "invite"
    /\ ~baseURL \/ ~Admits(currentState)
    /\ Goto(w, "idle")
    /\ UNCHANGED <<cb, live, baseURL, healthy, sent>>

Call(w) ==
    /\ pc[w] = "invite"
    /\ baseURL /\ Admits(currentState)
    /\ cb'   = onRequest(currentState)
    /\ live' = (IF Expired THEN {} ELSE live) \cup {w}
    /\ sent' = [n \in 0..Window |-> sent[n] + 1]
    /\ Goto(w, IF healthy THEN "calling" ELSE "hanging")
    /\ UNCHANGED <<baseURL, healthy>>

\* The result of a call counts if its generation is still the current one.
Result(w, b) ==
    LET counts == w \in live /\ ~Expired
        after  == IF counts THEN b ELSE currentState
    IN
    /\ cb'   = after
    /\ live' = IF Expired \/ after.state # cb.state THEN {} ELSE live \ {w}
    /\ Goto(w, "idle")
    /\ UNCHANGED <<baseURL, healthy>>

\* An answer below 500: the breaker takes a 4xx for a success too.
Succeed(w) ==
    /\ pc[w] \in {"calling", "hanging"} /\ healthy
    /\ Result(w, onSuccess(cb))
    /\ sent' = [n \in 0..Window |-> 0]

\* The service does not answer in time or with a 5xx, the URL is unusable, or the
\* client has gone away and its context is done: all the same to the breaker.
Fail(w) ==
    /\ pc[w] = "hanging" \/ (pc[w] = "calling" /\ ~healthy)
    /\ Result(w, onFailure(cb))
    /\ UNCHANGED sent

-----------------------------------------------------------------------------
Tick ==
    /\ cb'   = [cb EXCEPT !.expiry = IF @ < 0 \/ cb.state = "half_open" THEN @ ELSE @ - 1]
    /\ sent' = [n \in 0..Window |-> IF n = 0 THEN 0 ELSE sent[n - 1]]
    /\ UNCHANGED <<pc, live, baseURL, healthy>>

HealthChanges ==
    /\ healthy' = ~healthy
    /\ UNCHANGED <<cb, pc, live, baseURL, sent>>

Init ==
    /\ cb      = NewGeneration("closed")
    /\ pc      = [w \in Workers |-> "idle"]
    /\ live    = {}
    /\ baseURL \in BOOLEAN
    /\ healthy \in BOOLEAN
    /\ sent    = [n \in 0..Window |-> 0]

Serve(w) == Skip(w) \/ Call(w) \/ Succeed(w) \/ Fail(w)

Next ==
    \/ \E w \in Workers : SendInvite(w) \/ Serve(w)
    \/ Tick \/ HealthChanges

Spec == Init /\ [][Next]_vars

\* Time goes on, and a call ends: http.Client gives it five seconds.
FairSpec == Spec /\ WF_vars(Tick) /\ \A w \in Workers : WF_vars(Serve(w))

-----------------------------------------------------------------------------
(* Properties.                                                             *)

\* EmailClient: if the service is down, SendInvite does not wait for it on every
\* request. While no call succeeds, a Window holds the calls of at most two generations
\* that are closed, and each of them ends with two failures and the calls under way.
FewCallsToADeadService == sent[Window] <= 2 * (2 + Cardinality(Workers))

\* The breaker does not stay open, or half-open, when times are good again and
\* invitations go on.
Recovers ==
    <>[]healthy /\ []<>(\E w \in Workers : pc[w] = "invite") => []<>(cb.state = "closed")

=============================================================================
