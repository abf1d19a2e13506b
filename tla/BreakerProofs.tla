--------------------------- MODULE BreakerProofs ---------------------------
(***************************************************************************)
(* Proofs about the circuit breaker of the mail client, for any number of  *)
(* goroutines and any settings: a dead service gets few calls. The         *)
(* invariant speaks of a breaker b, the calls l of its generation and the  *)
(* counts s of what was sent, so that the steps of gobreaker can be taken  *)
(* one after the other: the clock first, then a call or its result.        *)
(***************************************************************************)
EXTENDS EmailBreaker, FiniteSetTheorems, TLAPS

-----------------------------------------------------------------------------
(* The inductive invariant.                                                *)

Breakers == [state : {"closed", "open", "half_open"}, requests : Nat, successes : Nat,
             failures : Nat, expiry : Int]

\* Closed, a breaker has seen two failures at most; open, it has no calls under way.
GenerationOK(b, l) ==
    /\ b \in Breakers /\ -1 <= b.expiry /\ b.expiry <= Expires(b.state)
    /\ l \subseteq Workers
    /\ b.state = "closed" => b.failures <= 2
    /\ b.state = "open" => l = {}

\* The ticks since the generation began, as far as the breaker can tell.
Age(b) == Expires(b.state) - b.expiry

\* The calls of a generation since the last success: those that failed and those under way.
Most == 2 + Cardinality(Workers)
Calls(b, l) == (IF b.state = "closed" THEN b.failures ELSE 0) + Cardinality(l)

\* As far back as the generation goes, all calls were its own; before it there may have
\* been those of one other that was closed. A half-open one comes after a time without.
SentOK(b, l, s) ==
    /\ s \in [0..Window -> Nat]
    /\ \A n \in 0..Window :
          /\ (b.state = "half_open" \/ n < Age(b)) => s[n] <= Calls(b, l)
          /\ b.state = "closed" => s[n] <= Calls(b, l) + Most
          /\ b.state = "open" => s[n] <= 2 * Most

Good(b, l, s) == GenerationOK(b, l) /\ SentOK(b, l, s)

\* The calls of the generation are under way.
CallersOK ==
    /\ pc \in [Workers -> {"idle", "invite", "calling", "hanging"}]
    /\ \A w \in live : pc[w] \in {"calling", "hanging"}

BreakerInv == CallersOK /\ Good(cb, live, sent)

-----------------------------------------------------------------------------
(* Numbers, and the steps of the breaker.                                  *)

LEMMA Times ==
    /\ Interval \in Nat \ {0} /\ Timeout \in Nat \ {0} /\ MaxRequests \in Nat \ {0}
    /\ Window \in Nat /\ Window <= Interval /\ Window <= Timeout
    /\ Cardinality(Workers) \in Nat /\ Most \in Nat
    /\ Expires("closed") = Interval /\ Expires("open") = Timeout /\ Expires("half_open") = 0
<1>1. Interval \in Nat \ {0} /\ Timeout \in Nat \ {0} /\ MaxRequests \in Nat \ {0}
  BY BreakerConstants
<1>2. Cardinality(Workers) \in Nat
  BY BreakerConstants, FS_CardinalityType
<1>. QED  BY <1>1, <1>2 DEF Window, Expires, Most

LEMMA Counted ==
    ASSUME NEW l, l \subseteq Workers
    PROVE  /\ IsFiniteSet(l) /\ Cardinality(l) \in Nat /\ Cardinality(l) <= Cardinality(Workers)
           /\ \A w \in Workers \ l : Cardinality(l \cup {w}) = Cardinality(l) + 1
           /\ \A w \in l : Cardinality(l \ {w}) = Cardinality(l) - 1
<1>1. IsFiniteSet(l) /\ Cardinality(l) <= Cardinality(Workers)
  BY BreakerConstants, FS_Subset
<1>. QED  BY <1>1, FS_CardinalityType, FS_AddElement, FS_RemoveElement

LEMMA Fresh ==
    ASSUME NEW st \in {"closed", "open", "half_open"}
    PROVE  /\ GenerationOK(NewGeneration(st), {}) /\ Calls(NewGeneration(st), {}) = 0
           /\ Age(NewGeneration(st)) = 0 /\ NewGeneration(st).state = st
<1>. DEFINE b == NewGeneration(st)
<1>1. /\ b = [state |-> st, requests |-> 0, successes |-> 0, failures |-> 0, expiry |-> Expires(st)]
      /\ Expires(st) \in Nat
  BY Times DEF NewGeneration
<1>. HIDE DEF b
<1>2. b \in Breakers /\ b.state = st /\ b.expiry = Expires(st) /\ b.failures = 0
  BY <1>1 DEF Breakers
<1>3. Cardinality({}) = 0
  BY FS_EmptySet
<1>4. GenerationOK(b, {}) /\ Calls(b, {}) = 0 /\ Age(b) = 0
  BY <1>1, <1>2, <1>3 DEF GenerationOK, Calls, Age
<1>. QED  BY <1>2, <1>4 DEF b

\* currentState: a closed generation whose time is over was longer than the window, so
\* that all calls counted were its own; an open one leaves none.
LEMMA ClockLooked ==
    ASSUME Good(cb, live, sent)
    PROVE  Good(currentState, IF Expired THEN {} ELSE live, sent)
<1>1. CASE ~Expired
  BY <1>1 DEF currentState
<1>2. CASE Expired
  <2>1. /\ cb \in Breakers /\ cb.expiry = -1 /\ cb.state \in {"closed", "open"} /\ live \subseteq Workers
        /\ cb.failures \in Nat
        /\ cb.state = "closed" => cb.failures <= 2
        /\ cb.state = "open" => live = {}
    BY <1>2 DEF Expired, Good, GenerationOK, Breakers
  <2>2. Age(cb) > Window
    BY <2>1, Times DEF Age
  <2>3. \A n \in 0..Window : sent[n] <= Calls(cb, live) /\ sent[n] \in Nat
    BY <2>2, Times, <2>1 DEF Good, SentOK, Age
  <2>4. Calls(cb, live) <= Most /\ (cb.state = "open" => Calls(cb, live) = 0) /\ Calls(cb, live) \in Nat
    BY <2>1, Counted, Times, FS_EmptySet DEF Calls, Most
  <2>5. PICK st \in {"closed", "half_open"} :
           currentState = NewGeneration(st) /\ (st = "half_open" <=> cb.state = "open")
    BY <1>2, <2>1 DEF currentState
  <2>6. /\ GenerationOK(currentState, {}) /\ Calls(currentState, {}) = 0
        /\ Age(currentState) = 0 /\ currentState.state = st
    BY <2>5, Fresh
  <2>7. SentOK(currentState, {}, sent)
    <3>1. ASSUME NEW n \in 0..Window
          PROVE  /\ (st = "half_open" \/ n < 0) => sent[n] <= 0
                 /\ sent[n] <= Most
      BY <2>3, <2>4, <2>5, Times
    <3>2. sent \in [0..Window -> Nat]
      BY DEF Good, SentOK
    <3>3. 0 + Most = Most
      BY Times
    <3>. QED  BY <2>6, <3>1, <3>2, <3>3 DEF SentOK
  <2>. QED  BY <1>2, <2>6, <2>7 DEF Good
<1>. QED  BY <1>1, <1>2

LEMMA CallCounted ==
    ASSUME NEW b, NEW l, NEW s, Good(b, l, s), Admits(b), NEW w \in Workers \ l
    PROVE  Good(onRequest(b), l \cup {w}, [n \in 0..Window |-> s[n] + 1])
<1>. DEFINE c == onRequest(b)
            t == [n \in 0..Window |-> s[n] + 1]
<1>1. /\ b \in Breakers /\ b.state \in {"closed", "half_open"} /\ l \subseteq Workers
      /\ b.failures \in Nat /\ b.requests \in Nat /\ b.expiry \in Int
  BY DEF Good, GenerationOK, Admits, Breakers
<1>2. c \in Breakers /\ c.state = b.state /\ c.failures = b.failures /\ c.expiry = b.expiry
  BY <1>1 DEF onRequest, Breakers
<1>3. s \in [0..Window -> Nat] /\ t \in [0..Window -> Nat] /\ \A n \in 0..Window : t[n] = s[n] + 1
  BY DEF Good, SentOK
<1>4. Cardinality(l) \in Nat /\ Cardinality(l \cup {w}) = Cardinality(l) + 1
  BY <1>1, Counted
<1>. HIDE DEF c, t
<1>5. Age(c) = Age(b) /\ Calls(c, l \cup {w}) = Calls(b, l) + 1 /\ Calls(b, l) \in Nat
  BY <1>1, <1>2, <1>4 DEF Age, Calls
<1>6. GenerationOK(c, l \cup {w})
  BY <1>1, <1>2 DEF Good, GenerationOK
<1>7. ASSUME NEW n \in 0..Window
      PROVE  /\ (c.state = "half_open" \/ n < Age(c)) => t[n] <= Calls(c, l \cup {w})
             /\ c.state = "closed" => t[n] <= Calls(c, l \cup {w}) + Most
             /\ c.state = "open" => t[n] <= 2 * Most
  <2>1. /\ (b.state = "half_open" \/ n < Age(b)) => s[n] <= Calls(b, l)
        /\ b.state = "closed" => s[n] <= Calls(b, l) + Most
        /\ s[n] \in Nat /\ t[n] = s[n] + 1
    BY <1>3 DEF Good, SentOK
  <2>. QED  BY <1>1, <1>2, <1>5, <2>1, Times
<1>8. SentOK(c, l \cup {w}, t)
  BY <1>3, <1>7 DEF SentOK
<1>. QED  BY <1>6, <1>8 DEF Good, c, t

LEMMA FailureCounted ==
    ASSUME NEW b, NEW l, NEW s, Good(b, l, s), NEW w \in l
    PROVE  Good(onFailure(b), IF onFailure(b).state # b.state THEN {} ELSE l \ {w}, s)
<1>1. /\ b \in Breakers /\ b.state \in {"closed", "half_open"} /\ l \subseteq Workers
      /\ b.failures \in Nat /\ b.expiry \in Int /\ (b.state = "closed" => b.failures <= 2)
      /\ -1 <= b.expiry /\ b.expiry <= Expires(b.state)
  BY DEF Good, GenerationOK, Breakers
<1>2. s \in [0..Window -> Nat] /\ \A n \in 0..Window : s[n] \in Nat
  BY DEF Good, SentOK
<1>3. /\ Cardinality(l) \in Nat /\ Cardinality(l \ {w}) = Cardinality(l) - 1
      /\ Cardinality(l) <= Cardinality(Workers)
  BY <1>1, Counted
<1>. DEFINE c == [b EXCEPT !.failures = b.failures + 1]
<1>4. c \in Breakers /\ c.state = b.state /\ c.failures = b.failures + 1 /\ c.expiry = b.expiry
  BY <1>1 DEF Breakers
<1>. HIDE DEF c
<1>5. CASE b.state = "half_open" \/ ReadyToTrip(c)
  <2>1. onFailure(b) = NewGeneration("open")
    BY <1>5 DEF onFailure, c
  <2>2. /\ GenerationOK(onFailure(b), {}) /\ Calls(onFailure(b), {}) = 0
        /\ Age(onFailure(b)) = 0 /\ onFailure(b).state = "open"
    BY <2>1, Fresh
  <2>3. Calls(b, l) \in Nat /\ Calls(b, l) <= Most
    BY <1>1, <1>3, Times DEF Calls, Most
  <2>4. ASSUME NEW n \in 0..Window PROVE s[n] <= 2 * Most /\ ~(n < 0)
    <3>1. s[n] <= Calls(b, l) \/ s[n] <= Calls(b, l) + Most
      BY <1>1 DEF Good, SentOK
    <3>. QED  BY <1>2, <2>3, <3>1, Times
  <2>5. SentOK(onFailure(b), {}, s)
    BY <1>2, <2>2, <2>4 DEF SentOK
  <2>. QED  BY <1>1, <2>2, <2>5 DEF Good
<1>6. CASE b.state = "closed" /\ ~ReadyToTrip(c)
  <2>1. onFailure(b) = c
    BY <1>6 DEF onFailure, c
  <2>2. c.failures <= 2
    BY <1>1, <1>4, <1>6 DEF ReadyToTrip
  <2>3. GenerationOK(c, l \ {w})
    BY <1>1, <1>4, <1>6, <2>2 DEF GenerationOK
  <2>4. Age(c) = Age(b) /\ Calls(c, l \ {w}) = Calls(b, l)
    BY <1>1, <1>3, <1>4, <1>6 DEF Age, Calls
  <2>5. SentOK(c, l \ {w}, s)
    BY <1>4, <2>4 DEF Good, SentOK
  <2>. QED  BY <1>4, <2>1, <2>3, <2>5 DEF Good
<1>. QED  BY <1>1, <1>5, <1>6

\* After a success no call is left that SentOK would have to account for.
LEMMA NothingSent ==
    ASSUME NEW b, NEW l, GenerationOK(b, l)
    PROVE  Good(b, l, [n \in 0..Window |-> 0])
<1>1. Calls(b, l) \in Nat
  BY Counted DEF GenerationOK, Breakers, Calls
<1>2. [n \in 0..Window |-> 0] \in [0..Window -> Nat] /\ \A n \in 0..Window : [m \in 0..Window |-> 0][n] = 0
  OBVIOUS
<1>. QED  BY <1>1, <1>2, Times DEF Good, SentOK

LEMMA SuccessCounted ==
    ASSUME NEW b, NEW l, GenerationOK(b, l), NEW w \in l
    PROVE  GenerationOK(onSuccess(b), IF onSuccess(b).state # b.state THEN {} ELSE l \ {w})
<1>1. /\ b \in Breakers /\ b.state \in {"closed", "half_open"} /\ l \subseteq Workers
      /\ b.successes \in Nat
  BY DEF GenerationOK, Breakers
<1>2. CASE b.state = "closed"
  <2>1. onSuccess(b) = [b EXCEPT !.failures = 0]
    BY <1>2 DEF onSuccess
  <2>2. /\ onSuccess(b) \in Breakers /\ onSuccess(b).state = b.state
        /\ onSuccess(b).failures = 0 /\ onSuccess(b).expiry = b.expiry
    BY <1>1, <2>1 DEF Breakers
  <2>. QED  BY <1>1, <1>2, <2>2 DEF GenerationOK
<1>3. CASE b.state = "half_open" /\ onSuccess(b) = NewGeneration("closed")
  BY <1>3, Fresh
<1>4. CASE b.state = "half_open" /\ onSuccess(b) = [b EXCEPT !.successes = b.successes + 1]
  <2>1. /\ onSuccess(b) \in Breakers /\ onSuccess(b).state = b.state /\ onSuccess(b).expiry = b.expiry
    BY <1>1, <1>4 DEF Breakers
  <2>. QED  BY <1>1, <1>4, <2>1 DEF GenerationOK
<1>5. b.state # "closed" => onSuccess(b) \in {NewGeneration("closed"), [b EXCEPT !.successes = b.successes + 1]}
  BY DEF onSuccess
<1>. QED  BY <1>1, <1>2, <1>3, <1>4, <1>5

-----------------------------------------------------------------------------
(* The steps.                                                              *)

LEMMA CallStep ==
    ASSUME BreakerInv, NEW w \in Workers, Call(w)
    PROVE  BreakerInv'
<1>. DEFINE l == IF Expired THEN {} ELSE live
<1>1. /\ cb' = onRequest(currentState) /\ Admits(currentState) /\ live' = l \cup {w}
      /\ sent' = [n \in 0..Window |-> sent[n] + 1] /\ pc[w] = "invite"
      /\ pc' = [pc EXCEPT ![w] = IF healthy THEN "calling" ELSE "hanging"]
  BY DEF Call, Goto
<1>2. Good(currentState, l, sent)
  BY ClockLooked DEF BreakerInv
<1>3. l \subseteq live /\ w \notin live
  BY <1>1 DEF BreakerInv, CallersOK
<1>. HIDE DEF l
<1>4. Good(cb', live', sent')
  BY <1>1, <1>2, <1>3, CallCounted
<1>5. CallersOK'
  BY <1>1, <1>3 DEF BreakerInv, CallersOK
<1>. QED  BY <1>4, <1>5 DEF BreakerInv

\* The end of a call: its worker is idle, and its generation has lost it.
LEMMA ResultStep ==
    ASSUME BreakerInv, NEW w \in Workers, NEW b, Result(w, b)
    PROVE  /\ CallersOK'
           /\ \/ w \in live /\ ~Expired /\ cb' = b /\ live' = IF b.state # cb.state THEN {} ELSE live \ {w}
              \/ cb' = currentState /\ live' = IF Expired THEN {} ELSE live
<1>1. pc' = [pc EXCEPT ![w] = "idle"] /\ live' \subseteq live \ {w}
  BY DEF Result, Goto
<1>2. CallersOK'
  BY <1>1 DEF BreakerInv, CallersOK
<1>3. CASE w \in live /\ ~Expired
  BY <1>2, <1>3 DEF Result
<1>4. CASE ~(w \in live /\ ~Expired)
  <2>1. cb' = currentState /\ live' = IF Expired \/ currentState.state # cb.state THEN {} ELSE live \ {w}
    BY <1>4 DEF Result
  <2>2. ~Expired => currentState = cb /\ w \notin live
    BY <1>4 DEF currentState
  <2>. QED  BY <1>2, <2>1, <2>2
<1>. QED  BY <1>3, <1>4

LEMMA FailStep ==
    ASSUME BreakerInv, NEW w \in Workers, Fail(w)
    PROVE  BreakerInv'
<1>1. Result(w, onFailure(cb)) /\ sent' = sent
  BY DEF Fail
<1>2. CASE w \in live /\ cb' = onFailure(cb) /\ live' = IF onFailure(cb).state # cb.state THEN {} ELSE live \ {w}
  BY <1>1, <1>2, ResultStep, FailureCounted DEF BreakerInv
<1>3. CASE cb' = currentState /\ live' = IF Expired THEN {} ELSE live
  BY <1>1, <1>3, ResultStep, ClockLooked DEF BreakerInv
<1>. QED  BY <1>1, <1>2, <1>3, ResultStep

LEMMA SucceedStep ==
    ASSUME BreakerInv, NEW w \in Workers, Succeed(w)
    PROVE  BreakerInv'
<1>1. Result(w, onSuccess(cb)) /\ sent' = [n \in 0..Window |-> 0]
  BY DEF Succeed
<1>2. GenerationOK(cb', live')
  <2>1. CASE w \in live /\ cb' = onSuccess(cb) /\ live' = IF onSuccess(cb).state # cb.state THEN {} ELSE live \ {w}
    BY <2>1, SuccessCounted DEF BreakerInv, Good
  <2>2. CASE cb' = currentState /\ live' = IF Expired THEN {} ELSE live
    BY <2>2, ClockLooked DEF BreakerInv, Good
  <2>. QED  BY <1>1, <2>1, <2>2, ResultStep
<1>3. Good(cb', live', sent')
  BY <1>1, <1>2, NothingSent
<1>. QED  BY <1>1, <1>3, ResultStep DEF BreakerInv

LEMMA TickStep ==
    ASSUME BreakerInv, Tick
    PROVE  BreakerInv'
<1>1. /\ cb' = [cb EXCEPT !.expiry = IF cb.expiry < 0 \/ cb.state = "half_open" THEN cb.expiry
                                     ELSE cb.expiry - 1]
      /\ sent' = [n \in 0..Window |-> IF n = 0 THEN 0 ELSE sent[n - 1]]
      /\ UNCHANGED <<pc, live>>
  BY DEF Tick
<1>2. /\ cb \in Breakers /\ -1 <= cb.expiry /\ cb.expiry <= Expires(cb.state) /\ cb.expiry \in Int
      /\ cb.state \in {"closed", "open", "half_open"} /\ cb.failures \in Nat /\ Expires(cb.state) \in Nat
      /\ live \subseteq Workers
  BY Times DEF BreakerInv, Good, GenerationOK, Breakers
<1>3. PICK e \in Int : /\ cb' = [cb EXCEPT !.expiry = e] /\ -1 <= e /\ e <= cb.expiry
                       /\ e \in {cb.expiry, cb.expiry - 1}
  BY <1>1, <1>2
<1>4. cb' \in Breakers /\ cb'.state = cb.state /\ cb'.failures = cb.failures /\ cb'.expiry = e
  BY <1>2, <1>3 DEF Breakers
<1>5. GenerationOK(cb', live')
  BY <1>1, <1>2, <1>3, <1>4 DEF BreakerInv, Good, GenerationOK
<1>6. /\ Calls(cb', live') = Calls(cb, live) /\ Calls(cb, live) \in Nat
      /\ Age(cb) \in Int /\ Age(cb') \in {Age(cb), Age(cb) + 1}
  BY <1>1, <1>2, <1>3, <1>4, Counted DEF Calls, Age
<1>7. sent \in [0..Window -> Nat] /\ sent' \in [0..Window -> Nat]
  BY <1>1, Times DEF BreakerInv, Good, SentOK
<1>8. ASSUME NEW n \in 0..Window
      PROVE  /\ (cb'.state = "half_open" \/ n < Age(cb')) => sent'[n] <= Calls(cb', live')
             /\ cb'.state = "closed" => sent'[n] <= Calls(cb', live') + Most
             /\ cb'.state = "open" => sent'[n] <= 2 * Most
  <2>1. CASE n = 0
    BY <1>1, <1>6, <2>1, Times
  <2>2. CASE n # 0
    <3>1. n - 1 \in 0..Window /\ sent'[n] = sent[n - 1] /\ n \in Nat /\ sent[n - 1] \in Nat
      BY <1>1, <1>7, <2>2, Times
    <3>2. /\ (cb.state = "half_open" \/ n - 1 < Age(cb)) => sent[n - 1] <= Calls(cb, live)
          /\ cb.state = "closed" => sent[n - 1] <= Calls(cb, live) + Most
          /\ cb.state = "open" => sent[n - 1] <= 2 * Most
      BY <3>1 DEF BreakerInv, Good, SentOK
    <3>3. n < Age(cb') => n - 1 < Age(cb)
      BY <1>6, <3>1
    <3>. QED  BY <1>4, <1>6, <3>1, <3>2, <3>3
  <2>. QED  BY <2>1, <2>2
<1>9. SentOK(cb', live', sent')
  BY <1>7, <1>8 DEF SentOK
<1>10. CallersOK'
  BY <1>1 DEF BreakerInv, CallersOK
<1>. QED  BY <1>5, <1>9, <1>10 DEF BreakerInv, Good

LEMMA BreakerStart == Init => BreakerInv
<1>. SUFFICES ASSUME Init PROVE BreakerInv
  OBVIOUS
<1>1. Good(cb, live, sent)
  BY Fresh, NothingSent DEF Init
<1>. QED  BY <1>1 DEF Init, BreakerInv, CallersOK

LEMMA BreakerStep == BreakerInv /\ [Next]_vars => BreakerInv'
<1>. SUFFICES ASSUME BreakerInv, [Next]_vars PROVE BreakerInv'
  OBVIOUS
<1>1. ASSUME NEW w \in Workers, SendInvite(w) \/ Skip(w) PROVE BreakerInv'
  <2>1. /\ UNCHANGED <<cb, live, sent>> /\ pc[w] \in {"idle", "invite"}
        /\ pc' \in {[pc EXCEPT ![w] = "invite"], [pc EXCEPT ![w] = "idle"]}
    BY <1>1 DEF SendInvite, Skip, Goto
  <2>2. CallersOK'
    <3>1. live \subseteq Workers /\ w \notin live
      BY <2>1 DEF BreakerInv, CallersOK, Good, GenerationOK
    <3>2. \A v \in live : pc'[v] = pc[v]
      BY <2>1, <3>1 DEF BreakerInv, CallersOK
    <3>3. pc' \in [Workers -> {"idle", "invite", "calling", "hanging"}]
      BY <2>1 DEF BreakerInv, CallersOK
    <3>. QED  BY <2>1, <3>2, <3>3 DEF BreakerInv, CallersOK
  <2>. QED  BY <2>1, <2>2 DEF BreakerInv
<1>2. ASSUME NEW w \in Workers, Serve(w) PROVE BreakerInv'
  BY <1>1, <1>2, CallStep, SucceedStep, FailStep DEF Serve
<1>3. CASE Tick
  BY <1>3, TickStep
<1>4. CASE HealthChanges \/ UNCHANGED vars
  BY <1>4 DEF HealthChanges, vars, BreakerInv, CallersOK
<1>. QED  BY <1>1, <1>2, <1>3, <1>4 DEF Next

-----------------------------------------------------------------------------
\* The inductive invariant of the breaker holds, whatever the settings and however many
\* goroutines send invitations.
THEOREM BreakerInvariant == Spec => []BreakerInv
BY BreakerStart, BreakerStep, PTL DEF Spec

\* SendInvite behind the breaker: while no call succeeds, the mail service gets at most
\* 2 * (2 + Workers) calls in a Window, that is in the shorter of Interval and Timeout.
THEOREM FewCalls == Spec => []FewCallsToADeadService
<1>1. BreakerInv => FewCallsToADeadService
  <2>. SUFFICES ASSUME BreakerInv PROVE FewCallsToADeadService
    OBVIOUS
  <2>1. /\ cb.state \in {"closed", "open", "half_open"} /\ cb.failures \in Nat /\ live \subseteq Workers
        /\ cb.state = "closed" => cb.failures <= 2
    BY DEF BreakerInv, Good, GenerationOK, Breakers
  <2>2. Calls(cb, live) \in Nat /\ Calls(cb, live) <= Most
    BY <2>1, Counted, Times DEF Calls, Most
  <2>3. Window \in 0..Window
    BY Times
  <2>4. sent[Window] \in Nat /\ (\/ sent[Window] <= Calls(cb, live) \/ sent[Window] <= Calls(cb, live) + Most
                                 \/ sent[Window] <= 2 * Most)
    BY <2>1, <2>3 DEF BreakerInv, Good, SentOK
  <2>5. sent[Window] <= 2 * Most
    BY <2>2, <2>4, Times
  <2>. QED  BY <2>5 DEF FewCallsToADeadService, Most
<1>. QED  BY <1>1, BreakerInvariant, PTL

=============================================================================
