----------------------------- MODULE RateProofs -----------------------------
(***************************************************************************)
(* Proofs about the rate limiter, for any number of goroutines and callers *)
(* and any rate: how many requests get through in a minute, and who is     *)
(* turned away.                                                            *)
(***************************************************************************)
EXTENDS RateLimit, FiniteSetTheorems, TLAPS

-----------------------------------------------------------------------------
(* The inductive invariant.                                                *)

\* A request has a sender until it ends, and a limiter from getLimiter on.
RequestOK(w) ==
    /\ pc[w] # "idle" => sender[w] \in Senders
    /\ pc[w] = "allow" <=> limiter[w] # Nil

\* A limiter serves one key, also after its entry was deleted.
Owners ==
    /\ \A j, k \in Keys : limiters[j] # Nil /\ limiters[j] = limiters[k] => j = k
    /\ \A w \in Workers, k \in Keys :
          limiter[w] # Nil /\ limiter[w] = limiters[k] => KeyOf(sender[w]) = k
    /\ \A v, w \in Workers :
          limiter[v] # Nil /\ limiter[v] = limiter[w] => KeyOf(sender[v]) = KeyOf(sender[w])

\* Goroutines between getLimiter and Allow, for key k; those whose limiter is not in
\* the map any more; and what the caller of key k got through in the last n ticks.
Holding(k)  == {w \in Workers : limiter[w] # Nil /\ KeyOf(sender[w]) = k}
Orphans(k)  == {w \in Holding(k) : limiter[w] # limiters[k]}
Got(k, n)   == granted[k[2]][n]

\* A delayed goroutine may get one request through that the map does not account for,
\* and it has not done so lately: it was waiting. Without an entry, and for the time an
\* entry was not asked for, nobody else got a request through.
UpperBound(k) ==
    \A n \in 0..Minute :
        /\ limiters[k] = Nil => Got(k, n) + Cardinality(Holding(k)) <= Cardinality(Workers)
        /\ limiters[k] # Nil =>
              /\ Got(k, n) + tokens[limiters[k]] + Cardinality(Orphans(k))
                    <= Burst + n + Cardinality(Workers)
              /\ n < idle[k] => Got(k, n) + Cardinality(Holding(k)) <= Cardinality(Workers)

\* A bucket that has served a caller has the tokens of n ticks, but for those that the
\* caller took.
Serves(l, k) == limiters[k] = l \/ \E w \in Holding(k) : limiter[w] = l

LowerBound(k) == \A l \in Limiters : Serves(l, k) => \A n \in 0..Minute : n <= tokens[l] + Got(k, n)

RateInv ==
    /\ TypeOK /\ Owners
    /\ \A w \in Workers : RequestOK(w)
    /\ \A k \in Keys : UpperBound(k) /\ LowerBound(k)

-----------------------------------------------------------------------------
(* Keys, callers and numbers.                                              *)

LEMMA RateTypes ==
    /\ RequestsPerMinute \in Nat \ {0} /\ Minute \in Nat /\ Burst \in Nat /\ IdleLimit \in Nat
    /\ Minute < IdleLimit /\ Period \in Nat \ {0} /\ Minute = Burst /\ Burst = RequestsPerMinute
BY RateConstants DEF Minute, Burst

LEMMA KeyOfSender ==
    ASSUME NEW s \in Senders
    PROVE  KeyOf(s) \in Keys /\ KeyOf(s)[2] = Caller(s) /\ Caller(s) \in Users \cup Hosts
BY DEF KeyOf, Keys, Caller, Senders

\* Users and hosts are told apart.
LEMMA KeyOfCaller ==
    /\ \A k \in Keys : k[2] \in Users \cup Hosts
    /\ \A j, k \in Keys : j[2] = k[2] => j = k
    /\ \A c \in Users \cup Hosts : \E k \in Keys : k[2] = c
<1>1. \A k \in Keys : \/ k[1] = "u" /\ k[2] \in Users /\ k = <<k[1], k[2]>>
                      \/ k[1] = "ip" /\ k[2] \in Hosts /\ k = <<k[1], k[2]>>
  BY DEF Keys
<1>2. \A c \in Users : <<"u", c>> \in Keys /\ <<"u", c>>[2] = c
  BY DEF Keys
<1>3. \A c \in Hosts : <<"ip", c>> \in Keys /\ <<"ip", c>>[2] = c
  BY DEF Keys
<1>4. \A j, k \in Keys : j[2] = k[2] => j = k
  BY <1>1, RateConstants
<1>. QED  BY <1>1, <1>2, <1>3, <1>4

LEMMA Sizes ==
    ASSUME NEW k
    PROVE  /\ IsFiniteSet(Holding(k)) /\ IsFiniteSet(Orphans(k)) /\ Cardinality(Workers) \in Nat
           /\ Cardinality(Holding(k)) \in Nat /\ Cardinality(Orphans(k)) \in Nat
           /\ Cardinality(Holding(k)) <= Cardinality(Workers)
           /\ Cardinality(Orphans(k)) <= Cardinality(Holding(k))
<1>1. Holding(k) \subseteq Workers /\ Orphans(k) \subseteq Holding(k) /\ IsFiniteSet(Workers)
  BY RateConstants DEF Holding, Orphans
<1>2. IsFiniteSet(Holding(k)) /\ Cardinality(Holding(k)) <= Cardinality(Workers)
  BY <1>1, FS_Subset
<1>3. IsFiniteSet(Orphans(k)) /\ Cardinality(Orphans(k)) <= Cardinality(Holding(k))
  BY <1>1, <1>2, FS_Subset
<1>. QED  BY <1>1, <1>2, <1>3, FS_CardinalityType

LEMMA GotType ==
    ASSUME TypeOK, NEW k \in Keys, NEW n \in 0..Minute
    PROVE  Got(k, n) \in Nat
<1>1. k[2] \in Users \cup Hosts
  BY KeyOfCaller
<1>. QED  BY <1>1 DEF TypeOK, Got

-----------------------------------------------------------------------------
(* Types.                                                                  *)

LEMMA TypeStep ==
    ASSUME TypeOK, \A w \in Workers : RequestOK(w), [Next]_vars
    PROVE  TypeOK'
<1>. USE RateTypes
<1>1. ASSUME NEW w \in Workers, Arrive(w) PROVE TypeOK'
  BY <1>1 DEF TypeOK, Arrive, Goto, cleanup
<1>2. ASSUME NEW w \in Workers, getLimiter(w) PROVE TypeOK'
  <2>. DEFINE k == KeyOf(sender[w])
  <2>1. k \in Keys
    BY <1>2, KeyOfSender DEF getLimiter, RequestOK
  <2>2. /\ pc' = [pc EXCEPT ![w] = "allow"] /\ idle' = [idle EXCEPT ![k] = 0]
        /\ UNCHANGED <<sender, ticker, fired, cleaner, cancelled, granted>>
    BY <1>2 DEF getLimiter, Goto, cleanup
  <2>3. \E l \in Limiters :
           /\ limiters' \in {limiters, [limiters EXCEPT ![k] = l]}
           /\ tokens' \in {tokens, [tokens EXCEPT ![l] = Burst]}
           /\ limiter' = [limiter EXCEPT ![w] = l]
    <3>1. CASE CreateLimiter(w, k)
      BY <3>1 DEF CreateLimiter, Unused
    <3>2. CASE ~CreateLimiter(w, k)
      BY <1>2, <2>1, <3>2 DEF getLimiter, TypeOK
    <3>. QED  BY <3>1, <3>2
  <2>. HIDE DEF k
  <2>4. /\ limiters' \in [Keys -> Limiters \cup {Nil}] /\ tokens' \in [Limiters -> 0..Burst]
        /\ limiter' \in [Workers -> Limiters \cup {Nil}]
    <3>1. limiters' \in [Keys -> Limiters \cup {Nil}]
      BY <2>1, <2>3 DEF TypeOK
    <3>2. tokens' \in [Limiters -> 0..Burst]
      BY <2>3 DEF TypeOK
    <3>3. limiter' \in [Workers -> Limiters \cup {Nil}]
      BY <2>3 DEF TypeOK
    <3>. QED  BY <3>1, <3>2, <3>3
  <2>5. idle' \in [Keys -> 0..(IdleLimit + 1)] /\ pc' \in [Workers -> {"idle", "get_limiter", "allow"}]
    BY <2>1, <2>2 DEF TypeOK
  <2>. QED  BY <2>2, <2>4, <2>5 DEF TypeOK
<1>3. ASSUME NEW w \in Workers, Allow(w) PROVE TypeOK'
  <2>. DEFINE c == Caller(sender[w])
              l == limiter[w]
  <2>1. c \in Users \cup Hosts /\ l \in Limiters
    BY <1>3, KeyOfSender DEF Allow, RequestOK, TypeOK
  <2>2. /\ pc' = [pc EXCEPT ![w] = "idle"] /\ sender' = [sender EXCEPT ![w] = Nil]
        /\ limiter' = [limiter EXCEPT ![w] = Nil]
        /\ UNCHANGED <<limiters, idle, ticker, fired, cleaner, cancelled>>
    BY <1>3 DEF Allow, Goto, cleanup
  <2>3. tokens' \in [Limiters -> 0..Burst] /\ granted' \in [Users \cup Hosts -> [0..Minute -> Nat]]
    <3>1. CASE Refused(w)
      BY <3>1 DEF Refused, TypeOK
    <3>2. CASE Allowed(w)
      <4>1. /\ tokens[l] > 0 /\ tokens' = [tokens EXCEPT ![l] = tokens[l] - 1]
            /\ granted' = [granted EXCEPT ![c] = [n \in 0..Minute |-> granted[c][n] + 1]]
        BY <3>2 DEF Allowed
      <4>. HIDE DEF c, l
      <4>2. tokens[l] - 1 \in 0..Burst
        BY <2>1, <4>1 DEF TypeOK
      <4>3. [n \in 0..Minute |-> granted[c][n] + 1] \in [0..Minute -> Nat]
        BY <2>1 DEF TypeOK
      <4>. QED  BY <4>1, <4>2, <4>3 DEF TypeOK
    <3>. QED  BY <1>3, <3>1, <3>2 DEF Allow
  <2>. QED  BY <2>2, <2>3 DEF TypeOK
<1>4. CASE Tick
  <2>1. tokens' \in [Limiters -> 0..Burst]
    BY <1>4 DEF Tick, Refilled, TypeOK
  <2>2. idle' \in [Keys -> 0..(IdleLimit + 1)]
    BY <1>4 DEF Tick, TypeOK
  <2>3. granted' \in [Users \cup Hosts -> [0..Minute -> Nat]]
    <3>1. \A c \in Users \cup Hosts : \A n \in 0..Minute :
             (IF n = 0 THEN 0 ELSE granted[c][n - 1]) \in Nat
      BY DEF TypeOK
    <3>. QED  BY <1>4, <3>1 DEF Tick
  <2>4. ticker' \in 1..Period
    BY <1>4 DEF Tick, TypeOK
  <2>5. fired' \in BOOLEAN
    <3>1. fired' = fired \/ fired' = (fired \/ ticker = 1)
      BY <1>4, Zenon DEF Tick
    <3>. QED  BY <3>1, Zenon DEF TypeOK
  <2>. QED  BY <1>4, <2>1, <2>2, <2>3, <2>4, <2>5 DEF Tick, TypeOK, requests
<1>5. CASE CleanUp
  <2>1. limiters' \in [Keys -> Limiters \cup {Nil}] /\ idle' \in [Keys -> 0..(IdleLimit + 1)]
    BY <1>5 DEF CleanUp, TypeOK
  <2>. QED  BY <1>5, <2>1 DEF CleanUp, TypeOK, requests
<1>6. CASE Shutdown \/ StopCleaner
  <2>1. CASE Shutdown
    BY <2>1 DEF Shutdown, TypeOK, requests
  <2>2. CASE StopCleaner
    <3>1. fired' \in BOOLEAN
      BY <2>2, Zenon DEF StopCleaner
    <3>2. ticker' \in 1..Period /\ cleaner' = "stopped"
      BY <2>2 DEF StopCleaner
    <3>. QED  BY <2>2, <3>1, <3>2 DEF StopCleaner, TypeOK, requests
  <2>. QED  BY <1>6, <2>1, <2>2
<1>7. CASE UNCHANGED vars
  BY <1>7 DEF vars, requests, cleanup, TypeOK
<1>. QED  BY <1>1, <1>2, <1>3, <1>4, <1>5, <1>6, <1>7 DEF Next

-----------------------------------------------------------------------------
(* Who holds which limiter.                                                *)

LEMMA RequestsAndOwners ==
    ASSUME RateInv, [Next]_vars
    PROVE  Owners' /\ \A w \in Workers : RequestOK(w)'
<1>. USE DEF RateInv
<1>0. TypeOK /\ Owners /\ \A w \in Workers : RequestOK(w)
  OBVIOUS
<1>1. ASSUME NEW w \in Workers, Arrive(w) PROVE Owners' /\ \A v \in Workers : RequestOK(v)'
  <2>1. PICK s \in Senders : sender' = [sender EXCEPT ![w] = s]
    BY <1>1 DEF Arrive
  <2>2. pc[w] = "idle" /\ limiter[w] = Nil /\ pc'[w] = "get_limiter" /\ sender'[w] = s
        /\ UNCHANGED <<limiters, limiter>>
    BY <1>0, <1>1, <2>1 DEF Arrive, RequestOK, Goto, TypeOK
  <2>3. \A v \in Workers \ {w} : pc'[v] = pc[v] /\ sender'[v] = sender[v]
    BY <1>0, <1>1, <2>1 DEF Arrive, Goto, TypeOK
  <2>4. Owners'
    BY <1>0, <2>2, <2>3 DEF Owners
  <2>5. \A v \in Workers : RequestOK(v)'
    BY <1>0, <2>2, <2>3 DEF RequestOK
  <2>. QED  BY <2>4, <2>5
<1>2. ASSUME NEW w \in Workers, getLimiter(w) PROVE Owners' /\ \A v \in Workers : RequestOK(v)'
  <2>. DEFINE k == KeyOf(sender[w])
  <2>1. /\ pc'[w] = "allow" /\ limiter[w] = Nil /\ sender[w] \in Senders /\ k \in Keys /\ sender' = sender
        /\ \A v \in Workers \ {w} : pc'[v] = pc[v]
    BY <1>0, <1>2, KeyOfSender DEF getLimiter, RequestOK, Goto, TypeOK
  <2>2. CASE limiters[k] = Nil /\ CreateLimiter(w, k)
    <3>. DEFINE l == CHOOSE x \in Unused : TRUE
    <3>1. l \in Unused /\ limiters' = [limiters EXCEPT ![k] = l] /\ limiter' = [limiter EXCEPT ![w] = l]
      BY <2>2 DEF CreateLimiter
    <3>. HIDE DEF l, k
    <3>2. l \in Limiters /\ l # Nil /\ (\A j \in Keys : limiters[j] # l) /\ \A v \in Workers : limiter[v] # l
      BY <3>1, RateConstants DEF Unused
    <3>3. /\ limiters'[k] = l /\ limiter'[w] = l
          /\ \A j \in Keys \ {k} : limiters'[j] = limiters[j]
          /\ \A v \in Workers \ {w} : limiter'[v] = limiter[v]
      BY <1>0, <2>1, <3>1 DEF TypeOK
    <3>4. Owners'
      BY <1>0, <2>1, <3>2, <3>3 DEF Owners, k
    <3>5. \A v \in Workers : RequestOK(v)'
      BY <1>0, <2>1, <3>2, <3>3 DEF RequestOK
    <3>. QED  BY <3>4, <3>5
  <2>3. CASE limiters[k] # Nil /\ limiter' = [limiter EXCEPT ![w] = limiters[k]] /\ limiters' = limiters
    <3>1. limiter'[w] = limiters[k] /\ \A v \in Workers \ {w} : limiter'[v] = limiter[v]
      BY <1>0, <2>1, <2>3 DEF TypeOK
    <3>2. Owners'
      BY <1>0, <2>1, <2>3, <3>1 DEF Owners
    <3>3. \A v \in Workers : RequestOK(v)'
      BY <1>0, <2>1, <2>3, <3>1 DEF RequestOK
    <3>. QED  BY <3>2, <3>3
  <2>. QED  BY <1>2, <2>2, <2>3 DEF getLimiter
<1>3. ASSUME NEW w \in Workers, Allow(w) PROVE Owners' /\ \A v \in Workers : RequestOK(v)'
  <2>1. /\ pc'[w] = "idle" /\ limiter'[w] = Nil /\ limiters' = limiters
        /\ \A v \in Workers \ {w} : pc'[v] = pc[v] /\ sender'[v] = sender[v] /\ limiter'[v] = limiter[v]
    BY <1>0, <1>3 DEF Allow, Goto, TypeOK
  <2>2. Owners'
    BY <1>0, <2>1 DEF Owners
  <2>3. \A v \in Workers : RequestOK(v)'
    BY <1>0, <2>1 DEF RequestOK
  <2>. QED  BY <2>2, <2>3
<1>4. CASE CleanUp
  <2>1. /\ \A k \in Keys : limiters'[k] \in {limiters[k], Nil}
        /\ UNCHANGED <<pc, sender, limiter>>
    BY <1>4 DEF CleanUp, requests
  <2>. QED  BY <1>0, <2>1 DEF Owners, RequestOK
<1>5. CASE Tick \/ Shutdown \/ StopCleaner \/ UNCHANGED vars
  <2>1. UNCHANGED <<limiters, pc, sender, limiter>>
    BY <1>5 DEF Tick, Shutdown, StopCleaner, vars, requests
  <2>. QED  BY <1>0, <2>1 DEF Owners, RequestOK
<1>. QED  BY <1>1, <1>2, <1>3, <1>4, <1>5 DEF Next

-----------------------------------------------------------------------------
(* What a caller got.                                                      *)

Bounds(k) == UpperBound(k) /\ LowerBound(k)

\* A step that is about another key.
LEMMA OtherKey ==
    ASSUME RateInv, NEW k \in Keys, limiters'[k] = limiters[k], granted'[k[2]] = granted[k[2]],
           idle'[k] = idle[k], Holding(k)' = Holding(k), \A w \in Holding(k) : limiter'[w] = limiter[w],
           \A l \in Limiters : Serves(l, k) => tokens'[l] = tokens[l]
    PROVE  Bounds(k)'
<1>1. Orphans(k)' = Orphans(k)
  BY DEF Orphans
<1>2. limiters[k] # Nil => tokens'[limiters[k]] = tokens[limiters[k]]
  BY DEF Serves, RateInv, TypeOK
<1>3. UpperBound(k)'
  BY <1>1, <1>2 DEF RateInv, UpperBound, Got
<1>4. \A l \in Limiters : Serves(l, k)' => Serves(l, k)
  BY DEF Serves
<1>5. LowerBound(k)'
  BY <1>4 DEF RateInv, LowerBound, Got
<1>. QED  BY <1>3, <1>5 DEF Bounds

\* A step that leaves limiters and what was granted alone.
LEMMA QuietStep ==
    ASSUME RateInv, UNCHANGED <<limiters, idle, tokens, limiter, granted>>,
           \A w \in Workers : limiter[w] # Nil => sender'[w] = sender[w], NEW k \in Keys
    PROVE  Bounds(k)'
<1>1. Holding(k)' = Holding(k)
  BY DEF Holding
<1>. QED  BY <1>1, OtherKey

LEMMA TickBounds ==
    ASSUME RateInv, Tick, NEW k \in Keys
    PROVE  Bounds(k)'
<1>1. TypeOK /\ UpperBound(k) /\ LowerBound(k)
  BY DEF RateInv
<1>2. /\ UNCHANGED <<limiters, limiter, sender>>
      /\ \A l \in Limiters : tokens'[l] = Refilled(tokens[l])
      /\ idle'[k] \in {idle[k], idle[k] + 1} /\ idle[k] \in Nat
      /\ \A n \in 0..Minute : Got(k, n)' = IF n = 0 THEN 0 ELSE Got(k, n - 1)
  BY <1>1, KeyOfCaller DEF Tick, requests, Got, TypeOK
<1>3. Holding(k)' = Holding(k) /\ Orphans(k)' = Orphans(k) /\ \A l : Serves(l, k)' => Serves(l, k)
  BY <1>2 DEF Holding, Orphans, Serves
<1>4. \A l \in Limiters : /\ tokens[l] \in 0..Burst
                          /\ Refilled(tokens[l]) = IF tokens[l] < Burst THEN tokens[l] + 1 ELSE tokens[l]
  BY <1>1 DEF TypeOK, Refilled
<1>. DEFINE H == Cardinality(Holding(k))
            O == Cardinality(Orphans(k))
            W == Cardinality(Workers)
<1>5. H \in Nat /\ O \in Nat /\ W \in Nat /\ H <= W /\ O <= H
  BY Sizes
<1>6. ASSUME NEW n \in 0..Minute
      PROVE  /\ limiters[k] = Nil => Got(k, n)' + H <= W
             /\ limiters[k] # Nil => /\ Got(k, n)' + Refilled(tokens[limiters[k]]) + O <= Burst + n + W
                                     /\ n < idle'[k] => Got(k, n)' + H <= W
             /\ \A l \in Limiters : Serves(l, k) => n <= Refilled(tokens[l]) + Got(k, n)'
  <2>1. CASE n = 0
    <3>1. Got(k, n)' = 0
      BY <1>2, <2>1
    <3>2. limiters[k] # Nil => limiters[k] \in Limiters
      BY <1>1 DEF TypeOK
    <3>. HIDE DEF H, O, W
    <3>. QED  BY <1>4, <1>5, <2>1, <3>1, <3>2, RateTypes
  <2>2. CASE n # 0
    <3>1. n - 1 \in 0..Minute /\ Got(k, n)' = Got(k, n - 1) /\ n \in Nat /\ n <= Burst
      BY <1>2, <2>2, RateTypes
    <3>2. Got(k, n - 1) \in Nat
      BY <1>1, <3>1, GotType
    <3>3. limiters[k] # Nil => limiters[k] \in Limiters
      BY <1>1 DEF TypeOK
    <3>4. /\ limiters[k] = Nil => Got(k, n - 1) + H <= W
          /\ limiters[k] # Nil => /\ Got(k, n - 1) + tokens[limiters[k]] + O <= Burst + (n - 1) + W
                                  /\ n - 1 < idle[k] => Got(k, n - 1) + H <= W
      BY <1>1, <3>1 DEF UpperBound
    <3>5. \A l \in Limiters : Serves(l, k) => n - 1 <= tokens[l] + Got(k, n - 1)
      BY <1>1, <3>1 DEF LowerBound
    <3>. HIDE DEF H, O, W
    <3>6. limiters[k] # Nil => Got(k, n)' + Refilled(tokens[limiters[k]]) + O <= Burst + n + W
      BY <1>4, <1>5, <3>1, <3>2, <3>3, <3>4, RateTypes
    <3>7. limiters[k] # Nil /\ n < idle'[k] => Got(k, n)' + H <= W
      BY <1>2, <1>5, <3>1, <3>4
    <3>8. ASSUME NEW l \in Limiters, Serves(l, k) PROVE n <= Refilled(tokens[l]) + Got(k, n)'
      <4>1. n - 1 <= tokens[l] + Got(k, n - 1) /\ tokens[l] \in 0..Burst
            /\ Refilled(tokens[l]) = IF tokens[l] < Burst THEN tokens[l] + 1 ELSE tokens[l]
        BY <1>4, <3>5, <3>8
      <4>. QED  BY <3>1, <3>2, <4>1, RateTypes
    <3>. QED  BY <3>1, <3>4, <3>6, <3>7, <3>8
  <2>. QED  BY <2>1, <2>2
<1>7. UpperBound(k)'
  <2>1. limiters[k] # Nil => tokens'[limiters[k]] = Refilled(tokens[limiters[k]])
    BY <1>1, <1>2 DEF TypeOK
  <2>. QED  BY <1>2, <1>3, <1>6, <2>1 DEF UpperBound
<1>8. LowerBound(k)'
  BY <1>2, <1>3, <1>6 DEF LowerBound
<1>. QED  BY <1>7, <1>8 DEF Bounds

\* The clean-up deletes an entry only when everybody who still holds its limiter has
\* waited for longer than a minute.
LEMMA CleanUpBounds ==
    ASSUME RateInv, CleanUp, NEW k \in Keys
    PROVE  Bounds(k)'
<1>1. TypeOK /\ UpperBound(k) /\ LowerBound(k)
  BY DEF RateInv
<1>2. UNCHANGED <<tokens, limiter, sender, granted>>
  BY DEF CleanUp, requests
<1>3. Holding(k)' = Holding(k)
  BY <1>2 DEF Holding
<1>4. CASE ~Dropped(k)
  <2>1. limiters'[k] = limiters[k] /\ idle'[k] = idle[k]
    BY <1>4 DEF CleanUp
  <2>. QED  BY <1>2, <1>3, <2>1, OtherKey
<1>5. CASE Dropped(k)
  <2>1. limiters'[k] = Nil /\ limiters[k] # Nil /\ idle[k] > IdleLimit /\ idle[k] \in Nat
    BY <1>1, <1>5 DEF CleanUp, Dropped, TypeOK
  <2>2. \A n \in 0..Minute : n < idle[k]
    BY <2>1, RateTypes
  <2>3. \A n \in 0..Minute : Got(k, n) + Cardinality(Holding(k)) <= Cardinality(Workers)
    BY <1>1, <2>1, <2>2 DEF UpperBound
  <2>4. UpperBound(k)'
    BY <1>2, <1>3, <2>1, <2>3 DEF UpperBound, Got
  <2>5. \A l \in Limiters : Serves(l, k)' => Serves(l, k)
    BY <1>2, <1>3, <2>1, RateConstants DEF Serves
  <2>6. LowerBound(k)'
    BY <1>1, <1>2, <2>5 DEF LowerBound, Got
  <2>. QED  BY <2>4, <2>6 DEF Bounds
<1>. QED  BY <1>4, <1>5

LEMMA GetLimiterBounds ==
    ASSUME RateInv, NEW w \in Workers, getLimiter(w), NEW j \in Keys
    PROVE  Bounds(j)'
<1>. DEFINE k == KeyOf(sender[w])
<1>1. TypeOK /\ Owners /\ UpperBound(j) /\ LowerBound(j)
  BY DEF RateInv
<1>2. /\ k \in Keys /\ limiter[w] = Nil /\ sender' = sender /\ granted' = granted
      /\ idle' = [idle EXCEPT ![k] = 0]
  BY KeyOfSender DEF getLimiter, RateInv, RequestOK
<1>3. \A n \in 0..Minute : Got(j, n)' = Got(j, n) /\ Got(j, n) \in Nat
  BY <1>1, <1>2, GotType DEF Got
<1>4. PICK l \in Limiters :
         /\ limiter' = [limiter EXCEPT ![w] = l]
         /\ \/ limiters[k] = l /\ UNCHANGED <<limiters, tokens>>
            \/ /\ limiters[k] = Nil /\ l \in Unused
               /\ limiters' = [limiters EXCEPT ![k] = l] /\ tokens' = [tokens EXCEPT ![l] = Burst]
  <2>1. CASE limiters[k] = Nil /\ CreateLimiter(w, k)
    <3>. DEFINE l == CHOOSE x \in Unused : TRUE
    <3>1. l \in Unused /\ limiters' = [limiters EXCEPT ![k] = l]
          /\ tokens' = [tokens EXCEPT ![l] = Burst] /\ limiter' = [limiter EXCEPT ![w] = l]
      BY <2>1 DEF CreateLimiter
    <3>2. l \in Limiters
      BY <3>1 DEF Unused
    <3>. HIDE DEF l, k
    <3>. QED  BY <2>1, <3>1, <3>2
  <2>2. CASE limiters[k] # Nil /\ limiter' = [limiter EXCEPT ![w] = limiters[k]]
             /\ UNCHANGED <<limiters, tokens>>
    <3>1. limiters[k] \in Limiters
      BY <1>1, <1>2, <2>2 DEF TypeOK
    <3>. QED  BY <2>2, <3>1
  <2>. QED  BY <2>1, <2>2 DEF getLimiter
<1>. HIDE DEF k
<1>5. /\ limiter'[w] = l /\ l # Nil /\ \A v \in Workers \ {w} : limiter'[v] = limiter[v]
      /\ w \notin Holding(j)
  BY <1>1, <1>2, <1>4, RateConstants DEF TypeOK, Holding
<1>6. CASE j # k
  <2>1. Holding(j)' = Holding(j)
    BY <1>2, <1>5, <1>6 DEF Holding, k
  <2>2. limiters'[j] = limiters[j] /\ idle'[j] = idle[j]
    BY <1>1, <1>2, <1>4, <1>6 DEF TypeOK
  <2>3. \A x \in Limiters : Serves(x, j) => tokens'[x] = tokens[x]
    BY <1>1, <1>4 DEF TypeOK, Serves, Unused, Holding
  <2>4. \A v \in Holding(j) : limiter'[v] = limiter[v]
    BY <1>5 DEF Holding
  <2>. QED  BY <1>2, <2>1, <2>2, <2>3, <2>4, OtherKey
<1>7. CASE j = k
  <2>1. limiters'[j] = l /\ idle'[j] = 0
    BY <1>1, <1>2, <1>4, <1>7 DEF TypeOK
  <2>2. Orphans(j)' = IF limiters[j] = Nil THEN Holding(j) ELSE Orphans(j)
    <3>1. CASE limiters[j] = Nil
      <4>1. \A v \in Workers : limiter[v] # l
        BY <1>4, <1>5, <1>7, <3>1 DEF Unused
      <4>. QED  BY <1>2, <1>5, <2>1, <3>1, <4>1 DEF Orphans, Holding
    <3>2. CASE limiters[j] # Nil
      BY <1>2, <1>4, <1>5, <1>7, <2>1, <3>2 DEF Orphans, Holding
    <3>. QED  BY <3>1, <3>2
  <2>3. ASSUME NEW n \in 0..Minute
        PROVE  Got(j, n)' + tokens'[l] + Cardinality(Orphans(j)') <= Burst + n + Cardinality(Workers)
    <3>1. CASE limiters[j] = Nil
      <4>1. Got(j, n) + Cardinality(Holding(j)) <= Cardinality(Workers)
        BY <1>1, <3>1 DEF UpperBound
      <4>2. tokens'[l] = Burst /\ Orphans(j)' = Holding(j)
        BY <1>1, <1>4, <1>5, <1>7, <2>2, <3>1 DEF TypeOK
      <4>. QED  BY <1>3, <4>1, <4>2, Sizes, RateTypes
    <3>2. CASE limiters[j] # Nil
      <4>1. tokens' = tokens /\ limiters[j] = l /\ Orphans(j)' = Orphans(j)
        BY <1>4, <1>7, <2>2, <3>2
      <4>. QED  BY <1>1, <1>3, <3>2, <4>1 DEF UpperBound
    <3>. QED  BY <3>1, <3>2
  <2>4. UpperBound(j)'
    BY <1>5, <2>1, <2>3 DEF UpperBound
  <2>5. ASSUME NEW x \in Limiters, Serves(x, j)', NEW n \in 0..Minute
        PROVE  n <= tokens'[x] + Got(j, n)'
    <3>1. x = l \/ Serves(x, j)
      BY <1>2, <1>5, <2>1, <2>5 DEF Serves, Holding
    <3>2. tokens'[x] \in {tokens[x], Burst}
      BY <1>1, <1>4 DEF TypeOK
    <3>3. CASE tokens'[x] = Burst
      BY <1>3, <3>3, RateTypes
    <3>4. CASE tokens'[x] = tokens[x] /\ Serves(x, j)
      BY <1>1, <1>3, <3>4 DEF LowerBound
    <3>5. x = l => tokens'[x] = Burst \/ Serves(x, j)
      BY <1>1, <1>4, <1>7 DEF TypeOK, Serves
    <3>. QED  BY <3>1, <3>2, <3>3, <3>4, <3>5
  <2>6. LowerBound(j)'
    BY <2>5 DEF LowerBound
  <2>. QED  BY <2>4, <2>6 DEF Bounds
<1>. QED  BY <1>6, <1>7

LEMMA AllowBounds ==
    ASSUME RateInv, NEW w \in Workers, Allow(w), NEW j \in Keys
    PROVE  Bounds(j)'
<1>. DEFINE k == KeyOf(sender[w])
            l == limiter[w]
            got == IF Allowed(w) THEN 1 ELSE 0
<1>1. TypeOK /\ Owners /\ UpperBound(j) /\ LowerBound(j)
  BY DEF RateInv
<1>2. /\ k \in Keys /\ k[2] = Caller(sender[w]) /\ Caller(sender[w]) \in Users \cup Hosts
      /\ l \in Limiters /\ l # Nil /\ UNCHANGED <<limiters, idle>>
      /\ limiter'[w] = Nil /\ \A v \in Workers \ {w} : limiter'[v] = limiter[v] /\ sender'[v] = sender[v]
  BY KeyOfSender DEF Allow, RateInv, RequestOK, TypeOK
<1>3. /\ tokens[l] \in Nat
      /\ \A x \in Limiters \ {l} : tokens'[x] = tokens[x]
      /\ tokens'[l] = tokens[l] - got
      /\ j = k => \A n \in 0..Minute : granted'[j[2]][n] = granted[j[2]][n] + got
      /\ j # k => granted'[j[2]] = granted[j[2]]
  <2>1. CASE Refused(w)
    <3>1. got = 0 /\ tokens' = tokens /\ granted' = granted /\ tokens[l] \in Nat
      BY <1>1, <1>2, <2>1 DEF Refused, Allowed, TypeOK
    <3>2. \A n \in 0..Minute : granted[j[2]][n] \in Nat
      BY <1>1, GotType DEF Got
    <3>. HIDE DEF got, k, l
    <3>. QED  BY <3>1, <3>2
  <2>2. CASE Allowed(w)
    <3>1. /\ got = 1 /\ tokens' = [tokens EXCEPT ![l] = tokens[l] - 1] /\ tokens[l] \in Nat
          /\ granted' = [granted EXCEPT ![k[2]] = [n \in 0..Minute |-> granted[k[2]][n] + 1]]
      BY <1>1, <1>2, <2>2 DEF Allowed, TypeOK
    <3>. HIDE DEF got, k, l
    <3>2. k[2] \in Users \cup Hosts /\ j[2] \in Users \cup Hosts /\ (j # k => j[2] # k[2])
      BY <1>2, KeyOfCaller
    <3>3. /\ tokens'[l] = tokens[l] - 1 /\ \A x \in Limiters \ {l} : tokens'[x] = tokens[x]
      BY <1>1, <1>2, <3>1 DEF TypeOK
    <3>4. j = k => \A n \in 0..Minute : granted'[j[2]][n] = granted[j[2]][n] + 1
      BY <1>1, <3>1, <3>2 DEF TypeOK
    <3>5. j # k => granted'[j[2]] = granted[j[2]]
      BY <1>1, <3>1, <3>2 DEF TypeOK
    <3>. QED  BY <3>1, <3>3, <3>4, <3>5
  <2>. QED  BY <2>1, <2>2 DEF Allow
<1>4. got \in {0, 1}
  OBVIOUS
<1>. HIDE DEF got
<1>5. w \in Holding(k) /\ \A x : Holding(x)' = Holding(x) \ {w}
  BY <1>2 DEF Holding
<1>6. CASE j # k
  <2>1. Holding(j)' = Holding(j)
    BY <1>5, <1>6 DEF Holding
  <2>2. ~Serves(l, j)
    BY <1>1, <1>2, <1>6 DEF Serves, Owners, Holding
  <2>3. \A x \in Limiters : Serves(x, j) => tokens'[x] = tokens[x]
    BY <1>3, <2>2
  <2>4. \A v \in Holding(j) : limiter'[v] = limiter[v]
    BY <1>2, <1>6 DEF Holding
  <2>. QED  BY <1>2, <1>3, <1>6, <2>1, <2>3, <2>4, OtherKey
<1>7. CASE j = k
  <2>. DEFINE H == Cardinality(Holding(j))
              O == Cardinality(Orphans(j))
              W == Cardinality(Workers)
  <2>1. H \in Nat /\ O \in Nat /\ W \in Nat /\ Cardinality(Holding(j)') = H - 1
    <3>1. Cardinality(Holding(j) \ {w}) = Cardinality(Holding(j)) - 1
      BY <1>5, <1>7, Sizes, FS_RemoveElement
    <3>. QED  BY <1>5, <3>1, Sizes
  <2>2. Orphans(j)' = Orphans(j) \ {w}
    BY <1>2, <1>5 DEF Orphans, Holding
  <2>3. w \in Orphans(j) <=> limiters[j] # l
    BY <1>5, <1>7 DEF Orphans
  <2>4. Cardinality(Orphans(j)') = IF limiters[j] # l THEN O - 1 ELSE O
    <3>1. Cardinality(Orphans(j) \ {w}) = IF w \in Orphans(j) THEN O - 1 ELSE O
      BY Sizes, FS_RemoveElement
    <3>. QED  BY <2>2, <2>3, <3>1
  <2>5. \A n \in 0..Minute : Got(j, n)' = Got(j, n) + got /\ Got(j, n) \in Nat
    BY <1>1, <1>3, <1>7, GotType DEF Got
  <2>6. limiters[j] # Nil => limiters[j] \in Limiters /\ tokens[limiters[j]] \in Nat
    BY <1>1 DEF TypeOK
  <2>7. limiters[j] # Nil => tokens'[limiters[j]] = IF limiters[j] = l THEN tokens[l] - got
                                                     ELSE tokens[limiters[j]]
    BY <1>3, <2>6
  <2>. HIDE DEF H, O, W, k, l
  <2>8. ASSUME NEW n \in 0..Minute
        PROVE  /\ limiters[j] = Nil => Got(j, n)' + (H - 1) <= W
               /\ limiters[j] # Nil =>
                    /\ Got(j, n)' + tokens'[limiters[j]] + Cardinality(Orphans(j)') <= Burst + n + W
                    /\ n < idle[j] => Got(j, n)' + (H - 1) <= W
    <3>1. /\ limiters[j] = Nil => Got(j, n) + H <= W
          /\ limiters[j] # Nil => /\ Got(j, n) + tokens[limiters[j]] + O <= Burst + n + W
                                  /\ n < idle[j] => Got(j, n) + H <= W
      BY <1>1 DEF UpperBound, H, O, W
    <3>2. Got(j, n)' = Got(j, n) + got /\ Got(j, n) \in Nat /\ n \in Nat
      BY <2>5
    <3>. QED  BY <1>3, <1>4, <2>1, <2>4, <2>6, <2>7, <3>1, <3>2, RateTypes
  <2>9. UpperBound(j)'
    BY <1>2, <2>1, <2>8 DEF UpperBound, W
  <2>10. ASSUME NEW x \in Limiters, Serves(x, j)', NEW n \in 0..Minute
         PROVE  n <= tokens'[x] + Got(j, n)'
    <3>1. Serves(x, j)
      BY <1>2, <1>5, <2>10 DEF Serves, Holding
    <3>2. n <= tokens[x] + Got(j, n) /\ tokens[x] \in Nat
      BY <1>1, <3>1 DEF LowerBound, TypeOK
    <3>3. tokens'[x] = tokens[x] \/ tokens'[x] = tokens[x] - got
      BY <1>3
    <3>4. Got(j, n)' = Got(j, n) + got /\ Got(j, n) \in Nat
      BY <2>5
    <3>. QED  BY <1>4, <3>2, <3>3, <3>4
  <2>11. LowerBound(j)'
    BY <2>10 DEF LowerBound
  <2>. QED  BY <2>9, <2>11 DEF Bounds
<1>. QED  BY <1>6, <1>7

-----------------------------------------------------------------------------
LEMMA RateInvInit == Init => RateInv
<1>. SUFFICES ASSUME Init PROVE RateInv
  OBVIOUS
<1>1. TypeOK
  <2>1. fired \in BOOLEAN /\ cancelled \in BOOLEAN
    BY Zenon DEF Init
  <2>2. /\ idle \in [Keys -> 0..(IdleLimit + 1)] /\ tokens \in [Limiters -> 0..Burst]
        /\ ticker \in 1..Period /\ granted \in [Users \cup Hosts -> [0..Minute -> Nat]]
    BY RateTypes DEF Init
  <2>. QED  BY <2>1, <2>2 DEF Init, TypeOK
<1>2. Owners /\ \A w \in Workers : RequestOK(w)
  BY DEF Init, Owners, RequestOK
<1>3. ASSUME NEW k \in Keys PROVE UpperBound(k) /\ LowerBound(k)
  <2>1. Holding(k) = {} /\ limiters[k] = Nil
    BY DEF Init, Holding
  <2>2. \A n \in 0..Minute : Got(k, n) = 0
    BY KeyOfCaller DEF Init, Got
  <2>3. UpperBound(k)
    BY <2>1, <2>2, Sizes DEF UpperBound
  <2>4. \A l \in Limiters : ~Serves(l, k)
    BY <2>1, RateConstants DEF Serves
  <2>. QED  BY <2>3, <2>4 DEF LowerBound
<1>. QED  BY <1>1, <1>2, <1>3 DEF RateInv

LEMMA RateInvNext == RateInv /\ [Next]_vars => RateInv'
<1>. SUFFICES ASSUME RateInv, [Next]_vars PROVE RateInv'
  OBVIOUS
<1>1. TypeOK' /\ Owners' /\ \A w \in Workers : RequestOK(w)'
  BY TypeStep, RequestsAndOwners DEF RateInv
<1>2. ASSUME NEW k \in Keys PROVE Bounds(k)'
  <2>1. ASSUME NEW w \in Workers, Arrive(w) PROVE Bounds(k)'
    <3>1. UNCHANGED <<limiters, idle, tokens, limiter, granted>>
      BY <2>1 DEF Arrive
    <3>2. \A v \in Workers : limiter[v] # Nil => sender'[v] = sender[v]
      BY <2>1 DEF Arrive, RateInv, RequestOK, TypeOK
    <3>. QED  BY <3>1, <3>2, QuietStep
  <2>2. ASSUME NEW w \in Workers, getLimiter(w) \/ Allow(w) PROVE Bounds(k)'
    BY <2>2, GetLimiterBounds, AllowBounds
  <2>3. CASE Shutdown \/ StopCleaner \/ UNCHANGED vars
    <3>1. UNCHANGED <<limiters, idle, tokens, limiter, granted, sender>>
      BY <2>3 DEF Shutdown, StopCleaner, vars, requests
    <3>. QED  BY <3>1, QuietStep
  <2>4. CASE Tick \/ CleanUp
    BY <2>4, TickBounds, CleanUpBounds
  <2>. QED  BY <2>1, <2>2, <2>3, <2>4 DEF Next
<1>. QED  BY <1>1, <1>2 DEF RateInv, Bounds

LEMMA RateInvariant == Spec => []RateInv
BY RateInvInit, RateInvNext, PTL DEF Spec

\* Every variable has its type: no bucket overflows or is overdrawn, and no request is
\* let through without a limiter.
THEOREM RateTypeCorrect == Spec => []TypeOK
<1>1. RateInv => TypeOK
  BY DEF RateInv
<1>. QED  BY <1>1, RateInvariant, PTL

\* A caller gets at most a full bucket and its refill through in any minute, and one
\* request more for each goroutine: the clean-up forgives nothing.
THEOREM MinuteIsBounded == Spec => []MinuteBound
<1>1. RateInv => MinuteBound
  <2>. SUFFICES ASSUME RateInv, NEW c \in Users \cup Hosts
                PROVE  granted[c][Minute] <= 2 * RequestsPerMinute + Cardinality(Workers)
    BY DEF MinuteBound, GrantedInMinute
  <2>1. PICK k \in Keys : k[2] = c
    BY KeyOfCaller
  <2>2. Minute \in 0..Minute
    BY RateTypes
  <2>3. granted[c][Minute] = Got(k, Minute) /\ Got(k, Minute) \in Nat
    BY <2>1, <2>2, GotType DEF Got, RateInv
  <2>4. /\ limiters[k] = Nil => Got(k, Minute) + Cardinality(Holding(k)) <= Cardinality(Workers)
        /\ limiters[k] # Nil =>
              /\ tokens[limiters[k]] \in Nat
              /\ Got(k, Minute) + tokens[limiters[k]] + Cardinality(Orphans(k))
                   <= Burst + Minute + Cardinality(Workers)
    BY <2>2 DEF RateInv, UpperBound, TypeOK
  <2>. QED  BY <2>3, <2>4, Sizes, RateTypes
<1>. QED  BY <1>1, RateInvariant, PTL

\* Only a caller who had his requests of this minute is turned away.
THEOREM DeniedAreBusy == Spec => OnlyBusyAreDenied
<1>1. RateInv /\ [Next]_vars =>
         [\A w \in Workers :
            pc[w] = "allow" /\ pc'[w] = "idle" /\ Refused(w)
              => GrantedInMinute(Caller(sender[w])) >= RequestsPerMinute]_vars
  <2>. SUFFICES ASSUME RateInv, NEW w \in Workers, pc[w] = "allow", Refused(w)
                PROVE  GrantedInMinute(Caller(sender[w])) >= RequestsPerMinute
    OBVIOUS
  <2>. DEFINE k == KeyOf(sender[w])
  <2>1. /\ k \in Keys /\ k[2] = Caller(sender[w]) /\ limiter[w] \in Limiters /\ limiter[w] # Nil
        /\ tokens[limiter[w]] = 0
    BY KeyOfSender DEF RateInv, RequestOK, TypeOK, Refused
  <2>2. w \in Holding(k)
    BY <2>1 DEF Holding
  <2>3. Minute \in 0..Minute
    BY RateTypes
  <2>. HIDE DEF k
  <2>4. Minute <= tokens[limiter[w]] + Got(k, Minute) /\ Got(k, Minute) \in Nat
    BY <2>1, <2>2, <2>3, GotType DEF RateInv, LowerBound, Serves
  <2>. QED  BY <2>1, <2>4, RateTypes DEF GrantedInMinute, Got
<1>. QED  BY <1>1, RateInvariant, PTL DEF Spec, OnlyBusyAreDenied

=============================================================================
