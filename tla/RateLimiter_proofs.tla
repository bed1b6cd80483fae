-------------------------- MODULE RateLimiter_proofs --------------------------
(* Proofs about RateLimiter, for every rate, burst, number of workers and  *)
(* length of time, and scripts that run in any order.                      *)
EXTENDS RateLimiter, TLAPS

-----------------------------------------------------------------------------
(* Arithmetic the provers need to be told.                                 *)

\* Arithmetic of one more tick.
LEMMA Distributes ==
  \A a, b, r \in Int : (a + b) * r = a * r + b * r /\ (a - b) * r = a * r - b * r
OBVIOUS

\* Arithmetic of a longer wait.
LEMMA Grows ==
  \A a, b, r \in Nat : a <= b => a * r <= b * r
BY Z3

\* A quotient rounded down is less than one below.
LEMMA DivBound ==
  \A n \in Nat, d \in Nat \ {0} : n \div d \in Nat /\ n < (n \div d + 1) * d
OBVIOUS

(* A key that is gone has been idle, by any script's time, for as long as  *)
(* an empty bucket takes to fill.                                          *)
LEMMA TtlRefills ==
  Ttl \in Nat \ {0} /\ Ttl - MaxDelay \in Nat /\ (Ttl - MaxDelay) * Rate >= Capacity
<1> DEFINE q == Capacity \div PerSecond
           d == (q + 1) * TicksPerSecond
<1> USE RateLimiterAssumption, DelayAssumption
<1>1. PerSecond \in Nat \ {0} /\ PerSecond = TicksPerSecond * Rate
  BY DEF PerSecond
<1>2. q \in Nat /\ Capacity < (q + 1) * PerSecond
  BY <1>1, DivBound
<1>3. Ttl = (q + Slack) * TicksPerSecond
  BY DEF Ttl
<1> HIDE DEF q
<1>4. Ttl \in Nat \ {0} /\ d \in Nat
  BY <1>2, <1>3
<1>5. Ttl = d + (Slack - 1) * TicksPerSecond
  <2>1. q + Slack = (q + 1) + (Slack - 1) /\ q + 1 \in Int /\ Slack - 1 \in Int
    BY <1>2
  <2> QED
    BY <1>3, <2>1, Distributes
<1>6. d * Rate = (q + 1) * PerSecond
  BY <1>1, <1>2
<1> HIDE DEF d
<1>7. Ttl - MaxDelay \in Nat /\ d <= Ttl - MaxDelay
  <2>1. (Slack - 1) * TicksPerSecond \in Int
    OBVIOUS
  <2> QED
    BY <1>4, <1>5, <2>1
<1>8. d * Rate <= (Ttl - MaxDelay) * Rate
  BY <1>4, <1>7, Grows
<1>9. d * Rate \in Nat /\ (Ttl - MaxDelay) * Rate \in Nat
  BY <1>4, <1>7
<1> QED
  BY <1>2, <1>4, <1>6, <1>7, <1>8, <1>9

-----------------------------------------------------------------------------
(* The bound holds at the time of the last script with the tokens it left; *)
(* no script is under way for longer than MaxDelay.                        *)
Fresh == \A c \in Clients : sent[c] # None => sent[c] <= clock /\ clock - sent[c] <= MaxDelay

Inv ==
  /\ TypeOK
  /\ Fresh
  /\ expires = 0 => granted = 0 /\ ts = 0
  /\ expires # 0 => /\ ts + Ttl <= expires /\ expires <= clock + Ttl
                    /\ granted * Cost + tokens <= Capacity + (ts + twice) * Rate

\* A bucket nobody has used holds the burst.
LEMMA InvInit == Init => Inv
BY RateLimiterAssumption DEF Init, Inv, Fresh, TypeOK

\* A refill keeps the level within the capacity.
LEMMA RefilledBounds ==
  ASSUME TypeOK, NEW now \in Nat
  PROVE  Refilled(now) \in 0..Capacity
<1>1. Elapsed(now) \in Nat
  BY DEF Elapsed, TypeOK
<1>2. tokens + Elapsed(now) * Rate \in Nat
  BY <1>1, RateLimiterAssumption DEF TypeOK
<1> QED
  BY <1>2, RateLimiterAssumption DEF Refilled, Capped

(* What a script finds keeps to the bound of its time, when the time it    *)
(* sets back is counted.                                                   *)
LEMMA RefilledInBound ==
  ASSUME Inv, NEW c \in Clients, sent[c] # None
  PROVE  /\ sent[c] \in 0..MaxClock /\ SetBack(sent[c]) \in Nat
         /\ granted * Cost + Refilled(sent[c])
              <= Capacity + (sent[c] + (twice + SetBack(sent[c]))) * Rate
<1> USE RateLimiterAssumption
<1>1. PICK now \in Nat : now = sent[c] /\ now \in 0..MaxClock
  BY DEF Inv, TypeOK
<1>2. /\ granted \in Nat /\ ts \in Nat /\ twice \in Nat /\ expires \in Nat /\ clock \in Nat
      /\ tokens \in 0..Capacity /\ now <= clock /\ clock - now <= MaxDelay
      /\ granted * Cost \in Nat
  BY <1>1 DEF Inv, TypeOK, Fresh
<1>3. Refilled(now) \in 0..Capacity
  BY RefilledBounds DEF Inv
<1> DEFINE back == SetBack(now)
<1>4. back \in Nat
  BY <1>2 DEF SetBack
<1>5. granted * Cost + Refilled(now) <= Capacity + (now + (twice + back)) * Rate
  <2>1. CASE expires = 0
    <3>1. granted = 0
      BY <2>1 DEF Inv
    <3>2. granted * Cost = 0
      BY <3>1
    <3>3. (now + (twice + back)) * Rate \in Nat
      <4> HIDE DEF back
      <4> QED
        BY <1>2, <1>4
    <3> QED
      BY <1>3, <3>2, <3>3
  <2>2. CASE expires # 0 /\ HasKey /\ now >= ts
    <3>1. back = 0 /\ Elapsed(now) = now - ts
      BY <1>2, <2>2 DEF SetBack, Elapsed
    <3>2. Refilled(now) <= tokens + (now - ts) * Rate
      <4>1. (now - ts) * Rate \in Int
        BY <1>2
      <4> QED
        BY <1>2, <2>2, <3>1, <4>1 DEF Refilled, Capped
    <3>3. (ts + twice) * Rate + (now - ts) * Rate = (now + twice) * Rate
      <4>1. now + twice = (ts + twice) + (now - ts)
        BY <1>2
      <4> QED
        BY <1>2, <4>1, Distributes
    <3>4. granted * Cost + tokens <= Capacity + (ts + twice) * Rate
      BY <2>2 DEF Inv
    <3>5. now + (twice + back) = now + twice
      BY <1>2, <3>1
    <3>6. (ts + twice) * Rate \in Int /\ (now - ts) * Rate \in Int /\ (now + twice) * Rate \in Int
      BY <1>2
    <3> QED
      BY <1>2, <1>3, <3>2, <3>3, <3>4, <3>5, <3>6
  <2>3. CASE expires # 0 /\ HasKey /\ now < ts
    <3>1. back = ts - now /\ Elapsed(now) = 0
      BY <1>2, <2>3 DEF SetBack, Elapsed
    <3>2. Refilled(now) <= tokens
      <4>1. 0 * Rate = 0
        OBVIOUS
      <4> QED
        BY <1>2, <2>3, <3>1, <4>1 DEF Refilled, Capped
    <3>3. now + (twice + back) = ts + twice
      BY <1>2, <3>1
    <3>4. granted * Cost + tokens <= Capacity + (ts + twice) * Rate
      BY <2>3 DEF Inv
    <3>5. (ts + twice) * Rate \in Int
      BY <1>2
    <3> QED
      BY <1>2, <1>3, <3>2, <3>3, <3>4, <3>5
  <2>4. CASE expires # 0 /\ ~HasKey
    <3>1. back = 0 /\ Refilled(now) = Capacity
      BY <2>4 DEF SetBack, Refilled
    <3>2. ts + Ttl <= clock
      BY <1>2, <2>4, TtlRefills DEF Inv, HasKey
    <3> DEFINE d == Ttl - MaxDelay
    <3>3. d \in Nat /\ ts + d <= now
      BY <1>2, <3>2, TtlRefills, DelayAssumption
    <3>4. d * Rate >= Capacity /\ d * Rate \in Nat
      BY <3>3, TtlRefills
    <3> HIDE DEF d
    <3>5. ((ts + twice) + d) * Rate <= (now + twice) * Rate
      <4>1. (ts + twice) + d <= now + twice /\ (ts + twice) + d \in Nat /\ now + twice \in Nat
        BY <1>2, <3>3
      <4> QED
        BY <4>1, Grows
    <3>6. ((ts + twice) + d) * Rate = (ts + twice) * Rate + d * Rate
      BY <1>2, <3>3, Distributes
    <3>7. granted * Cost + tokens <= Capacity + (ts + twice) * Rate
      BY <2>4 DEF Inv
    <3>8. now + (twice + back) = now + twice
      BY <1>2, <3>1
    <3>9. (ts + twice) * Rate \in Int /\ (now + twice) * Rate \in Int
      BY <1>2
    <3> QED
      BY <1>2, <3>1, <3>4, <3>5, <3>6, <3>7, <3>8, <3>9
  <2> QED
    BY <1>2, <2>1, <2>2, <2>3, <2>4
<1> QED
  BY <1>1, <1>4, <1>5

\* The wait is a number of seconds.
LEMMA RetryAfterType ==
  ASSUME NEW n \in 0..Capacity
  PROVE  n < Cost => RetryAfter(n) \in Nat
<1> SUFFICES ASSUME n < Cost
             PROVE  RetryAfter(n) \in Nat
  OBVIOUS
<1>1. PerSecond \in Nat \ {0}
  BY RateLimiterAssumption DEF PerSecond
<1>2. Cost - n + PerSecond - 1 \in Nat
  BY <1>1, RateLimiterAssumption
<1>3. (Cost - n + PerSecond - 1) \div PerSecond \in Nat
  BY <1>1, <1>2, DivBound
<1> QED
  BY <1>3 DEF RetryAfter

-----------------------------------------------------------------------------
(* What needs no order: types, and the wait that a refused caller is told. *)

\* A quotient rounded up covers the whole, and one less does not.
LEMMA CeilBound ==
  ASSUME NEW a \in Nat \ {0}, NEW d \in Nat \ {0}
  PROVE  LET q == (a + d - 1) \div d IN
         q \in Nat \ {0} /\ q * d >= a /\ (q - 1) * d < a
<1> DEFINE q == (a + d - 1) \div d
<1>1. a + d - 1 \in Nat
  OBVIOUS
<1>2. q \in Nat /\ a + d - 1 < (q + 1) * d /\ q * d <= a + d - 1
  BY <1>1
<1> HIDE DEF q
<1>3. q * d \in Int /\ (q + 1) * d = q * d + d /\ (q - 1) * d = q * d - d
  BY <1>2
<1>4. q * d >= a /\ (q - 1) * d < a
  BY <1>2, <1>3
<1>5. q # 0
  BY <1>2
<1> QED
  BY <1>2, <1>4, <1>5 DEF q

\* A refused caller is told the tokens it lacks over the rate, rounded up.
LEMMA WaitIsHonest ==
  ASSUME NEW n \in 0..Capacity, n < Cost
  PROVE  /\ n + RetryAfter(n) * PerSecond >= Cost
         /\ RetryAfter(n) > 1 => n + (RetryAfter(n) - 1) * PerSecond < Cost
<1> DEFINE a == Cost - n
           q == (a + PerSecond - 1) \div PerSecond
<1> USE RateLimiterAssumption
<1>1. PerSecond \in Nat \ {0}
  BY DEF PerSecond
<1>2. a \in Nat \ {0}
  OBVIOUS
<1>3. q \in Nat \ {0} /\ q * PerSecond >= a /\ (q - 1) * PerSecond < a
  <2> HIDE DEF a
  <2> QED
    BY <1>1, <1>2, CeilBound
<1>4. RetryAfter(n) = IF q < 1 THEN 1 ELSE q
  BY DEF RetryAfter
<1>5. a = Cost - n /\ n \in Nat /\ Cost \in Nat
  OBVIOUS
<1> HIDE DEF a, q
<1>6. RetryAfter(n) = q
  BY <1>3, <1>4
<1>7. q * PerSecond \in Int /\ (q - 1) * PerSecond \in Int
  BY <1>1, <1>3
<1>8. n + q * PerSecond >= Cost /\ n + (q - 1) * PerSecond < Cost
  BY <1>3, <1>5, <1>7
<1> QED
  BY <1>6, <1>8

\* Every step keeps the types, whatever time a script brings.
LEMMA TypeNext == TypeOK /\ [Next]_vars => TypeOK'
<1> SUFFICES ASSUME TypeOK, [Next]_vars
             PROVE  TypeOK'
  OBVIOUS
<1> USE RateLimiterAssumption
<1>1. CASE Tick
  BY <1>1 DEF Tick, TypeOK
<1>2. ASSUME NEW c \in Clients, Send(c)
      PROVE  TypeOK'
  BY <1>2 DEF Send, TypeOK
<1>3. ASSUME NEW c \in Clients, Grant(c) \/ Refuse(c)
      PROVE  TypeOK'
  <2>1. PICK now \in 0..MaxClock : now = sent[c]
    BY <1>3 DEF Grant, Refuse, TypeOK
  <2>2. Refilled(now) \in 0..Capacity
    BY RefilledBounds
  <2>3. PICK n \in 0..Capacity : n = Refilled(now)
    BY <2>2
  <2>4. clock + Ttl \in Nat /\ twice + SetBack(now) \in Nat
    BY TtlRefills DEF TypeOK, SetBack
  <2>5. CASE Grant(c)
    <3>1. /\ n >= Cost /\ tokens' = n - Cost /\ ts' = now /\ expires' = clock + Ttl
          /\ granted' = granted + 1 /\ clock' = clock /\ twice' = twice + SetBack(now)
          /\ answer' = [answer EXCEPT ![c] = 0]
          /\ sent' = [sent EXCEPT ![c] = None]
      BY <2>1, <2>3, <2>5 DEF Grant, Store, Enough
    <3> QED
      BY <2>4, <3>1 DEF TypeOK
  <2>6. CASE Refuse(c)
    <3>1. /\ n < Cost /\ tokens' = n /\ ts' = now /\ expires' = clock + Ttl
          /\ granted' = granted /\ clock' = clock /\ twice' = twice + SetBack(now)
          /\ answer' = [answer EXCEPT ![c] = RetryAfter(n)]
          /\ sent' = [sent EXCEPT ![c] = None]
      BY <2>1, <2>3, <2>6 DEF Refuse, Store, Enough
    <3>2. RetryAfter(n) \in Nat
      BY <3>1, RetryAfterType
    <3> QED
      BY <2>4, <3>1, <3>2 DEF TypeOK
  <2> QED
    BY <1>3, <2>5, <2>6
<1>4. ASSUME NEW c \in Clients, Unavailable(c)
      PROVE  TypeOK'
  BY <1>4 DEF Unavailable, TypeOK
<1>5. CASE UNCHANGED vars
  BY <1>5 DEF vars, TypeOK
<1> QED
  BY <1>1, <1>2, <1>3, <1>4, <1>5 DEF Next

(* The bucket never holds less than nothing or more than the burst, even   *)
(* when scripts run out of the order of their times and time goes back.    *)
THEOREM TypesHold == Spec => []TypeOK
<1>1. Init => TypeOK
  BY RateLimiterAssumption DEF Init, TypeOK
<1> QED
  BY <1>1, TypeNext, PTL DEF Spec

(* Retry-After is enough when nobody else takes a token, and a second less *)
(* is not, for any rate, burst and order of scripts.                       *)
THEOREM RetryAfterIsHonest == Spec => RetryAfterHonest
<1>1. ASSUME TypeOK, NEW c \in Clients, Refuse(c)
      PROVE  LET wait == answer'[c] IN
             /\ tokens' + wait * PerSecond >= Cost
             /\ wait > 1 => tokens' + (wait - 1) * PerSecond < Cost
  <2>1. PICK now \in 0..MaxClock : now = sent[c]
    BY <1>1 DEF Refuse, TypeOK
  <2>2. Refilled(now) \in 0..Capacity
    BY <1>1, RefilledBounds, RateLimiterAssumption
  <2>3. PICK n \in 0..Capacity : n = Refilled(now)
    BY <2>2
  <2>4. n < Cost /\ tokens' = n /\ answer'[c] = RetryAfter(n)
    BY <1>1, <2>1, <2>3, RateLimiterAssumption DEF Refuse, Store, Enough, TypeOK
  <2> QED
    BY <2>4, WaitIsHonest
<1>2. TypeOK /\ [Next]_vars =>
        [\A c \in Clients : Refuse(c) =>
           LET wait == answer'[c] IN
           /\ tokens' + wait * PerSecond >= Cost
           /\ wait > 1 => tokens' + (wait - 1) * PerSecond < Cost]_vars
  BY <1>1
<1> QED
  BY <1>2, TypesHold, PTL DEF Spec, RetryAfterHonest

-----------------------------------------------------------------------------
(* A script keeps the invariant: it leaves no more than it found, less     *)
(* what it grants.                                                         *)
LEMMA ScriptKeeps ==
  ASSUME Inv, TypeOK', NEW c \in Clients, sent[c] # None,
         clock' = clock, ts' = sent[c], expires' = clock + Ttl,
         sent' = [sent EXCEPT ![c] = None],
         twice' = twice + SetBack(sent[c]),
         granted' * Cost + tokens' = granted * Cost + Refilled(sent[c])
  PROVE  Inv'
<1>1. Fresh'
  BY DEF Inv, TypeOK, Fresh
<1>2. expires' # 0 /\ ts' + Ttl <= expires' /\ expires' <= clock' + Ttl
  <2>1. sent[c] \in Nat /\ sent[c] <= clock /\ clock \in Nat
    BY RateLimiterAssumption DEF Inv, TypeOK, Fresh
  <2> QED
    BY <2>1, TtlRefills
<1>3. granted' * Cost + tokens' <= Capacity + (ts' + twice') * Rate
  BY RefilledInBound
<1> QED
  BY <1>1, <1>2, <1>3 DEF Inv

\* Every step keeps the invariant.
LEMMA InvNext == Inv /\ [Next]_vars => Inv'
<1> SUFFICES ASSUME Inv, [Next]_vars
             PROVE  Inv'
  OBVIOUS
<1> USE RateLimiterAssumption, DelayAssumption
<1>0. TypeOK'
  BY TypeNext DEF Inv
<1>1. CASE Tick
  <2>1. Fresh'
    <3> SUFFICES ASSUME NEW c \in Clients, sent[c] # None
                 PROVE  sent[c] <= clock + 1 /\ (clock + 1) - sent[c] <= MaxDelay
      BY <1>1 DEF Tick, Fresh
    <3>1. sent[c] \in Nat /\ clock \in Nat /\ sent[c] <= clock /\ clock - sent[c] < MaxDelay
      BY <1>1 DEF Tick, Inv, TypeOK, Fresh
    <3> QED
      BY <3>1
  <2>2. expires # 0 => expires <= clock' + Ttl
    BY <1>1, TtlRefills DEF Tick, Inv, TypeOK
  <2> QED
    BY <1>0, <1>1, <2>1, <2>2 DEF Tick, Inv
<1>2. ASSUME NEW c \in Clients, Send(c)
      PROVE  Inv'
  <2>1. Fresh'
    BY <1>2 DEF Send, Inv, TypeOK, Fresh
  <2> QED
    BY <1>0, <1>2, <2>1 DEF Send, Inv
<1>3. ASSUME NEW c \in Clients, Grant(c)
      PROVE  Inv'
  <2>1. Refilled(sent[c]) \in 0..Capacity /\ granted \in Nat
    BY <1>3, RefilledBounds DEF Grant, Inv, TypeOK
  <2>2. (granted + 1) * Cost = granted * Cost + Cost /\ granted * Cost \in Nat
    BY <2>1, Distributes
  <2>3. granted' = granted + 1 /\ tokens' = Refilled(sent[c]) - Cost
    BY <1>3 DEF Grant, Store
  <2>4. granted' * Cost + tokens' = granted * Cost + Refilled(sent[c])
    BY <2>1, <2>2, <2>3
  <2> QED
    BY <1>0, <1>3, <2>4, ScriptKeeps DEF Grant, Store
<1>4. ASSUME NEW c \in Clients, Refuse(c)
      PROVE  Inv'
  BY <1>0, <1>4, ScriptKeeps DEF Refuse, Store
<1>5. ASSUME NEW c \in Clients, Unavailable(c)
      PROVE  Inv'
  <2>1. Fresh'
    BY <1>5 DEF Unavailable, Inv, TypeOK, Fresh
  <2> QED
    BY <1>0, <1>5, <2>1 DEF Unavailable, Inv
<1>6. CASE UNCHANGED vars
  BY <1>0, <1>6 DEF vars, Inv, Fresh
<1> QED
  BY <1>1, <1>2, <1>3, <1>4, <1>5, <1>6 DEF Next

\* The invariant holds in every state.
LEMMA Invariant == Spec => []Inv
BY InvInit, InvNext, PTL DEF Spec

(* A tenant's requests are granted at no more than the burst and the       *)
(* sustained rate over the time there was and the time that scripts with   *)
(* an older time than the one before set back, however requests come.      *)
THEOREM RateBoundHolds == Spec => []RateBound
<1>1. Inv => RateBound
  <2> SUFFICES ASSUME Inv
               PROVE  RateBound
    OBVIOUS
  <2> USE RateLimiterAssumption, DelayAssumption
  <2>1. /\ granted \in Nat /\ tokens \in 0..Capacity /\ ts \in Nat /\ twice \in Nat
        /\ clock \in Nat /\ expires \in Nat /\ granted * Cost \in Nat
    BY DEF Inv, TypeOK
  <2>2. (clock + twice) * Rate \in Nat /\ Rate * (clock + twice) = (clock + twice) * Rate
    BY <2>1
  <2>3. CASE expires = 0
    <3>1. granted * Cost = 0
      BY <2>3 DEF Inv
    <3> QED
      BY <2>2, <3>1 DEF RateBound
  <2>4. CASE expires # 0
    <3>1. ts <= clock
      BY <2>1, <2>4, TtlRefills DEF Inv
    <3>2. (ts + twice) * Rate <= (clock + twice) * Rate
      <4>1. ts + twice <= clock + twice /\ ts + twice \in Nat /\ clock + twice \in Nat
        BY <2>1, <3>1
      <4> QED
        BY <4>1, Grows
    <3>3. granted * Cost + tokens <= Capacity + (ts + twice) * Rate
      BY <2>4 DEF Inv
    <3>4. (ts + twice) * Rate \in Nat
      BY <2>1
    <3> QED
      BY <2>1, <2>2, <3>2, <3>3, <3>4 DEF RateBound
  <2> QED
    BY <2>3, <2>4
<1> QED
  BY <1>1, Invariant, PTL

-----------------------------------------------------------------------------
(* The limiter implements the bucket that never forgets.                   *)

Level == IF expires = 0 THEN Capacity ELSE tokens

(* A script finds what the bucket would hold at its time, whether the key  *)
(* is there, is gone or was never written.                                 *)
LEMMA FindsTheLevel ==
  ASSUME Inv, NEW c \in Clients, sent[c] # None
  PROVE  sent[c] \in Nat /\ Refilled(sent[c]) = Bucket!Filled(sent[c])
<1> USE RateLimiterAssumption
<1>1. PICK now \in Nat : now = sent[c]
  BY DEF Inv, TypeOK
<1>2. /\ ts \in Nat /\ clock \in Nat /\ expires \in Nat /\ tokens \in 0..Capacity
      /\ now <= clock /\ clock - now <= MaxDelay /\ (now - ts) * Rate \in Int
  BY <1>1 DEF Inv, TypeOK, Fresh
<1>3. CASE expires = 0
  <2>1. ts = 0 /\ Refilled(now) = Capacity
    BY <1>2, <1>3 DEF Inv, Refilled, HasKey
  <2>2. (now - ts) * Rate \in Nat
    BY <2>1
  <2> QED
    BY <1>1, <1>3, <2>1, <2>2 DEF Bucket!Filled
<1>4. CASE expires # 0 /\ HasKey
  <2>1. CASE now > ts
    <3>1. Elapsed(now) = now - ts
      BY <1>2, <2>1 DEF Elapsed
    <3> QED
      BY <1>1, <1>2, <1>4, <2>1, <3>1 DEF Bucket!Filled, Refilled, Capped
  <2>2. CASE ~(now > ts)
    <3>1. Elapsed(now) = 0 /\ 0 * Rate = 0
      BY <1>2, <2>2 DEF Elapsed
    <3>2. Refilled(now) = Capped(tokens)
      BY <1>2, <1>4, <3>1 DEF Refilled
    <3> QED
      BY <1>1, <1>2, <1>4, <2>2, <3>2 DEF Bucket!Filled, Capped
  <2> QED
    BY <2>1, <2>2
<1>5. CASE expires # 0 /\ ~HasKey
  <2>1. ts + Ttl <= clock
    BY <1>2, <1>5, TtlRefills DEF Inv, HasKey
  <2> DEFINE d == Ttl - MaxDelay
  <2>2. d \in Nat /\ d <= now - ts /\ now - ts \in Nat
    BY <1>2, <2>1, TtlRefills, DelayAssumption
  <2>3. d * Rate >= Capacity /\ d * Rate <= (now - ts) * Rate /\ d * Rate \in Nat
    <3>1. d * Rate >= Capacity
      BY TtlRefills
    <3> HIDE DEF d
    <3> QED
      BY <2>2, <3>1, Grows
  <2> HIDE DEF d
  <2>4. Refilled(now) = Capacity
    BY <1>5 DEF Refilled
  <2>5. now > ts
    <3>1. d # 0
      <4>1. 0 * Rate = 0
        OBVIOUS
      <4> QED
        BY <2>3, <4>1
    <3> QED
      BY <1>2, <2>2, <3>1
  <2>6. tokens + (now - ts) * Rate >= Capacity
    BY <1>2, <2>3
  <2> QED
    BY <1>1, <1>2, <1>5, <2>4, <2>5, <2>6 DEF Bucket!Filled
<1> QED
  BY <1>3, <1>4, <1>5

(* Refilling on use and forgetting idle keys is not seen from outside: the *)
(* limiter behaves as a bucket that keeps its level for ever, for scripts  *)
(* that are late and run in any order.                                     *)
THEOREM Implementation == Spec => ImplementsBucket
<1>1. Init => Bucket!Init
  BY DEF Init, Bucket!Init
<1>2. Inv /\ [Next]_vars => [Bucket!Pass \/ Bucket!TurnAway]_<<Level, ts>>
  <2> SUFFICES ASSUME Inv, [Next]_vars
               PROVE  \/ Bucket!Pass \/ Bucket!TurnAway
                      \/ Level' = Level /\ ts' = ts
    OBVIOUS
  <2> USE RateLimiterAssumption
  <2>1. CASE Tick
    BY <2>1 DEF Tick, Level
  <2>2. ASSUME NEW c \in Clients, Send(c) \/ Unavailable(c)
        PROVE  Level' = Level /\ ts' = ts
    BY <2>2 DEF Send, Unavailable, Level
  <2>3. ASSUME NEW c \in Clients, Grant(c) \/ Refuse(c)
        PROVE  Bucket!Pass \/ Bucket!TurnAway
    <3>1. /\ sent[c] \in Nat /\ Refilled(sent[c]) = Bucket!Filled(sent[c])
          /\ ts' = sent[c] /\ expires' = clock + Ttl
      BY <2>3, FindsTheLevel DEF Grant, Refuse, Store
    <3>2. expires' # 0
      BY <3>1, TtlRefills DEF Inv, TypeOK
    <3>3. Level' = tokens'
      BY <3>2 DEF Level
    <3>4. CASE Grant(c)
      <4>1. Refilled(sent[c]) >= Cost /\ tokens' = Refilled(sent[c]) - Cost
        BY <3>4 DEF Grant, Store, Enough
      <4> QED
        BY <3>1, <3>2, <4>1 DEF Bucket!Pass
    <3>5. CASE Refuse(c)
      <4>1. tokens' = Refilled(sent[c]) /\ Refilled(sent[c]) < Cost
        <5>1. Refilled(sent[c]) \in 0..Capacity
          BY <3>1, RefilledBounds DEF Inv
        <5> QED
          BY <3>5, <5>1 DEF Refuse, Store, Enough
      <4> QED
        BY <3>1, <3>2, <4>1 DEF Bucket!TurnAway
    <3> QED
      BY <2>3, <3>4, <3>5
  <2>4. CASE UNCHANGED vars
    BY <2>4 DEF vars, Level
  <2> QED
    BY <2>1, <2>2, <2>3, <2>4 DEF Next
<1> QED
  BY <1>1, <1>2, Invariant, PTL DEF Spec, ImplementsBucket, Bucket!Spec, Level
=============================================================================
