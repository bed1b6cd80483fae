----------------------------- MODULE RateLimiter -----------------------------
(***************************************************************************)
(* app/services/rate_limiter.py: the token bucket of one tenant and        *)
(* category in Redis.  A web worker reads its clock, then sends the Lua    *)
(* script, which Redis runs atomically, later and in any order with those  *)
(* of other workers.  The key is refilled only when it is used and expires *)
(* when it is not.                                                         *)
(*                                                                         *)
(* A tick is a fraction of a second; tokens are counted in parts, Cost of  *)
(* which are one token, so that Rate parts come per tick.                  *)
(***************************************************************************)
EXTENDS Integers

CONSTANTS
  Clients,         \* web workers with a request of the tenant
  Capacity,        \* parts in a full bucket: max(1, burst) tokens
  Rate,            \* parts per tick: per_min / 60 tokens per second
  Cost,            \* parts in one token
  TicksPerSecond,
  Slack,           \* the 60 seconds that the ttl adds
  MaxDelay,        \* ticks from reading the clock to the script, at most
  Outages,         \* whether Redis may fail
  FailOpen,        \* RATE_LIMIT_FAIL_OPEN
  MaxClock,        \* bound on the clock
  None

ASSUME RateLimiterAssumption ==
  /\ Capacity \in Nat /\ Rate \in Nat \ {0} /\ Cost \in Nat \ {0}
  /\ Cost <= Capacity
  /\ TicksPerSecond \in Nat \ {0} /\ Slack \in Nat \ {0}
  /\ Outages \in BOOLEAN /\ FailOpen \in BOOLEAN
  /\ MaxClock \in Nat /\ None \notin Nat

(* A script is not under way for as long as the slack.  The second less is *)
(* the one that rounding the time to refill down may cost.                 *)
ASSUME DelayAssumption ==
  MaxDelay \in Nat /\ MaxDelay <= (Slack - 1) * TicksPerSecond

VARIABLES
  clock,    \* time in ticks
  tokens,   \* the key's fields, and the tick at which it expires;
  ts,       \*   no script has run yet while expires = 0
  expires,
  sent,     \* sent[c]: the time c read for its script, None when it has none
  answer,   \* answer[c]: what check_rate_limit did
  granted,  \* ghost: how many scripts returned allowed
  twice     \* ghost: by how many ticks scripts have set ts back in all

vars == <<clock, tokens, ts, expires, sent, answer, granted, twice>>

-----------------------------------------------------------------------------
PerSecond == Rate * TicksPerSecond

\* Mutant of Ttl: the time to refill is left out.
TtlSlackOnly == Slack * TicksPerSecond

\* ttl = int(capacity / rate) + 60, in ticks
Ttl == ((Capacity \div PerSecond) + Slack) * TicksPerSecond

HasKey == clock < expires

Elapsed(now) == IF now - ts < 0 THEN 0 ELSE now - ts

\* Mutant of Capped: the refill may pass the capacity.
CappedNot(n) == n

Capped(n) == IF n < Capacity THEN n ELSE Capacity

Refilled(now) == IF HasKey THEN Capped(tokens + Elapsed(now) * Rate) ELSE Capacity

\* Mutant of RetryAfter: rounded down.
RetryAfterFloor(n) ==
  LET wait == (Cost - n) \div PerSecond IN IF wait < 1 THEN 1 ELSE wait

\* math.ceil((1 - tokens) / rate), at least 1
RetryAfter(n) ==
  LET wait == (Cost - n + PerSecond - 1) \div PerSecond IN IF wait < 1 THEN 1 ELSE wait

Init ==
  /\ clock = 0
  /\ tokens = 0 /\ ts = 0 /\ expires = 0
  /\ sent = [c \in Clients |-> None]
  /\ answer = [c \in Clients |-> 0]
  /\ granted = 0 /\ twice = 0

\* time.time() when the request reaches _consume
Send(c) ==
  /\ sent[c] = None
  /\ sent' = [sent EXCEPT ![c] = clock]
  /\ UNCHANGED <<clock, tokens, ts, expires, answer, granted, twice>>

SetBack(now) == IF HasKey /\ now < ts THEN ts - now ELSE 0

\* Mutant of Store: the time of the refill is not kept.
StoreTokensOnly(n, now) ==
  /\ tokens' = n
  /\ ts' = ts
  /\ expires' = clock + Ttl
  /\ twice' = twice + SetBack(now)

\* ts is the time of the script, even when the key holds a later one.
Store(n, now) ==
  /\ tokens' = n
  /\ ts' = now
  /\ expires' = clock + Ttl
  /\ twice' = twice + SetBack(now)

Enough(n) == n >= Cost

Grant(c) ==
  /\ sent[c] # None /\ Enough(Refilled(sent[c]))
  /\ Store(Refilled(sent[c]) - Cost, sent[c])
  /\ granted' = granted + 1
  /\ answer' = [answer EXCEPT ![c] = 0]
  /\ sent' = [sent EXCEPT ![c] = None]
  /\ UNCHANGED clock

\* 429, with the seconds to wait in the Retry-After header
Refuse(c) ==
  /\ sent[c] # None /\ ~Enough(Refilled(sent[c]))
  /\ Store(Refilled(sent[c]), sent[c])
  /\ answer' = [answer EXCEPT ![c] = RetryAfter(Refilled(sent[c]))]
  /\ sent' = [sent EXCEPT ![c] = None]
  /\ UNCHANGED <<clock, granted>>

\* Redis cannot be reached: let the request through, or 503.
Unavailable(c) ==
  /\ Outages /\ sent[c] # None
  /\ answer' = [answer EXCEPT ![c] = IF FailOpen THEN 0 ELSE None]
  /\ sent' = [sent EXCEPT ![c] = None]
  /\ UNCHANGED <<clock, tokens, ts, expires, granted, twice>>

Tick ==
  /\ clock < MaxClock
  /\ \A c \in Clients : sent[c] # None => clock - sent[c] < MaxDelay
  /\ clock' = clock + 1
  /\ UNCHANGED <<tokens, ts, expires, sent, answer, granted, twice>>

Next ==
  \/ Tick
  \/ \E c \in Clients : Send(c) \/ Grant(c) \/ Refuse(c) \/ Unavailable(c)

Spec == Init /\ [][Next]_vars

-----------------------------------------------------------------------------
TypeOK ==
  /\ clock \in 0..MaxClock
  /\ tokens \in 0..Capacity /\ ts \in 0..MaxClock /\ expires \in Nat
  /\ sent \in [Clients -> (0..MaxClock) \cup {None}]
  /\ answer \in [Clients -> Nat \cup {None}]
  /\ granted \in Nat /\ twice \in Nat

(* Through refusals, idle periods, expired keys and scripts that were long *)
(* under way, what was granted is at most the burst and what has come in   *)
(* since.  A script that runs with an older time than the one before it    *)
(* sets ts back, and the time it sets it back by comes in twice; nothing   *)
(* else does.                                                              *)
RateBound == granted * Cost <= Capacity + Rate * (clock + twice)

(* What the docstring (rate_limiter.py:10-12) promises: the burst, and the *)
(* sustained rate after it.  It fails when time comes in twice.            *)
SustainedRate == granted * Cost <= Capacity + Rate * clock

(* That a key is forgotten when it is idle is never seen: the limiter is   *)
(* the bucket of TokenBucket, which keeps its level for ever, whatever     *)
(* times the scripts bring and however long they were under way.           *)
Bucket == INSTANCE TokenBucket
            WITH level <- IF expires = 0 THEN Capacity ELSE tokens, time <- ts
ImplementsBucket == Bucket!Spec

(* Retry-After is honest: a caller that waits the seconds it was told      *)
(* finds a token if nobody else took one, and a second less would have     *)
(* been too short.                                                         *)
RetryAfterHonest ==
  [][\A c \in Clients : Refuse(c) =>
       LET wait == answer'[c] IN
       /\ tokens' + wait * PerSecond >= Cost
       /\ wait > 1 => tokens' + (wait - 1) * PerSecond < Cost]_vars
=============================================================================
