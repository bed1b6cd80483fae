----------------------------- MODULE TokenBucket -----------------------------
(***************************************************************************)
(* What the rate limiter promises a tenant and category, as its docstring  *)
(* puts it: a bucket of Capacity that fills at the sustained rate and from *)
(* which every request that passes takes Cost.  A request brings the time  *)
(* it was made; the bucket has no clock of its own, and never forgets.     *)
(***************************************************************************)
EXTENDS Integers

CONSTANTS Capacity, Rate, Cost  \* as RateLimiterAssumption has them

VARIABLES
  level,  \* what the last request left
  time    \* the time it brought

Filled(now) ==
  LET n == IF now > time THEN level + (now - time) * Rate ELSE level
  IN  IF n < Capacity THEN n ELSE Capacity

Init == level = Capacity /\ time = 0

Pass ==
  /\ time' \in Nat
  /\ Filled(time') >= Cost
  /\ level' = Filled(time') - Cost

TurnAway ==
  /\ time' \in Nat
  /\ Filled(time') < Cost
  /\ level' = Filled(time')

Spec == Init /\ [][Pass \/ TurnAway]_<<level, time>>
=============================================================================
