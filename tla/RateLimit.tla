------------------------------- MODULE RateLimit -------------------------------
(***************************************************************************)
(* The rate limiter of auth/auth_middleware.py, as operators: a token       *)
(* bucket for each client key, full when the key is first seen, and         *)
(* refilled by the clock only when a request of that key arrives.           *)
(*                                                                          *)
(* The requests of one client are given by the seconds they arrive at, in   *)
(* order.  A bucket's level is counted in sixtieths of a token, so that a   *)
(* second adds requests_per_minute of them.                                 *)
(***************************************************************************)
EXTENDS Integers, Sequences

CONSTANTS
  PerMinute,  \* requests_per_minute
  Burst       \* burst

ASSUME RateLimitAssumption == PerMinute \in Nat /\ Burst \in Nat \ {0}

Token == 60
Capacity == Burst * Token

Refilled(level, seconds) ==
  LET more == level + seconds * PerMinute
  IN IF more > Capacity THEN Capacity ELSE more

\* The level after the first n requests; one that is refused costs nothing, but
\* moves last_refill too.
LevelAfter(times) ==
  LET after[n \in 0..Len(times)] ==
        IF n = 0 THEN Capacity
        ELSE LET level == Refilled(after[n - 1], IF n = 1 THEN 0 ELSE times[n] - times[n - 1])
             IN IF level >= Token THEN level - Token ELSE level
  IN after

\* RateLimiter.allow(): the requests that do not get a 429.
Allowed(times) ==
  LET after == LevelAfter(times)
  IN {n \in DOMAIN times :
        n = 1 \/ Refilled(after[n - 1], times[n] - times[n - 1]) >= Token}
================================================================================
