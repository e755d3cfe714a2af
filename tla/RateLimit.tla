----------------------------- MODULE RateLimit -----------------------------
(***************************************************************************)
(* The per-user limit of the REST API (middleware.RateLimit over            *)
(* cache.IncrWithWindow): a counter in Redis, created by the first request  *)
(* of a window and dropped when the window ends.  Without Redis, nothing is *)
(* counted and everybody is let in.                                         *)
(***************************************************************************)
EXTENDS Naturals

CONSTANTS Caller,    \* users with a session
          PerMinute, \* the limit
          WindowTTL  \* rateLimitWindow, in ticks

ASSUME RateAssumption == PerMinute \in Nat \ {0} /\ WindowTTL \in Nat \ {0}

VARIABLES
  count,   \* ratelimit:api:{user}
  expires, \* ticks until that key expires
  redisUp, \* Redis answers
  allowed, \* requests let in during the window (history)
  refused  \* the latest answer was a 429

rateVars == <<count, expires, redisUp, allowed, refused>>

RateInit ==
  /\ count = [u \in Caller |-> 0] /\ expires = count /\ allowed = count
  /\ redisUp = TRUE /\ refused = [u \in Caller |-> FALSE]

IncrSliding(u) ==
  /\ count' = [count EXCEPT ![u] = IF @ > PerMinute THEN @ ELSE @ + 1]
  /\ expires' = [expires EXCEPT ![u] = WindowTTL]

\* IncrWithWindow, one script: only the first increment sets the expiry.  (Counted
\* up to the first value over the limit.)
IncrWithWindow(u) ==
  /\ count' = [count EXCEPT ![u] = IF @ > PerMinute THEN @ ELSE @ + 1]
  /\ expires' = [expires EXCEPT ![u] = IF count[u] = 0 THEN WindowTTL ELSE @]

OverLimit(n) == n > PerMinute

ApiRequest(u) ==
  /\ redisUp
  /\ IncrWithWindow(u)
  /\ refused' = [refused EXCEPT ![u] = OverLimit(count'[u])]
  /\ allowed' = [allowed EXCEPT ![u] = IF OverLimit(count'[u]) \/ @ > PerMinute THEN @ ELSE @ + 1]
  /\ UNCHANGED redisUp

\* The limiter fails open.
ApiRequestUncounted(u) ==
  /\ ~redisUp
  /\ refused' = [refused EXCEPT ![u] = FALSE]
  /\ UNCHANGED <<count, expires, redisUp, allowed>>

RateRedisChanges ==
  /\ redisUp' = ~redisUp
  /\ UNCHANGED <<count, expires, allowed, refused>>

MinuteTick ==
  /\ expires' = [u \in Caller |-> IF expires[u] = 0 THEN 0 ELSE expires[u] - 1]
  /\ count' = [u \in Caller |-> IF expires'[u] = 0 THEN 0 ELSE count[u]]
  /\ allowed' = [u \in Caller |-> IF expires'[u] = 0 THEN 0 ELSE allowed[u]]
  /\ UNCHANGED <<redisUp, refused>>

RateNext ==
  \/ \E u \in Caller : ApiRequest(u) \/ ApiRequestUncounted(u)
  \/ RateRedisChanges \/ MinuteTick

RateSpec == RateInit /\ [][RateNext]_rateVars

(* Time passes, whatever the users do.                                      *)
RateFair == WF_rateVars(MinuteTick)
RateFairSpec == RateSpec /\ RateFair

-----------------------------------------------------------------------------
(* Types; a counter expires, so no key without an expiry is left behind,    *)
(* and no window lets in more requests than the limit.                      *)
RateTypeOK ==
  /\ count \in [Caller -> 0..(PerMinute + 1)] /\ expires \in [Caller -> 0..WindowTTL]
  /\ \A u \in Caller : (count[u] > 0 <=> expires[u] > 0) /\ allowed[u] <= PerMinute

(* A user who is over the limit is let in again, however often they ask     *)
(* meanwhile.                                                               *)
LimitLifts == \A u \in Caller : []<>~OverLimit(count[u])

\* The limit is one per window: never exceeded in it, and over with it.
LimitIsPerWindow == []RateTypeOK /\ LimitLifts
=============================================================================
