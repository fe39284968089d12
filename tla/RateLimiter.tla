----------------------------- MODULE RateLimiter -----------------------------
(***************************************************************************)
(* The rate limiter in front of mcp-gateway-service: per user and kind of   *)
(* tool a sorted set of request timestamps in Redis, shared by the replicas *)
(* of the gateway.  A request reads the clock, and then sends one pipeline  *)
(* of four commands, which Redis executes in order but not as a             *)
(* transaction: other requests, time, and the end of the key's life come    *)
(* between them, and each of them may fail.                                 *)
(*                                                                          *)
(* Assumed: the replicas and Redis read one clock, whose ticks are coarser  *)
(* than milliseconds.                                                       *)
(***************************************************************************)
EXTENDS Integers, FiniteSets

CONSTANTS Requests,     \* the requests of the user, in no order
          Window,       \* WINDOW_SECONDS
          Limit,        \* RATE_LIMIT_READ or RATE_LIMIT_WRITE
          RedisFails,   \* may a command of a pipeline fail?
          MaxTime       \* bound on the clock

ASSUME LimiterConstants ==
  /\ IsFiniteSet(Requests) /\ Window \in Nat \ {0} /\ Limit \in Nat \ {0}
  /\ RedisFails \in BOOLEAN /\ MaxTime \in Nat

VARIABLES now,   \* the clock
          zset,  \* the sorted set: the requests whose entries it holds
          ttl,   \* when its key expires, Never if it does not
          req    \* per request: its next command, its stamp, what came of it

limiterVars == <<now, zset, ttl, req>>

Never == -1

(* at: its stamp.  count: what zcard answered.  History: trimmed -- its      *)
(* zremrangebyscore was executed; added, counted -- when zadd and zcard      *)
(* were; kept -- its entry was in the set when its expire was.               *)
Unsent == [pc |-> "unsent", at |-> Never, count |-> 0, trimmed |-> FALSE,
           added |-> Never, counted |-> Never, kept |-> FALSE]

LimiterInit == now = 0 /\ zset = {} /\ ttl = Never /\ req = [r \in Requests |-> Unsent]

Tick == now < MaxTime /\ now' = now + 1 /\ UNCHANGED <<zset, ttl, req>>

(* Date.now()                                                                *)
Arrive(r) ==
  /\ req[r].pc = "unsent"
  /\ req' = [req EXCEPT ![r].pc = "trim", ![r].at = now]
  /\ UNCHANGED <<now, zset, ttl>>

(* Mutant: entries are kept for half a window.                               *)
RemoveEarly(r) == zset' = {e \in zset : req[e].at > req[r].at - (Window \div 2)}

Remove(r) == zset' = {e \in zset : req[e].at > req[r].at - Window}

(* zremrangebyscore; without entries there is no key.                        *)
Trim(r) ==
  /\ req[r].pc = "trim"
  /\ \/ Remove(r) /\ req' = [req EXCEPT ![r].pc = "add", ![r].trimmed = TRUE]
     \/ RedisFails /\ UNCHANGED zset /\ req' = [req EXCEPT ![r].pc = "add"]
  /\ ttl' = IF zset' = {} THEN Never ELSE ttl
  /\ UNCHANGED now

(* zadd: also for a request that is going to be rejected.                    *)
Add(r) ==
  /\ req[r].pc = "add"
  /\ \/ /\ zset' = zset \union {r}
        /\ req' = [req EXCEPT ![r].pc = "count", ![r].added = now]
     \/ RedisFails /\ UNCHANGED zset /\ req' = [req EXCEPT ![r].pc = "count"]
  /\ UNCHANGED <<now, ttl>>

(* zcard; a count that is not answered is taken for 0.                       *)
Count(r) ==
  /\ req[r].pc = "count"
  /\ \/ req' = [req EXCEPT ![r].pc = "expire", ![r].counted = now,
                           ![r].count = Cardinality(zset)]
     \/ RedisFails /\ req' = [req EXCEPT ![r].pc = "expire"]
  /\ UNCHANGED <<now, zset, ttl>>

(* Mutant: the request counts itself as one too many.                        *)
WithinLimitStrict(r) == req[r].count < Limit

WithinLimit(r) == req[r].count <= Limit

(* expire, then the answer: next(), or 429.                                  *)
Prolong(r) ==
  LET answer == IF WithinLimit(r) THEN "accepted" ELSE "rejected"
  IN  /\ req[r].pc = "expire"
      /\ \/ /\ ttl' = IF zset = {} THEN Never ELSE now + Window
            /\ req' = [req EXCEPT ![r].pc = answer, ![r].kept = (r \in zset)]
         \/ RedisFails /\ UNCHANGED ttl /\ req' = [req EXCEPT ![r].pc = answer]
      /\ UNCHANGED <<now, zset>>

(* The key's life is over.                                                   *)
ExpireKey == /\ ttl # Never /\ now >= ttl
             /\ zset' = {} /\ ttl' = Never /\ UNCHANGED <<now, req>>

LimiterNext == \/ Tick \/ ExpireKey
               \/ \E r \in Requests : Arrive(r) \/ Trim(r) \/ Add(r) \/ Count(r) \/ Prolong(r)

LimiterSpec == LimiterInit /\ [][LimiterNext]_limiterVars

-----------------------------------------------------------------------------
(* The accepted requests stamped in the window that ends at t, and counted   *)
(* by then, all of whose answers Redis gave: not those waved through because *)
(* zcard failed, nor those whose entry was lost with the key, or never       *)
(* written, before their own expire extended its life.                       *)
Vouched(t) ==
  {r \in Requests : /\ req[r].pc = "accepted" /\ req[r].kept
                    /\ req[r].counted \in 0..t /\ req[r].at > t - Window}

(* "enforces the limit over any trailing 60s span instead of                 *)
(* calendar-aligned windows": however requests interleave, no window,        *)
(* wherever it ends, holds more vouched requests than the limit.             *)
LimitOverAnySpan == \A t \in 0..MaxTime : Cardinality(Vouched(t)) <= Limit

(* The others whose entries came after the window before r began, in time    *)
(* for its count.                                                            *)
OthersAround(r) ==
  {o \in Requests \ {r} : /\ req[o].added # Never
                          /\ req[r].at - Window < req[o].added
                          /\ req[o].added <= req[r].counted}

(* A request is turned away only if the user sent enough others in the       *)
(* window before it or while it was on its way -- rejected ones count, too,  *)
(* but after a quiet window, as Retry-After asks for, the next request is    *)
(* served -- or if Redis failed to remove the old ones.                      *)
RejectedOnlyWhenBusy ==
  \A r \in Requests : req[r].pc = "rejected" /\ req[r].trimmed =>
    Cardinality(OthersAround(r)) >= Limit
=============================================================================
