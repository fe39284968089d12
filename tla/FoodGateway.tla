----------------------------- MODULE FoodGateway -----------------------------
(***************************************************************************)
(* mcp-gateway-service: the Food tool calls of one user, which the gateway  *)
(* forwards to Swiggy with retries, and the Redis cache of get_food_cart    *)
(* answers that successful cart updates are to invalidate.  The user's      *)
(* calls concern one address, and the repository reads carts by that alone: *)
(* hence one cache key.                                                     *)
(*                                                                          *)
(* Swiggy is external: it serves a call, refuses it, or answers with an     *)
(* error after having served it or not.                                     *)
(***************************************************************************)
EXTENDS Integers, FiniteSets

CONSTANTS Calls,        \* calls in progress at the same time
          Contents,     \* what a cart may hold
          Empty,        \* the empty cart
          Nothing,      \* no cache entry, no answer
          Tools,        \* the tools that are called, see ToolNames
          Faults,       \* what goes wrong, see FaultKinds
          MaxAttempts   \* 5 in the code

ToolNames == {"get_food_cart", "update_food_cart", "flush_food_cart",
              "place_food_order"}

FaultKinds == {"redis",    \* a Redis command fails, executed or not
               "token",    \* auth-service has no token, or does not answer
               "refused",  \* {success: false}, or 4xx
               "http",     \* 500, 502, 503 or 504, served or not
               "network"}  \* no answer at all within 5 seconds, served or not

ASSUME GatewayConstants ==
  /\ Empty \in Contents /\ Nothing \notin Contents
  /\ Tools \subseteq ToolNames /\ Faults \subseteq FaultKinds
  /\ MaxAttempts \in Nat \ {0}

VARIABLES cart,      \* Swiggy's cart
          cache,     \* the cached get_food_cart answer
          call,      \* per call: its await, tool, argument, attempts, answer
          recent,    \* carts since the last acknowledged update began to hold
          since,     \* per update: carts since Swiggy has served it
          overtaken, \* reads answered by Swiggy before the last invalidation
          spoiled,   \* is the cache entry the answer of such a read?
          taken      \* per call: orders Swiggy has taken from it

gatewayVars == <<cart, cache, call, recent, since, overtaken, spoiled, taken>>
swiggyVars  == <<cart, recent, since, taken>>
cacheVars   == <<cache, overtaken, spoiled>>

NoCall == [pc |-> "idle", tool |-> "none", arg |-> Nothing,
           attempt |-> 0, answer |-> Nothing]

Init == /\ cart = Empty /\ cache = Nothing /\ recent = {Empty}
        /\ call = [c \in Calls |-> NoCall]
        /\ since = [c \in Calls |-> {}] /\ taken = [c \in Calls |-> 0]
        /\ overtaken = {} /\ spoiled = FALSE

At(c, pc) == call[c].pc = pc
Goto(c, pc) == call' = [call EXCEPT ![c].pc = pc]
Failing(kind) == kind \in Faults
Updates == {"update_food_cart", "flush_food_cart"}

(* The call throws; its caller learns nothing but that.                      *)
Throw(c) == call' = [call EXCEPT ![c] = NoCall]

(* The call returns: an update that is acknowledged makes older carts stale. *)
Return(c) ==
  /\ At(c, "return")
  /\ Throw(c)
  /\ recent' = IF call[c].tool \in Updates THEN recent \intersect since[c] ELSE recent
  /\ UNCHANGED <<cart, since, taken, cacheVars>>

-----------------------------------------------------------------------------
(* callTool                                                                  *)

(* The cache is looked at first, outside of the try.                         *)
Call(c, tool, x) ==
  LET begun == [NoCall EXCEPT !.pc = "get_token", !.tool = tool, !.arg = x]
      hit == tool = "get_food_cart" /\ cache # Nothing
  IN  /\ At(c, "idle") /\ tool \in Tools
      /\ call' = [call EXCEPT ![c] =
           IF hit THEN [begun EXCEPT !.pc = "return", !.answer = cache] ELSE begun]
      /\ since' = [since EXCEPT ![c] = {}] /\ taken' = [taken EXCEPT ![c] = 0]
      /\ UNCHANGED <<cart, recent, cacheVars>>

(* getToken: from Redis, or from auth-service and then into Redis.           *)
GetToken(c) ==
  /\ At(c, "get_token")
  /\ Goto(c, "post") \/ ((Failing("token") \/ Failing("redis")) /\ Throw(c))
  /\ UNCHANGED <<swiggyVars, cacheVars>>

(* What Swiggy does when it serves the call, and the carts that are recent    *)
(* from then on.                                                             *)
Serve(c) ==
  LET tool == call[c].tool
  IN  /\ cart' \in CASE tool = "update_food_cart" -> {call[c].arg}
                     [] tool = "flush_food_cart"  -> {Empty}
                     [] tool = "place_food_order" -> {cart, Empty}
                     [] OTHER                     -> {cart}
      /\ recent' = recent \union {cart'}
      /\ since' = [d \in Calls |->
           IF d = c /\ tool \in Updates THEN {cart'}
           ELSE IF since[d] = {} THEN {} ELSE since[d] \union {cart'}]
      /\ taken' = [taken EXCEPT ![c] = IF tool = "place_food_order" THEN @ + 1 ELSE @]

ServedOrNot(c) == Serve(c) \/ UNCHANGED swiggyVars

(* Mutant: every tool is retried.                                            *)
AttemptsForAll(tool) == MaxAttempts

AttemptsFor(tool) == IF tool = "place_food_order" THEN 1 ELSE MaxAttempts

(* Mutant: a gateway error is retried without counting.                      *)
RetryForEver(c, retryable) ==
  IF retryable THEN UNCHANGED call ELSE Throw(c)

(* Mutant: one attempt too many.                                             *)
RetryOnceMore(c, retryable) ==
  IF retryable /\ call[c].attempt + 1 <= AttemptsFor(call[c].tool)
  THEN call' = [call EXCEPT ![c].attempt = @ + 1]
  ELSE Throw(c)

(* After a failed attempt: again, after a pause, or give up.                 *)
Retry(c, retryable) ==
  IF retryable /\ call[c].attempt + 1 < AttemptsFor(call[c].tool)
  THEN call' = [call EXCEPT ![c].attempt = @ + 1]
  ELSE Throw(c)

(* A successful answer still has to go through Redis, inside the same try.   *)
PostServed(c) ==
  /\ At(c, "post") /\ Serve(c) /\ UNCHANGED cacheVars
  /\ call' = [call EXCEPT
       ![c].answer = IF call[c].tool = "get_food_cart" THEN cart ELSE Nothing,
       ![c].pc = CASE call[c].tool = "get_food_cart" -> "cache_set"
                   [] call[c].tool \in Updates       -> "invalidate"
                   [] OTHER                          -> "return"]

(* {success: false} is returned, 4xx thrown; neither is retried.             *)
PostRefused(c) ==
  /\ At(c, "post") /\ Failing("refused") /\ Throw(c)
  /\ UNCHANGED <<swiggyVars, cacheVars>>

(* isRetryable: 502, 503 and 504 up to the limit, 500 once, and a request    *)
(* that got no answer not at all.                                            *)
PostFails(c) ==
  /\ At(c, "post") /\ ServedOrNot(c) /\ UNCHANGED cacheVars
  /\ \/ Failing("http") /\ Retry(c, TRUE)
     \/ Failing("http") /\ Retry(c, call[c].attempt = 0)
     \/ Failing("network") /\ Retry(c, FALSE)

Store(c) == cache' = call[c].answer /\ spoiled' = (c \in overtaken)

Drop == /\ cache' = Nothing /\ spoiled' = FALSE
        /\ overtaken' = overtaken \union {c \in Calls : At(c, "cache_set")}

(* cache.set.  A Redis error is caught like one of Swiggy's, and is not      *)
(* retryable.                                                                *)
CacheSet(c) ==
  /\ At(c, "cache_set")
  /\ \/ Store(c) /\ Goto(c, "return")
     \/ Failing("redis") /\ Throw(c) /\ (Store(c) \/ UNCHANGED <<cache, spoiled>>)
  /\ overtaken' = overtaken \ {c}
  /\ UNCHANGED swiggyVars

(* Mutant: the cache is left alone after a flush.                            *)
InvalidateUpdateOnly(c) ==
  /\ At(c, "invalidate")
  /\ IF call[c].tool = "update_food_cart" THEN Drop ELSE UNCHANGED cacheVars
  /\ Goto(c, "return")
  /\ UNCHANGED swiggyVars

(* invalidateCartCache: the same holds for its del.  After a flush the key   *)
(* is looked for by SCAN first, and a put between SCAN and DEL is as one     *)
(* after the DEL, if SCAN missed the key, or before it.                      *)
Invalidate(c) ==
  /\ At(c, "invalidate")
  /\ \/ Drop /\ Goto(c, "return")
     \/ Failing("redis") /\ Throw(c) /\ (Drop \/ UNCHANGED cacheVars)
  /\ UNCHANGED swiggyVars

(* The five minutes of the entry are over.                                   *)
Expire == /\ cache # Nothing /\ cache' = Nothing /\ spoiled' = FALSE
          /\ UNCHANGED <<call, overtaken, swiggyVars>>

(* One attempt.                                                              *)
Post(c) == PostServed(c) \/ PostRefused(c) \/ PostFails(c)

Step(c) == GetToken(c) \/ Post(c) \/ CacheSet(c) \/ Invalidate(c) \/ Return(c)

Next == \/ \E c \in Calls : \/ \E tool \in Tools, x \in Contents : Call(c, tool, x)
                            \/ Step(c)
        \/ Expire

Spec == Init /\ [][Next]_gatewayVars

(* A request to Swiggy has a timeout of 5 seconds, and the pause after it an *)
(* end.  Neither the request for a token nor Redis has one, so nothing is    *)
(* assumed of them.                                                          *)
FairSpec == Spec /\ \A c \in Calls : WF_gatewayVars(Post(c))

-----------------------------------------------------------------------------
(* The variables have their types; no call makes more attempts than its tool *)
(* is allowed.                                                               *)
TypeOK ==
  /\ cart \in Contents /\ cache \in Contents \union {Nothing}
  /\ call \in [Calls -> [pc : {"idle", "get_token", "post", "cache_set",
                               "invalidate", "return"},
                         tool : ToolNames \union {"none"},
                         arg : Contents \union {Nothing},
                         attempt : 0..MaxAttempts - 1,
                         answer : Contents \union {Nothing}]]
  /\ recent \subseteq Contents /\ since \in [Calls -> SUBSET Contents]
  /\ overtaken \subseteq {c \in Calls : At(c, "cache_set")} /\ spoiled \in BOOLEAN
  /\ taken \in [Calls -> Nat]

(* "place_food_order" is not idempotent: one call makes Swiggy take at most  *)
(* one order, whatever is answered and however slowly.                       *)
PlacedOncePerCall == \A c \in Calls : taken[c] <= 1

(* "callers never read a stale cart": what the cache holds was Swiggy's cart *)
(* at some time since the last acknowledged update -- whatever fails in      *)
(* Redis or at Swiggy -- unless the entry is the answer of a read that an    *)
(* update overtook on its way to the cache.                                  *)
OnlyOvertakenReadsStale == spoiled \/ cache \in recent \union {Nothing}

(* The promise itself, which an overtaken read breaks.                       *)
NeverStale == cache \in recent \union {Nothing}

(* The attempts of a call come to an end, whatever Swiggy answers: it goes   *)
(* on to Redis or to its answer, or throws.                                  *)
RetriesEnd == \A c \in Calls : At(c, "post") ~> ~At(c, "post")
=============================================================================
