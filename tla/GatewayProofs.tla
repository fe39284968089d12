---------------------------- MODULE GatewayProofs ----------------------------
(***************************************************************************)
(* Theorems about mcp-gateway-service: about FoodGateway, for any number of *)
(* calls in progress, any carts, any faults and any number of attempts, and *)
(* about RateLimiter, for any limit, window and load.                       *)
(***************************************************************************)
EXTENDS FoodGateway, RateLimiter, FiniteSetTheorems, TLAPS

(* What a call record may be.                                                *)
CallType == [pc : {"idle", "get_token", "post", "cache_set", "invalidate", "return"},
             tool : ToolNames \union {"none"},
             arg : Contents \union {Nothing},
             attempt : 0..MaxAttempts - 1,
             answer : Contents \union {Nothing}]

(* A call that is on its way has an argument and a tool; only a read has an  *)
(* answer for the cache.                                                     *)
Begun == \A c \in Calls :
           /\ ~At(c, "idle") => call[c].arg \in Contents /\ call[c].tool \in ToolNames
           /\ At(c, "cache_set") => call[c].tool = "get_food_cart"

(* What may still be posted has not made Swiggy take an order.               *)
NotYetPlaced ==
  \A c \in Calls : taken[c] <= 1 /\ (At(c, "get_token") \/ At(c, "post") => taken[c] = 0)

(* Swiggy's cart is recent; for an update it has served, it is one of those  *)
(* since.                                                                    *)
CartIsRecent ==
  /\ cart \in recent
  /\ \A d \in Calls :
       /\ since[d] # {} => cart \in since[d]
       /\ (At(d, "invalidate") \/ At(d, "return")) /\ call[d].tool \in Updates
            => since[d] # {}

(* A cart that a reader may be given: recent, and so it stays when an update *)
(* that is past its invalidation returns.                                    *)
Fresh(x) ==
  /\ x \in recent
  /\ \A d \in Calls : At(d, "return") /\ call[d].tool \in Updates => x \in since[d]

(* The cache holds such a cart, and so does a read on its way there, unless  *)
(* an update has overtaken the read.                                         *)
CacheIsFresh ==
  /\ spoiled \/ cache = Nothing \/ Fresh(cache)
  /\ \A c \in Calls : At(c, "cache_set") /\ c \notin overtaken => Fresh(call[c].answer)

GatewayInv == TypeOK /\ Begun /\ NotYetPlaced /\ CartIsRecent /\ CacheIsFresh

(* At the start.                                                             *)
LEMMA GatewayStarts == Init => GatewayInv
<1> SUFFICES ASSUME Init PROVE GatewayInv OBVIOUS
<1>1. \A c \in Calls : At(c, "idle") BY DEF Init, NoCall, At
<1>2. TypeOK
  <2>1. NoCall \in CallType BY GatewayConstants DEF NoCall, CallType
  <2>2. call \in [Calls -> CallType] BY <2>1 DEF Init
  <2>3. QED BY <2>2, GatewayConstants DEF Init, TypeOK, CallType
<1>3. Begun BY <1>1 DEF Begun, At
<1>4. NotYetPlaced BY DEF Init, NotYetPlaced
<1>5. CartIsRecent BY <1>1 DEF Init, CartIsRecent, At
<1>6. CacheIsFresh BY <1>1 DEF Init, CacheIsFresh, At
<1>7. QED BY <1>2, <1>3, <1>4, <1>5, <1>6 DEF GatewayInv

-----------------------------------------------------------------------------
(* What the steps do to the record of their call.                            *)
LEMMA ThrowIs ==
  ASSUME TypeOK, NEW c \in Calls, Throw(c)
  PROVE  /\ call' \in [Calls -> CallType] /\ call'[c] = NoCall
         /\ \A d \in Calls : d # c => call'[d] = call[d]
BY GatewayConstants DEF TypeOK, Throw, NoCall, CallType

(* Moving on leaves the rest of the record.                                  *)
LEMMA GotoIs ==
  ASSUME TypeOK, NEW c \in Calls,
         NEW pc \in {"post", "return"}, Goto(c, pc)
  PROVE  /\ call' \in [Calls -> CallType]
         /\ call'[c].pc = pc /\ call'[c].tool = call[c].tool
         /\ call'[c].arg = call[c].arg /\ call'[c].answer = call[c].answer
         /\ \A d \in Calls : d # c => call'[d] = call[d]
<1>1. call[c] \in CallType BY DEF TypeOK, CallType
<1>2. PICK x : x = [call[c] EXCEPT !.pc = pc] OBVIOUS
<1>3. /\ x \in CallType /\ x.pc = pc /\ x.tool = call[c].tool
      /\ x.arg = call[c].arg /\ x.answer = call[c].answer
  BY <1>1, <1>2 DEF CallType
<1>4. call' = [call EXCEPT ![c] = x] BY <1>1, <1>2 DEF TypeOK, Goto
<1>5. QED BY <1>3, <1>4 DEF TypeOK, CallType

(* A new attempt is only made within the tool's number of them: never for    *)
(* place_food_order.                                                         *)
LEMMA RetryIs ==
  ASSUME TypeOK, NEW c \in Calls, NEW retryable, Retry(c, retryable)
  PROVE  \/ Throw(c)
         \/ /\ call' \in [Calls -> CallType] /\ call[c].tool # "place_food_order"
            /\ call'[c].pc = call[c].pc /\ call'[c].tool = call[c].tool
            /\ call'[c].arg = call[c].arg /\ call'[c].answer = call[c].answer
            /\ \A d \in Calls : d # c => call'[d] = call[d]
<1> SUFFICES ASSUME ~Throw(c)
             PROVE  /\ call' \in [Calls -> CallType] /\ call[c].tool # "place_food_order"
                    /\ call'[c].pc = call[c].pc /\ call'[c].tool = call[c].tool
                    /\ call'[c].arg = call[c].arg /\ call'[c].answer = call[c].answer
                    /\ \A d \in Calls : d # c => call'[d] = call[d]
  OBVIOUS
<1>1. call[c] \in CallType BY DEF TypeOK, CallType
<1>2. /\ call' = [call EXCEPT ![c].attempt = @ + 1]
      /\ call[c].attempt + 1 < AttemptsFor(call[c].tool)
  BY DEF Retry
<1>3. call[c].tool # "place_food_order" /\ call[c].attempt + 1 \in 0..MaxAttempts - 1
  BY <1>1, <1>2, GatewayConstants DEF AttemptsFor, CallType
<1>4. PICK x : x = [call[c] EXCEPT !.attempt = @ + 1] OBVIOUS
<1>5. /\ x \in CallType /\ x.pc = call[c].pc /\ x.tool = call[c].tool
      /\ x.arg = call[c].arg /\ x.answer = call[c].answer
  BY <1>1, <1>3, <1>4 DEF CallType
<1>6. call' = [call EXCEPT ![c] = x] BY <1>1, <1>2, <1>4 DEF TypeOK
<1>7. QED BY <1>3, <1>5, <1>6 DEF TypeOK, CallType

(* An answered call goes on to Redis, or returns.                            *)
LEMMA AnsweredIs ==
  ASSUME TypeOK, NEW c \in Calls, PostServed(c)
  PROVE  /\ call' \in [Calls -> CallType]
         /\ call'[c].tool = call[c].tool /\ call'[c].arg = call[c].arg
         /\ call'[c].pc = CASE call[c].tool = "get_food_cart" -> "cache_set"
                            [] call[c].tool \in Updates       -> "invalidate"
                            [] OTHER                          -> "return"
         /\ call[c].tool = "get_food_cart" => call'[c].answer = cart
         /\ \A d \in Calls : d # c => call'[d] = call[d]
<1>1. call[c] \in CallType BY DEF TypeOK, CallType
<1> DEFINE a == IF call[c].tool = "get_food_cart" THEN cart ELSE Nothing
           p == CASE call[c].tool = "get_food_cart" -> "cache_set"
                  [] call[c].tool \in Updates       -> "invalidate"
                  [] OTHER                          -> "return"
<1>2. a \in Contents \union {Nothing} BY DEF TypeOK
<1>3. p \in {"cache_set", "invalidate", "return"} BY DEF Updates
<1>4. call' = [call EXCEPT ![c].answer = a, ![c].pc = p] BY DEF PostServed
<1> HIDE DEF a, p
<1>5. PICK x : x = [call[c] EXCEPT !.answer = a, !.pc = p] OBVIOUS
<1>6. call' = [call EXCEPT ![c] = x] BY <1>1, <1>4, <1>5 DEF TypeOK
<1>7. x \in CallType /\ x.tool = call[c].tool /\ x.arg = call[c].arg /\ x.pc = p /\ x.answer = a
  BY <1>1, <1>2, <1>3, <1>5 DEF CallType
<1>8. QED BY <1>6, <1>7 DEF TypeOK, CallType, a, p

-----------------------------------------------------------------------------
(* A call that leaves Swiggy, the cache and the user's carts alone, and ends *)
(* or waits for Swiggy.                                                      *)
LEMMA QuietKeeps ==
  ASSUME GatewayInv, NEW c \in Calls, UNCHANGED <<swiggyVars, cacheVars>>,
         ~At(c, "cache_set"), call' \in [Calls -> CallType],
         \A d \in Calls : d # c => call'[d] = call[d],
         \/ call'[c].pc = "idle"
         \/ /\ call'[c].pc = "post" /\ (At(c, "get_token") \/ At(c, "post"))
            /\ call'[c].arg = call[c].arg /\ call'[c].tool = call[c].tool
  PROVE  GatewayInv'
<1> USE DEF GatewayInv, At, swiggyVars, cacheVars
<1>1. TypeOK' BY DEF TypeOK, CallType
<1>2. Begun' BY DEF Begun
<1>3. NotYetPlaced' BY DEF NotYetPlaced
<1>4. CartIsRecent' BY DEF CartIsRecent
<1>5. CacheIsFresh' BY DEF CacheIsFresh, Fresh
<1>6. QED BY <1>1, <1>2, <1>3, <1>4, <1>5

(* Swiggy serves a call, whether its answer arrives or not.                  *)
LEMMA ServeKeeps ==
  ASSUME GatewayInv, NEW c \in Calls, At(c, "post"), Serve(c), UNCHANGED cacheVars,
         call' \in [Calls -> CallType], \A d \in Calls : d # c => call'[d] = call[d],
         call'[c].pc # "idle" => call'[c].arg = call[c].arg /\ call'[c].tool = call[c].tool,
         call'[c].pc # "get_token",
         call'[c].pc = "post" => call[c].tool # "place_food_order",
         call'[c].pc = "cache_set" => call'[c].answer = cart /\ call[c].tool = "get_food_cart",
         call'[c].pc = "return" => call[c].tool \notin Updates
  PROVE  GatewayInv'
<1> USE DEF GatewayInv, At, cacheVars
<1>1. /\ call[c].arg \in Contents /\ call[c].tool \in ToolNames
      /\ taken[c] = 0 /\ cart \in Contents /\ c \notin overtaken
  BY DEF Begun, NotYetPlaced, TypeOK
<1>2. /\ cart' \in Contents /\ recent' = recent \union {cart'}
      /\ call[c].tool = "get_food_cart" => cart' = cart
  <2>1. cart' \in {call[c].arg, Empty, cart} BY DEF Serve
  <2>2. QED BY <1>1, <2>1, GatewayConstants DEF Serve
<1>3. /\ since' \in [Calls -> SUBSET Contents]
      /\ \A d \in Calls : since'[d] # {} => cart' \in since'[d]
      /\ \A d \in Calls : d # c => since[d] \subseteq since'[d]
      /\ call[c].tool \in Updates => since'[c] # {}
  BY <1>2 DEF Serve, TypeOK
<1>4. /\ taken' \in [Calls -> Nat] /\ \A d \in Calls : taken'[d] <= 1
      /\ \A d \in Calls : d # c => taken'[d] = taken[d]
      /\ call[c].tool # "place_food_order" => taken'[c] = 0
  BY <1>1 DEF Serve, TypeOK, NotYetPlaced
<1>5. TypeOK' BY <1>1, <1>2, <1>3, <1>4 DEF TypeOK, CallType
<1>6. Begun' BY <1>1 DEF Begun
<1>7. NotYetPlaced' BY <1>4 DEF NotYetPlaced
<1>8. CartIsRecent' BY <1>2, <1>3 DEF CartIsRecent
<1>9. CacheIsFresh'
  <2>1. \A x : Fresh(x) => Fresh(x)' BY <1>2, <1>3 DEF Fresh
  <2>2. CASE call'[c].pc = "cache_set"
    <3>1. call'[c].answer = cart /\ cart' = cart /\ \A d \in Calls : cart \in since'[d] \/ since'[d] = {}
      BY <1>2, <1>3, <2>2
    <3>2. Fresh(cart)' BY <1>2, <1>3, <2>2, <3>1 DEF Fresh, CartIsRecent
    <3>3. QED BY <2>1, <3>1, <3>2 DEF CacheIsFresh, Fresh
  <2>3. QED BY <2>1, <2>2 DEF CacheIsFresh, Fresh
<1>10. QED BY <1>5, <1>6, <1>7, <1>8, <1>9

(* The answer of a read reaches the cache, or does not.                      *)
LEMMA CacheSetKeeps ==
  ASSUME GatewayInv, NEW c \in Calls, CacheSet(c) PROVE GatewayInv'
<1> USE DEF GatewayInv, At
<1>1. /\ At(c, "cache_set") /\ UNCHANGED <<cart, recent, since, taken>>
      /\ overtaken' = overtaken \ {c}
  BY DEF CacheSet, swiggyVars
<1>2. /\ call' \in [Calls -> CallType]
      /\ \A d \in Calls : d # c => call'[d] = call[d]
      /\ \/ call'[c] = NoCall
         \/ /\ call'[c].pc = "return" /\ call'[c].tool = call[c].tool
            /\ call'[c].arg = call[c].arg
  BY ThrowIs, GotoIs DEF CacheSet
<1>3. /\ \/ UNCHANGED <<cache, spoiled>>
         \/ cache' = call[c].answer /\ (spoiled' <=> c \in overtaken)
      /\ spoiled' \in BOOLEAN
  <2>1. Store(c) \/ UNCHANGED <<cache, spoiled>> BY DEF CacheSet
  <2>2. CASE Store(c)
    <3>1. spoiled' = (c \in overtaken) BY <2>2 DEF Store
    <3>2. CASE c \in overtaken
      <4>1. spoiled' = TRUE BY <3>1, <3>2, Zenon
      <4>2. QED BY <2>2, <3>2, <4>1 DEF Store
    <3>3. CASE c \notin overtaken
      <4>1. (c \in overtaken) = FALSE BY <3>3
      <4>2. spoiled' = FALSE BY <3>1, <4>1
      <4>3. QED BY <2>2, <3>3, <4>2 DEF Store
    <3>4. QED BY <3>2, <3>3
  <2>3. CASE UNCHANGED <<cache, spoiled>> BY <2>3 DEF TypeOK
  <2>4. QED BY <2>1, <2>2, <2>3
<1>4. TypeOK' BY <1>1, <1>2, <1>3 DEF TypeOK, CallType
<1>5. Begun' BY <1>1, <1>2 DEF Begun, NoCall
<1>6. NotYetPlaced' BY <1>1, <1>2 DEF NotYetPlaced, NoCall
<1>7. call[c].tool \notin Updates
  BY <1>1 DEF Begun, Updates
<1>8. CartIsRecent' BY <1>1, <1>2, <1>7 DEF CartIsRecent, NoCall
<1>9. CacheIsFresh' BY <1>1, <1>2, <1>3, <1>7 DEF CacheIsFresh, Fresh, NoCall
<1>10. QED BY <1>4, <1>5, <1>6, <1>8, <1>9

(* An update drops the entry, or fails to; if it goes on, every read on its  *)
(* way to the cache has been overtaken.                                      *)
LEMMA InvalidateKeeps ==
  ASSUME GatewayInv, NEW c \in Calls, Invalidate(c) PROVE GatewayInv'
<1> USE DEF GatewayInv, At
<1>1. At(c, "invalidate") /\ UNCHANGED <<cart, recent, since, taken>>
  BY DEF Invalidate, swiggyVars
<1>2. /\ call' \in [Calls -> CallType]
      /\ \A d \in Calls : d # c => call'[d] = call[d]
      /\ \/ call'[c] = NoCall
         \/ /\ call'[c].pc = "return" /\ call'[c].tool = call[c].tool
            /\ call'[c].arg = call[c].arg /\ Drop
  BY ThrowIs, GotoIs DEF Invalidate
<1>3. Drop \/ UNCHANGED <<cache, overtaken, spoiled>> BY DEF Invalidate, cacheVars
<1>4. TypeOK' BY <1>1, <1>2, <1>3 DEF TypeOK, CallType, Drop
<1>5. Begun' BY <1>1, <1>2 DEF Begun, NoCall
<1>6. NotYetPlaced' BY <1>1, <1>2 DEF NotYetPlaced, NoCall
<1>7. CartIsRecent' BY <1>1, <1>2 DEF CartIsRecent, NoCall
<1>8. CacheIsFresh'
  <2>1. CASE Drop BY <1>1, <1>2, <2>1 DEF CacheIsFresh, Drop, NoCall
  <2>2. CASE UNCHANGED <<cache, overtaken, spoiled>> /\ call'[c] = NoCall
    BY <1>1, <1>2, <2>2 DEF CacheIsFresh, Fresh, NoCall
  <2>3. QED BY <1>2, <1>3, <2>1, <2>2
<1>9. QED BY <1>4, <1>5, <1>6, <1>7, <1>8

(* When an update returns, older carts stop being recent; what the cache     *)
(* holds is not among them.                                                  *)
LEMMA ReturnKeeps ==
  ASSUME GatewayInv, NEW c \in Calls, Return(c) PROVE GatewayInv'
<1> USE DEF GatewayInv, At
<1>1. /\ At(c, "return") /\ UNCHANGED <<cart, since, taken, cache, overtaken, spoiled>>
      /\ recent' = IF call[c].tool \in Updates THEN recent \intersect since[c] ELSE recent
  BY DEF Return, cacheVars
<1>2. /\ call' \in [Calls -> CallType] /\ call'[c] = NoCall
      /\ \A d \in Calls : d # c => call'[d] = call[d]
  BY ThrowIs DEF Return
<1>3. TypeOK' BY <1>1, <1>2 DEF TypeOK, CallType
<1>4. Begun' BY <1>1, <1>2 DEF Begun, NoCall
<1>5. NotYetPlaced' BY <1>1, <1>2 DEF NotYetPlaced, NoCall
<1>6. CartIsRecent' BY <1>1, <1>2 DEF CartIsRecent, NoCall
<1>7. CacheIsFresh' BY <1>1, <1>2 DEF CacheIsFresh, Fresh, NoCall
<1>8. QED BY <1>3, <1>4, <1>5, <1>6, <1>7

(* A new call posts nothing yet; a read that hits the cache returns.         *)
LEMMA CallKeeps ==
  ASSUME GatewayInv, NEW c \in Calls, NEW tool \in Tools, NEW x \in Contents,
         Call(c, tool, x)
  PROVE  GatewayInv'
<1> USE DEF GatewayInv, At
<1>1. /\ At(c, "idle") /\ UNCHANGED <<cart, recent, cache, overtaken, spoiled>>
      /\ since' = [since EXCEPT ![c] = {}] /\ taken' = [taken EXCEPT ![c] = 0]
  BY DEF Call, cacheVars
<1>2. PICK n : n = NoCall OBVIOUS
<1>a. n \in CallType BY <1>2, GatewayConstants DEF NoCall, CallType
<1>b. PICK b : b = [n EXCEPT !.pc = "get_token", !.tool = tool, !.arg = x] OBVIOUS
<1>c. /\ b \in CallType /\ b.arg = x /\ b.tool = tool /\ b.pc = "get_token"
  BY <1>a, <1>b, GatewayConstants DEF CallType
<1>d. PICK y : /\ call' = [call EXCEPT ![c] = y]
               /\ y = IF tool = "get_food_cart" /\ cache # Nothing
                      THEN [b EXCEPT !.pc = "return", !.answer = cache] ELSE b
  BY <1>2, <1>b DEF Call
<1>3. /\ y \in CallType /\ y.arg = x /\ y.tool = tool
      /\ y.pc = "get_token" \/ (y.pc = "return" /\ tool \notin Updates)
  <2>1. cache \in Contents \union {Nothing} BY DEF TypeOK
  <2>2. CASE tool = "get_food_cart" /\ cache # Nothing
    <3>1. y = [b EXCEPT !.pc = "return", !.answer = cache] BY <1>d, <2>2
    <3>2. tool \notin Updates BY <2>2 DEF Updates
    <3>3. QED BY <1>c, <2>1, <3>1, <3>2 DEF CallType
  <2>3. CASE ~(tool = "get_food_cart" /\ cache # Nothing)
    <3>1. y = b BY <1>d, <2>3
    <3>2. QED BY <1>c, <3>1
  <2>4. QED BY <2>2, <2>3
<1>4. /\ call' \in [Calls -> CallType] /\ call'[c] = y
      /\ \A d \in Calls : d # c => call'[d] = call[d]
  BY <1>d, <1>3 DEF TypeOK, CallType
<1>5. TypeOK' BY <1>1, <1>3, <1>4 DEF TypeOK, CallType
<1>6. Begun' BY <1>1, <1>3, <1>4, GatewayConstants DEF Begun
<1>7. NotYetPlaced' BY <1>1, <1>4 DEF NotYetPlaced, TypeOK
<1>8. CartIsRecent' BY <1>1, <1>3, <1>4 DEF CartIsRecent, TypeOK
<1>9. CacheIsFresh' BY <1>1, <1>3, <1>4 DEF CacheIsFresh, Fresh, TypeOK
<1>10. QED BY <1>5, <1>6, <1>7, <1>8, <1>9

(* One step of the gateway keeps the invariant.                              *)
LEMMA GatewayKeeps == ASSUME GatewayInv, [Next]_gatewayVars PROVE GatewayInv'
<1>0. TypeOK BY DEF GatewayInv
<1>1. ASSUME NEW c \in Calls, GetToken(c) PROVE GatewayInv'
  <2>1. At(c, "get_token") /\ ~At(c, "cache_set") BY <1>1 DEF GetToken, At
  <2>2. QED BY <1>0, <1>1, <2>1, ThrowIs, GotoIs, QuietKeeps DEF GetToken, NoCall
<1>2. ASSUME NEW c \in Calls, PostServed(c) PROVE GatewayInv'
  <2>1. At(c, "post") /\ Serve(c) /\ UNCHANGED cacheVars BY <1>2 DEF PostServed
  <2>2. call'[c].pc # "post" /\ call'[c].pc # "idle" /\ call'[c].pc # "get_token"
    BY <1>0, <1>2, AnsweredIs
  <2>3. QED BY <1>0, <1>2, <2>1, <2>2, AnsweredIs, ServeKeeps
<1>3. ASSUME NEW c \in Calls, PostRefused(c) PROVE GatewayInv'
  <2>1. ~At(c, "cache_set") BY <1>3 DEF PostRefused, At
  <2>2. QED BY <1>0, <1>3, <2>1, ThrowIs, QuietKeeps DEF PostRefused, NoCall
<1>4. ASSUME NEW c \in Calls, PostFails(c) PROVE GatewayInv'
  <2>1. /\ At(c, "post") /\ ~At(c, "cache_set") /\ UNCHANGED cacheVars
        /\ Serve(c) \/ UNCHANGED swiggyVars
    BY <1>4 DEF PostFails, ServedOrNot, At
  <2>2. PICK retryable : Retry(c, retryable) BY <1>4 DEF PostFails
  <2>3. /\ call' \in [Calls -> CallType] /\ \A d \in Calls : d # c => call'[d] = call[d]
        /\ \/ call'[c].pc = "idle"
           \/ /\ call'[c].pc = "post" /\ call[c].tool # "place_food_order"
              /\ call'[c].arg = call[c].arg /\ call'[c].tool = call[c].tool
    BY <1>0, <2>1, <2>2, RetryIs, ThrowIs DEF NoCall, At
  <2>4. CASE Serve(c) BY <2>1, <2>3, <2>4, ServeKeeps
  <2>5. CASE UNCHANGED swiggyVars BY <2>1, <2>3, <2>5, QuietKeeps
  <2>6. QED BY <2>1, <2>4, <2>5
<1>5. CASE Expire BY <1>5
  DEF Expire, swiggyVars, GatewayInv, TypeOK, Begun, NotYetPlaced, CartIsRecent, CacheIsFresh,
      Fresh, At
<1>6. CASE UNCHANGED gatewayVars BY <1>6
  DEF gatewayVars, GatewayInv, TypeOK, Begun, NotYetPlaced, CartIsRecent, CacheIsFresh,
      Fresh, At
<1>7. QED
  BY <1>1, <1>2, <1>3, <1>4, <1>5, <1>6, CacheSetKeeps, InvalidateKeeps, ReturnKeeps, CallKeeps
  DEF Next, Step, Post

(* So it holds at all times.                                                 *)
LEMMA GatewayAlways == Spec => []GatewayInv
BY GatewayStarts, GatewayKeeps, PTL DEF Spec

(* Type correctness of the gateway: in particular no call makes more         *)
(* attempts than the limit, however its requests fail.                       *)
THEOREM GatewayTypeCorrect == Spec => []TypeOK
<1>1. GatewayInv => TypeOK BY DEF GatewayInv
<1>2. QED BY <1>1, GatewayAlways, PTL

(* place_food_order is posted once: whatever is answered, Swiggy takes at    *)
(* most one order from one call.                                             *)
THEOREM NeverPlacedAgain == Spec => []PlacedOncePerCall
<1>1. GatewayInv => PlacedOncePerCall BY DEF GatewayInv, NotYetPlaced, PlacedOncePerCall
<1>2. QED BY <1>1, GatewayAlways, PTL

(* Callers read a stale cart only when an update overtook the read that put  *)
(* it into the cache: no fault of Redis or Swiggy, and no number of calls,   *)
(* is another way to it.                                                     *)
THEOREM StaleOnlyWhenOvertaken == Spec => []OnlyOvertakenReadsStale
<1>1. GatewayInv => OnlyOvertakenReadsStale
  BY DEF GatewayInv, CacheIsFresh, Fresh, OnlyOvertakenReadsStale
<1>2. QED BY <1>1, GatewayAlways, PTL

-----------------------------------------------------------------------------
(* The rate limiter.                                                         *)
Stages == {"unsent", "trim", "add", "count", "expire", "accepted", "rejected"}
Answered(r) == req[r].pc \in {"accepted", "rejected"}
Times == Nat \union {Never}

LimiterTypes ==
  /\ now \in Nat /\ ttl \in Times /\ zset \subseteq Requests
  /\ req \in [Requests -> [pc : Stages, at : Times, count : Nat, trimmed : BOOLEAN,
                           added : Times, counted : Times, kept : BOOLEAN]]

(* A request goes through its stages in order, its times do not decrease,    *)
(* and its answer follows from its count.                                    *)
InOrder(r) ==
  /\ req[r].pc # "unsent" => req[r].at \in 0..now
  /\ req[r].pc \in {"unsent", "trim"} => ~req[r].trimmed
  /\ req[r].pc \in {"unsent", "trim", "add"} => req[r].added = Never
  /\ req[r].pc \in {"unsent", "trim", "add", "count"} => req[r].counted = Never
  /\ req[r].added # Never => req[r].added \in req[r].at..now
  /\ r \in zset => req[r].added # Never
  /\ req[r].counted # Never => req[r].counted \in 0..now
  /\ req[r].counted = Never => req[r].count = 0
  /\ req[r].kept => Answered(r)
  /\ req[r].pc = "accepted" => req[r].count <= Limit
  /\ req[r].pc = "rejected" => req[r].count > Limit

(* An entry that its own expire found is neither trimmed nor lost with the   *)
(* key while its window lasts.                                               *)
Stays(r) ==
  req[r].kept => /\ now - Window < req[r].at => r \in zset
                 /\ ttl # Never => req[r].at <= ttl - Window

(* Between its trim and its count a request meets no old entries.            *)
MeetsRecent(r) ==
  req[r].trimmed /\ req[r].pc \in {"add", "count"} =>
    \A e \in zset : req[r].at - Window < req[e].added

(* Those that are, or can still become, vouched for the window ending at t.  *)
Candidates(t) ==
  {r \in Requests : /\ req[r].counted \in 0..t /\ req[r].count <= Limit
                    /\ req[r].at > t - Window
                    /\ req[r].kept \/ (req[r].pc = "expire" /\ r \in zset)}

CandidatesBounded == \A t \in Nat : Cardinality(Candidates(t)) <= Limit

(* A count above the limit has its reasons.                                  *)
Justified(r) ==
  req[r].counted # Never /\ req[r].count > Limit /\ req[r].trimmed =>
    Cardinality(OthersAround(r)) >= Limit

LimiterInv ==
  /\ LimiterTypes /\ CandidatesBounded
  /\ \A r \in Requests : InOrder(r) /\ Stays(r) /\ MeetsRecent(r) /\ Justified(r)

(* At the start.                                                             *)
LEMMA LimiterStarts == LimiterInit => LimiterInv
<1> SUFFICES ASSUME LimiterInit PROVE LimiterInv OBVIOUS
<1>1. \A r \in Requests : req[r] = Unsent BY DEF LimiterInit
<1>2. LimiterTypes BY DEF LimiterInit, LimiterTypes, Unsent, Stages, Times
<1>3. CandidatesBounded
  <2>1. \A t \in Nat : Candidates(t) = {} BY <1>1 DEF Candidates, Unsent, Never
  <2>2. QED BY <2>1, FS_EmptySet, LimiterConstants DEF CandidatesBounded
<1>4. \A r \in Requests : InOrder(r) /\ Stays(r) /\ MeetsRecent(r) /\ Justified(r)
  BY <1>1 DEF InOrder, Stays, MeetsRecent, Justified, Answered, Unsent, LimiterInit, Never
<1>5. QED BY <1>2, <1>3, <1>4 DEF LimiterInv

(* Sets of requests are finite.                                              *)
LEMMA FewRequests ==
  ASSUME NEW S \in SUBSET Requests, NEW T \in SUBSET S
  PROVE  /\ IsFiniteSet(S) /\ Cardinality(S) \in Nat /\ Cardinality(T) \in Nat
         /\ Cardinality(T) <= Cardinality(S)
<1>1. IsFiniteSet(S) BY LimiterConstants, FS_Subset
<1>2. QED BY <1>1, FS_Subset, FS_CardinalityType

(* A step that makes no new candidates.                                      *)
LEMMA NoNewCandidates ==
  ASSUME LimiterInv, \A t \in Nat : Candidates(t)' \subseteq Candidates(t)
  PROVE  CandidatesBounded'
<1> SUFFICES ASSUME NEW t \in Nat PROVE Cardinality(Candidates(t)') <= Limit
  BY DEF CandidatesBounded
<1>1. PICK S : S = Candidates(t) OBVIOUS
<1>2. PICK T : T = Candidates(t)' OBVIOUS
<1>3. Cardinality(S) <= Limit BY <1>1 DEF LimiterInv, CandidatesBounded
<1>4. S \in SUBSET Requests /\ T \in SUBSET S BY <1>1, <1>2 DEF Candidates
<1>5. Cardinality(S) \in Nat /\ Cardinality(T) \in Nat /\ Cardinality(T) <= Cardinality(S)
  BY <1>4, FewRequests
<1>6. QED BY <1>2, <1>3, <1>5, LimiterConstants

(* The reasons of a count do not go away.                                    *)
LEMMA ReasonsRemain ==
  ASSUME LimiterInv, NEW r \in Requests,
         req[r].counted # Never,
         UNCHANGED <<req[r].at, req[r].count, req[r].counted, req[r].trimmed>>,
         \A o \in Requests : req[o].added # Never => req'[o].added = req[o].added
  PROVE  Justified(r)'
<1> SUFFICES ASSUME req[r].count > Limit, req[r].trimmed
             PROVE  Cardinality(OthersAround(r)') >= Limit
  BY DEF Justified
<1>1. PICK S : S = OthersAround(r)' OBVIOUS
<1>2. PICK T : T = OthersAround(r) OBVIOUS
<1>3. S \in SUBSET Requests /\ T \in SUBSET S BY <1>1, <1>2 DEF OthersAround
<1>4. Cardinality(T) >= Limit BY <1>2 DEF LimiterInv, Justified
<1>5. Cardinality(S) \in Nat /\ Cardinality(T) \in Nat /\ Cardinality(T) <= Cardinality(S)
  BY <1>3, FewRequests
<1>6. QED BY <1>1, <1>4, <1>5, LimiterConstants

(* Nothing happens to the requests.                                          *)
LEMMA ClockKeeps == ASSUME LimiterInv, Tick PROVE LimiterInv'
<1>1. now' = now + 1 /\ UNCHANGED <<zset, ttl, req>> BY DEF Tick
<1>2. LimiterTypes' BY <1>1 DEF LimiterInv, LimiterTypes
<1>3. CandidatesBounded'
  <2>1. \A t \in Nat : Candidates(t)' \subseteq Candidates(t) BY <1>1 DEF Candidates
  <2>2. QED BY <2>1, NoNewCandidates
<1>4. ASSUME NEW r \in Requests
      PROVE  (InOrder(r) /\ Stays(r) /\ MeetsRecent(r) /\ Justified(r))'
  <2>1. InOrder(r) /\ Stays(r) /\ MeetsRecent(r) /\ Justified(r) /\ LimiterTypes
    BY DEF LimiterInv
  <2>2. req[r].at \in Times /\ now \in Nat /\ ttl \in Times
        /\ req[r].added \in Times /\ req[r].counted \in Times
    BY <2>1 DEF LimiterTypes
  <2>3. InOrder(r)' BY <1>1, <2>1, <2>2 DEF InOrder, Answered, Times, Never
  <2>4. Stays(r)' BY <1>1, <2>1, <2>2, LimiterConstants DEF Stays, Times, Never
  <2>5. MeetsRecent(r)' BY <1>1, <2>1 DEF MeetsRecent
  <2>6. Justified(r)' BY <1>1, <2>1 DEF Justified, OthersAround
  <2>7. QED BY <2>3, <2>4, <2>5, <2>6
<1>5. QED BY <1>2, <1>3, <1>4 DEF LimiterInv

(* The key expires when every entry that was kept is older than a window.    *)
LEMMA ExpiryKeeps == ASSUME LimiterInv, ExpireKey PROVE LimiterInv'
<1>1. ttl # Never /\ now >= ttl /\ zset' = {} /\ ttl' = Never /\ UNCHANGED <<now, req>>
  BY DEF ExpireKey
<1>2. LimiterTypes' BY <1>1 DEF LimiterInv, LimiterTypes, Times
<1>3. CandidatesBounded'
  <2>1. \A t \in Nat : Candidates(t)' \subseteq Candidates(t) BY <1>1 DEF Candidates
  <2>2. QED BY <2>1, NoNewCandidates
<1>4. ASSUME NEW r \in Requests
      PROVE  (InOrder(r) /\ Stays(r) /\ MeetsRecent(r) /\ Justified(r))'
  <2>1. InOrder(r) /\ Stays(r) /\ MeetsRecent(r) /\ Justified(r) /\ LimiterTypes
    BY DEF LimiterInv
  <2>2. req[r].at \in Times /\ now \in Nat /\ ttl \in Nat BY <1>1, <2>1 DEF LimiterTypes, Times
  <2>3. InOrder(r)' BY <1>1, <2>1 DEF InOrder, Answered
  <2>4. Stays(r)' BY <1>1, <2>1, <2>2, LimiterConstants DEF Stays, Times, Never
  <2>5. MeetsRecent(r)' BY <1>1 DEF MeetsRecent
  <2>6. Justified(r)' BY <1>1, <2>1 DEF Justified, OthersAround
  <2>7. QED BY <2>3, <2>4, <2>5, <2>6
<1>5. QED BY <1>2, <1>3, <1>4 DEF LimiterInv

(* A request comes.                                                          *)
LEMMA ArriveKeeps ==
  ASSUME LimiterInv, NEW r \in Requests, Arrive(r) PROVE LimiterInv'
<1>1. LimiterTypes /\ \A o \in Requests : InOrder(o) /\ Stays(o) /\ MeetsRecent(o)
  BY DEF LimiterInv
<1>2. req[r].pc = "unsent" /\ UNCHANGED <<now, zset, ttl>> BY DEF Arrive
<1>3. PICK q : q = [req[r] EXCEPT !.pc = "trim", !.at = now] OBVIOUS
<1>4. /\ q.pc = "trim" /\ q.at = now /\ q.count = req[r].count /\ q.added = req[r].added
      /\ q.trimmed = req[r].trimmed /\ q.counted = req[r].counted /\ q.kept = req[r].kept
      /\ q \in [pc : Stages, at : Times, count : Nat, trimmed : BOOLEAN,
                added : Times, counted : Times, kept : BOOLEAN]
  BY <1>1, <1>3 DEF LimiterTypes, Stages, Times
<1>5. req' = [req EXCEPT ![r] = q] BY <1>1, <1>3 DEF Arrive, LimiterTypes
<1>6. /\ req'[r] = q /\ \A o \in Requests : o # r => req'[o] = req[o]
      /\ LimiterTypes'
  BY <1>1, <1>2, <1>4, <1>5 DEF LimiterTypes
<1>7. req[r].counted = Never /\ req[r].added = Never /\ ~req[r].kept /\ r \notin zset
  BY <1>1, <1>2 DEF InOrder, Answered
<1>8. CandidatesBounded'
  <2>1. \A t \in Nat : Candidates(t)' \subseteq Candidates(t)
    BY <1>2, <1>4, <1>6, <1>7 DEF Candidates, Never
  <2>2. QED BY <2>1, NoNewCandidates
<1>9. ASSUME NEW o \in Requests
      PROVE  (InOrder(o) /\ Stays(o) /\ MeetsRecent(o) /\ Justified(o))'
  <2>1. InOrder(o)'
    <3>1. now \in 0..now BY <1>1 DEF LimiterTypes
    <3>2. QED BY <1>1, <1>2, <1>4, <1>6, <1>7, <3>1 DEF InOrder, Answered
  <2>2. Stays(o)' BY <1>1, <1>2, <1>4, <1>6, <1>7 DEF Stays
  <2>3. MeetsRecent(o)'
    <3>1. zset \subseteq Requests BY <1>1 DEF LimiterTypes
    <3>2. \A e \in zset : req'[e].added = req[e].added BY <1>6, <1>7, <3>1
    <3>3. QED BY <1>1, <1>2, <1>4, <1>6, <3>2 DEF MeetsRecent
  <2>4. Justified(o)'
    <3>1. CASE o = r BY <1>4, <1>6, <1>7, <3>1 DEF Justified
    <3>2. CASE o # r /\ req[o].counted # Never BY <1>4, <1>6, <3>2, ReasonsRemain
    <3>3. CASE o # r /\ req[o].counted = Never BY <1>6, <3>3 DEF Justified
    <3>4. QED BY <3>1, <3>2, <3>3
  <2>5. QED BY <2>1, <2>2, <2>3, <2>4
<1>10. QED BY <1>6, <1>8, <1>9 DEF LimiterInv

(* Trimming takes only what is older than the window of a request that has   *)
(* come by now, and leaves its own request nothing older to count.           *)
LEMMA TrimKeeps ==
  ASSUME LimiterInv, NEW r \in Requests, Trim(r) PROVE LimiterInv'
<1>1. LimiterTypes /\ \A o \in Requests : InOrder(o) /\ Stays(o) /\ MeetsRecent(o)
  BY DEF LimiterInv
<1>2. /\ req[r].pc = "trim" /\ now' = now /\ ttl' = IF zset' = {} THEN Never ELSE ttl
      /\ zset' \subseteq zset
  BY DEF Trim, Remove
<1>3. PICK b \in BOOLEAN : /\ b => zset' = {e \in zset : req[e].at > req[r].at - Window}
                           /\ ~b => zset' = zset
                           /\ req' = [req EXCEPT ![r].pc = "add",
                                                 ![r].trimmed = b \/ req[r].trimmed]
  <2>1. CASE /\ Remove(r)
             /\ req' = [req EXCEPT ![r].pc = "add", ![r].trimmed = TRUE]
    <3>1. req' = [req EXCEPT ![r].pc = "add", ![r].trimmed = TRUE \/ req[r].trimmed]
      BY <2>1
    <3>2. QED BY <2>1, <3>1 DEF Remove
  <2>2. CASE UNCHANGED zset /\ req' = [req EXCEPT ![r].pc = "add"]
    <3>1. (FALSE \/ req[r].trimmed) = req[r].trimmed BY <1>1 DEF LimiterTypes
    <3>2. [req EXCEPT ![r].pc = "add"]
            = [req EXCEPT ![r].pc = "add", ![r].trimmed = FALSE \/ req[r].trimmed]
      BY <1>1, <3>1 DEF LimiterTypes
    <3>3. QED BY <2>2, <3>2
  <2>3. QED BY <2>1, <2>2 DEF Trim
<1>4. PICK q : q = [req[r] EXCEPT !.pc = "add", !.trimmed = b \/ req[r].trimmed] OBVIOUS
<1>5. /\ q.pc = "add" /\ q.at = req[r].at /\ q.count = req[r].count
      /\ q.added = req[r].added /\ q.trimmed = (b \/ req[r].trimmed)
      /\ q.counted = req[r].counted /\ q.kept = req[r].kept
      /\ q \in [pc : Stages, at : Times, count : Nat, trimmed : BOOLEAN,
                added : Times, counted : Times, kept : BOOLEAN]
  <2>1. (b \/ req[r].trimmed) \in BOOLEAN OBVIOUS
  <2>2. QED BY <1>1, <1>4, <2>1 DEF LimiterTypes, Stages, Times
<1>6. req' = [req EXCEPT ![r] = q] BY <1>1, <1>3, <1>4 DEF LimiterTypes
<1>7. /\ req'[r] = q /\ \A o \in Requests : o # r => req'[o] = req[o]
      /\ LimiterTypes'
  BY <1>1, <1>2, <1>5, <1>6 DEF LimiterTypes, Times
<1>8. req[r].counted = Never /\ req[r].added = Never /\ ~req[r].kept /\ r \notin zset
      /\ req[r].at \in 0..now /\ now \in Nat /\ Window \in Nat
  BY <1>1, <1>2, LimiterConstants DEF InOrder, Answered, LimiterTypes
<1>9. CandidatesBounded'
  <2>1. \A t \in Nat : Candidates(t)' \subseteq Candidates(t)
    BY <1>2, <1>5, <1>7, <1>8 DEF Candidates, Never
  <2>2. QED BY <2>1, NoNewCandidates
<1>10. ASSUME NEW o \in Requests
       PROVE  (InOrder(o) /\ Stays(o) /\ MeetsRecent(o) /\ Justified(o))'
  <2>1. InOrder(o)' BY <1>1, <1>2, <1>5, <1>7, <1>8 DEF InOrder, Answered
  <2>2. Stays(o)'
    <3>1. CASE o = r BY <1>5, <1>7, <1>8, <3>1 DEF Stays
    <3>2. CASE o # r
      <4>1. req'[o] = req[o] /\ Stays(o) /\ req[o].at \in Times
        BY <1>1, <1>7, <3>2 DEF LimiterTypes
      <4>2. o \in zset /\ now - Window < req[o].at => o \in zset'
        BY <1>3, <1>8, <4>1 DEF Times, Never
      <4>3. QED BY <1>2, <4>1, <4>2 DEF Stays
    <3>3. QED BY <3>1, <3>2
  <2>3. MeetsRecent(o)'
    <3>1. zset \subseteq Requests BY <1>1 DEF LimiterTypes
    <3>2. \A e \in zset : /\ req'[e].added = req[e].added /\ req[e].at \in 0..now
                          /\ req[e].added \in req[e].at..now
      <4>1. ASSUME NEW e \in zset
            PROVE  /\ req'[e].added = req[e].added /\ req[e].at \in 0..now
                   /\ req[e].added \in req[e].at..now
        <5>1. e \in Requests /\ e # r /\ InOrder(e) BY <1>1, <1>8, <3>1
        <5>2. req[e].added # Never /\ req[e].pc # "unsent" BY <5>1 DEF InOrder
        <5>3. QED BY <1>7, <5>1, <5>2 DEF InOrder
      <4>2. QED BY <4>1
    <3>3. CASE o = r
      <4>1. ~req[r].trimmed => (q.trimmed <=> b) BY <1>5
      <4>2. ~req[r].trimmed BY <1>1, <1>2 DEF InOrder
      <4>3. b => \A e \in zset' : req[r].at - Window < req[e].added
        BY <1>2, <1>3, <1>8, <3>2
      <4>4. QED BY <1>2, <1>5, <1>7, <3>2, <3>3, <4>1, <4>2, <4>3 DEF MeetsRecent
    <3>4. CASE o # r BY <1>1, <1>2, <1>7, <3>2, <3>4 DEF MeetsRecent
    <3>5. QED BY <3>3, <3>4
  <2>4. Justified(o)'
    <3>1. CASE o = r BY <1>5, <1>7, <1>8, <3>1 DEF Justified
    <3>2. CASE o # r /\ req[o].counted # Never BY <1>5, <1>7, <3>2, ReasonsRemain
    <3>3. CASE o # r /\ req[o].counted = Never BY <1>7, <3>3 DEF Justified
    <3>4. QED BY <3>1, <3>2, <3>3
  <2>5. QED BY <2>1, <2>2, <2>3, <2>4
<1>11. QED BY <1>7, <1>9, <1>10 DEF LimiterInv

(* An entry is as young as the request that is just adding it.               *)
LEMMA AddKeeps ==
  ASSUME LimiterInv, NEW r \in Requests, Add(r) PROVE LimiterInv'
<1>1. LimiterTypes /\ \A o \in Requests : InOrder(o) /\ Stays(o) /\ MeetsRecent(o)
  BY DEF LimiterInv
<1>2. req[r].pc = "add" /\ UNCHANGED <<now, ttl>> BY DEF Add
<1>3. PICK n \in {now, Never} : /\ n = now => zset' = zset \union {r}
                                /\ n # now => zset' = zset
                                /\ req' = [req EXCEPT ![r].pc = "count", ![r].added = n]
  <2>1. CASE /\ zset' = zset \union {r}
             /\ req' = [req EXCEPT ![r].pc = "count", ![r].added = now]
    BY <2>1
  <2>2. CASE UNCHANGED zset /\ req' = [req EXCEPT ![r].pc = "count"]
    <3>1. req[r].added = Never BY <1>1, <1>2 DEF InOrder
    <3>2. [req EXCEPT ![r].pc = "count"] = [req EXCEPT ![r].pc = "count", ![r].added = Never]
      BY <1>1, <3>1 DEF LimiterTypes
    <3>3. Never # now BY <1>1 DEF LimiterTypes, Never
    <3>4. QED BY <2>2, <3>2, <3>3
  <2>3. QED BY <2>1, <2>2 DEF Add
<1>4. PICK q : q = [req[r] EXCEPT !.pc = "count", !.added = n] OBVIOUS
<1>5. /\ q.pc = "count" /\ q.at = req[r].at /\ q.count = req[r].count
      /\ q.added = n /\ q.trimmed = req[r].trimmed
      /\ q.counted = req[r].counted /\ q.kept = req[r].kept
      /\ q \in [pc : Stages, at : Times, count : Nat, trimmed : BOOLEAN,
                added : Times, counted : Times, kept : BOOLEAN]
  <2>1. n \in Times BY <1>1 DEF LimiterTypes, Times
  <2>2. QED BY <1>1, <1>4, <2>1 DEF LimiterTypes, Stages
<1>6. req' = [req EXCEPT ![r] = q] BY <1>1, <1>3, <1>4 DEF LimiterTypes
<1>7. /\ req'[r] = q /\ \A o \in Requests : o # r => req'[o] = req[o]
      /\ LimiterTypes' /\ zset' \subseteq zset \union {r} /\ zset \subseteq zset'
  BY <1>1, <1>2, <1>3, <1>5, <1>6 DEF LimiterTypes
<1>8. /\ req[r].counted = Never /\ req[r].added = Never /\ ~req[r].kept
      /\ req[r].at \in 0..now /\ now \in Nat /\ Window \in Nat \ {0} /\ r \notin zset
  BY <1>1, <1>2, LimiterConstants DEF InOrder, Answered, LimiterTypes
<1>9. CandidatesBounded'
  <2>1. \A t \in Nat : Candidates(t)' \subseteq Candidates(t)
    BY <1>2, <1>5, <1>7, <1>8 DEF Candidates, Never
  <2>2. QED BY <2>1, NoNewCandidates
<1>10. ASSUME NEW o \in Requests
       PROVE  (InOrder(o) /\ Stays(o) /\ MeetsRecent(o) /\ Justified(o))'
  <2>1. InOrder(o)'
    <3>1. CASE o = r
      <4>1. r \in zset' => n # Never BY <1>3, <1>8 DEF Never
      <4>2. n # Never => n \in req[r].at..now BY <1>8
      <4>3. QED BY <1>1, <1>2, <1>5, <1>7, <1>8, <3>1, <4>1, <4>2 DEF InOrder, Answered
    <3>2. CASE o # r BY <1>1, <1>2, <1>7, <3>2 DEF InOrder, Answered
    <3>3. QED BY <3>1, <3>2
  <2>2. Stays(o)' BY <1>1, <1>2, <1>5, <1>7, <1>8 DEF Stays
  <2>3. MeetsRecent(o)'
    <3> SUFFICES ASSUME req'[o].trimmed, req'[o].pc \in {"add", "count"}, NEW e \in zset'
                 PROVE  req'[o].at - Window < req'[e].added
      BY <1>2 DEF MeetsRecent
    <3>1. req[o].trimmed /\ req[o].pc \in {"add", "count"} /\ req'[o].at = req[o].at
      BY <1>2, <1>5, <1>7
    <3>2. CASE e \in zset
      <4>1. e # r /\ e \in Requests BY <1>1, <1>8, <3>2 DEF LimiterTypes
      <4>2. QED BY <1>1, <1>7, <3>1, <3>2, <4>1 DEF MeetsRecent
    <3>3. CASE e = r /\ n = now
      <4>1. req[o].at \in 0..now BY <1>1, <3>1 DEF InOrder
      <4>2. QED BY <1>5, <1>7, <1>8, <3>1, <3>3, <4>1
    <3>4. QED BY <1>3, <3>2, <3>3
  <2>4. Justified(o)'
    <3>1. CASE o = r BY <1>5, <1>7, <1>8, <3>1 DEF Justified
    <3>2. CASE o # r /\ req[o].counted # Never BY <1>5, <1>7, <1>8, <3>2, ReasonsRemain
    <3>3. CASE o # r /\ req[o].counted = Never BY <1>7, <3>3 DEF Justified
    <3>4. QED BY <3>1, <3>2, <3>3
  <2>5. QED BY <2>1, <2>2, <2>3, <2>4
<1>11. QED BY <1>7, <1>9, <1>10 DEF LimiterInv

(* The count is what decides.  All candidates of the window that ends with   *)
(* it or later are in the set it counts; and what it counts beyond itself    *)
(* was added in the window.                                                  *)
LEMMA CountKeeps ==
  ASSUME LimiterInv, NEW r \in Requests, Count(r) PROVE LimiterInv'
<1>1. LimiterTypes /\ \A o \in Requests : InOrder(o) /\ Stays(o) /\ MeetsRecent(o)
  BY DEF LimiterInv
<1>2. req[r].pc = "count" /\ UNCHANGED <<now, zset, ttl>> BY DEF Count
<1>3. Cardinality(zset) \in Nat /\ IsFiniteSet(zset) BY <1>1, FewRequests DEF LimiterTypes
<1>4. PICK n \in {now, Never}, k \in Nat :
        /\ n = now => k = Cardinality(zset)
        /\ n # now => k = 0
        /\ req' = [req EXCEPT ![r].pc = "expire", ![r].counted = n, ![r].count = k]
  <2>1. CASE req' = [req EXCEPT ![r].pc = "expire", ![r].counted = now,
                                ![r].count = Cardinality(zset)]
    BY <1>3, <2>1
  <2>2. CASE req' = [req EXCEPT ![r].pc = "expire"]
    <3>1. req[r].counted = Never /\ req[r].count = 0 BY <1>1, <1>2 DEF InOrder
    <3>2. [req EXCEPT ![r].pc = "expire"]
            = [req EXCEPT ![r].pc = "expire", ![r].counted = Never, ![r].count = 0]
      BY <1>1, <3>1 DEF LimiterTypes
    <3>3. Never # now BY <1>1 DEF LimiterTypes, Never
    <3>4. QED BY <2>2, <3>2, <3>3
  <2>3. QED BY <2>1, <2>2 DEF Count
<1>5. PICK q : q = [req[r] EXCEPT !.pc = "expire", !.counted = n, !.count = k] OBVIOUS
<1>6. /\ q.pc = "expire" /\ q.at = req[r].at /\ q.count = k
      /\ q.added = req[r].added /\ q.trimmed = req[r].trimmed
      /\ q.counted = n /\ q.kept = req[r].kept
      /\ q \in [pc : Stages, at : Times, count : Nat, trimmed : BOOLEAN,
                added : Times, counted : Times, kept : BOOLEAN]
  <2>1. n \in Times BY <1>1 DEF LimiterTypes, Times
  <2>2. QED BY <1>1, <1>5, <2>1 DEF LimiterTypes, Stages
<1>7. req' = [req EXCEPT ![r] = q] BY <1>1, <1>4, <1>5 DEF LimiterTypes
<1>8. /\ req'[r] = q /\ \A o \in Requests : o # r => req'[o] = req[o]
      /\ LimiterTypes'
  BY <1>1, <1>2, <1>6, <1>7 DEF LimiterTypes
<1>9. /\ req[r].counted = Never /\ ~req[r].kept /\ now \in Nat
      /\ Window \in Nat /\ Limit \in Nat /\ now # Never
  BY <1>1, <1>2, LimiterConstants DEF InOrder, Answered, LimiterTypes, Never
<1>10. \A o \in Requests : req'[o].added = req[o].added /\ req'[o].at = req[o].at
  BY <1>6, <1>8
<1>11. CandidatesBounded'
  <2> SUFFICES ASSUME NEW t \in Nat PROVE Cardinality(Candidates(t)') <= Limit
    BY DEF CandidatesBounded
  <2>1. PICK S : S = Candidates(t) OBVIOUS
  <2>2. PICK T : T = Candidates(t)' OBVIOUS
  <2>3. Cardinality(S) <= Limit BY <2>1 DEF LimiterInv, CandidatesBounded
  <2>4. S \in SUBSET Requests /\ T \in SUBSET Requests BY <2>1, <2>2 DEF Candidates
  <2>5. CASE r \notin T
    <3>1. T \in SUBSET S BY <1>2, <1>8, <2>1, <2>2, <2>5 DEF Candidates
    <3>2. Cardinality(S) \in Nat /\ Cardinality(T) \in Nat /\ Cardinality(T) <= Cardinality(S)
      BY <2>4, <3>1, FewRequests
    <3>3. QED BY <1>9, <2>2, <2>3, <3>2
  <2>6. CASE r \in T
    <3>1. n \in 0..t /\ k <= Limit /\ r \in zset
      BY <1>2, <1>6, <1>8, <1>9, <2>2, <2>6 DEF Candidates
    <3>2. n = now /\ k = Cardinality(zset) /\ now <= t BY <1>4, <1>9, <3>1 DEF Never
    <3>3. ASSUME NEW o \in T PROVE o \in zset
      <4>1. CASE o = r BY <3>1, <4>1
      <4>2. CASE o # r /\ req[o].pc = "expire" /\ o \in zset BY <4>2
      <4>3. CASE o # r /\ req[o].kept
        <5>1. o \in Requests /\ req[o].at > t - Window /\ req[o].at \in Times
          BY <1>1, <1>8, <1>10, <2>2, <2>4, <3>3 DEF Candidates, LimiterTypes
        <5>2. now - Window < req[o].at BY <1>9, <3>2, <5>1 DEF Times, Never
        <5>3. QED BY <1>1, <4>3, <5>1, <5>2 DEF Stays
      <4>4. QED BY <1>2, <1>8, <2>2, <2>4, <3>3, <4>1, <4>2, <4>3 DEF Candidates
    <3>4. T \in SUBSET zset /\ zset \in SUBSET Requests BY <1>1, <3>3 DEF LimiterTypes
    <3>5. Cardinality(T) \in Nat /\ Cardinality(T) <= Cardinality(zset)
      BY <3>4, FewRequests
    <3>6. QED BY <1>3, <1>9, <2>2, <3>1, <3>2, <3>5
  <2>7. QED BY <2>5, <2>6
<1>12. ASSUME NEW o \in Requests
       PROVE  (InOrder(o) /\ Stays(o) /\ MeetsRecent(o) /\ Justified(o))'
  <2>1. InOrder(o)'
    <3>1. n # Never => n \in 0..now BY <1>9
    <3>2. n = Never => k = 0 BY <1>4, <1>9
    <3>3. CASE o = r
      BY <1>1, <1>2, <1>6, <1>8, <1>9, <3>1, <3>2, <3>3 DEF InOrder, Answered
    <3>4. CASE o # r BY <1>1, <1>2, <1>8, <3>4 DEF InOrder, Answered
    <3>5. QED BY <3>3, <3>4
  <2>2. Stays(o)' BY <1>1, <1>2, <1>6, <1>8, <1>9 DEF Stays
  <2>3. MeetsRecent(o)'
    <3>1. \A e \in zset : req'[e].added = req[e].added BY <1>1, <1>10 DEF LimiterTypes
    <3>2. QED BY <1>1, <1>2, <1>6, <1>8, <3>1 DEF MeetsRecent
  <2>4. Justified(o)'
    <3>1. CASE o = r /\ n = now /\ k > Limit /\ req[r].trimmed
      <4>1. PICK S : S = OthersAround(r)' OBVIOUS
      <4>2. ASSUME NEW e \in zset \ {r} PROVE e \in S
        <5>1. e \in Requests /\ e # r /\ InOrder(e) BY <1>1, <4>2 DEF LimiterTypes
        <5>2. req[e].added # Never /\ req[e].added \in req[e].at..now
          BY <4>2, <5>1 DEF InOrder
        <5>3. req[r].at - Window < req[e].added BY <1>1, <1>2, <3>1, <4>2 DEF MeetsRecent
        <5>4. req[e].at \in Times BY <1>1, <5>1 DEF LimiterTypes
        <5>5. req[e].added <= now BY <1>9, <5>2, <5>4 DEF Times, Never
        <5>6. req'[e].added = req[e].added /\ req'[r].at = req[r].at /\ req'[r].counted = now
          BY <1>6, <1>8, <1>10, <3>1, <5>1
        <5>7. QED BY <4>1, <5>1, <5>2, <5>3, <5>5, <5>6 DEF OthersAround
      <4>3. S \in SUBSET Requests /\ zset \ {r} \in SUBSET S
        BY <4>1, <4>2 DEF OthersAround
      <4>4. Cardinality(S) \in Nat /\ Cardinality(zset \ {r}) <= Cardinality(S)
            /\ Cardinality(zset \ {r}) \in Nat
        BY <4>3, FewRequests
      <4>5. Cardinality(zset \ {r}) >= Cardinality(zset) - 1
        <5>1. CASE r \in zset
          <6>1. Cardinality(zset \ {r}) = Cardinality(zset) - 1
            BY <1>3, <5>1, FS_RemoveElement
          <6>2. QED BY <1>3, <6>1
        <5>2. CASE r \notin zset
          <6>1. zset \ {r} = zset BY <5>2
          <6>2. QED BY <1>3, <6>1
        <5>3. QED BY <5>1, <5>2
      <4>6. Cardinality(S) >= Limit BY <1>3, <1>4, <1>9, <3>1, <4>4, <4>5
      <4>7. QED BY <3>1, <4>1, <4>6 DEF Justified
    <3>2. CASE o = r /\ ~(n = now /\ k > Limit /\ req[r].trimmed)
      <4>1. n # now => n = Never OBVIOUS
      <4>2. QED BY <1>6, <1>8, <3>2, <4>1 DEF Justified
    <3>3. CASE o # r /\ req[o].counted # Never BY <1>8, <1>10, <3>3, ReasonsRemain
    <3>4. CASE o # r /\ req[o].counted = Never BY <1>8, <3>4 DEF Justified
    <3>5. QED BY <3>1, <3>2, <3>3, <3>4
  <2>5. QED BY <2>1, <2>2, <2>3, <2>4
<1>13. QED BY <1>8, <1>11, <1>12 DEF LimiterInv

(* The answer; the key's life lasts for a window from here on.               *)
LEMMA ProlongKeeps ==
  ASSUME LimiterInv, NEW r \in Requests, Prolong(r) PROVE LimiterInv'
<1>1. LimiterTypes /\ \A o \in Requests : InOrder(o) /\ Stays(o) /\ MeetsRecent(o)
  BY DEF LimiterInv
<1>2. req[r].pc = "expire" /\ UNCHANGED <<now, zset>> BY DEF Prolong
<1>3. PICK answer \in {"accepted", "rejected"} :
        answer = IF WithinLimit(r) THEN "accepted" ELSE "rejected"
  OBVIOUS
<1>4. PICK b \in BOOLEAN : /\ b => r \in zset /\ ttl' = now + Window
                           /\ ttl' \in {ttl, Never, now + Window}
                           /\ req' = [req EXCEPT ![r].pc = answer, ![r].kept = b]
  <2>1. CASE /\ ttl' = IF zset = {} THEN Never ELSE now + Window
             /\ req' = [req EXCEPT ![r].pc = answer, ![r].kept = (r \in zset)]
    <3>1. (r \in zset) \in BOOLEAN OBVIOUS
    <3>2. QED BY <2>1, <3>1
  <2>2. CASE UNCHANGED ttl /\ req' = [req EXCEPT ![r].pc = answer]
    <3>1. req[r].kept = FALSE BY <1>1, <1>2 DEF InOrder, Answered, LimiterTypes
    <3>2. [req EXCEPT ![r].pc = answer] = [req EXCEPT ![r].pc = answer, ![r].kept = FALSE]
      BY <1>1, <3>1 DEF LimiterTypes
    <3>3. QED BY <2>2, <3>2
  <2>3. QED BY <1>3, <2>1, <2>2 DEF Prolong
<1>5. PICK q : q = [req[r] EXCEPT !.pc = answer, !.kept = b] OBVIOUS
<1>6. /\ q.pc = answer /\ q.at = req[r].at /\ q.count = req[r].count
      /\ q.added = req[r].added /\ q.trimmed = req[r].trimmed
      /\ q.counted = req[r].counted /\ q.kept = b
      /\ q \in [pc : Stages, at : Times, count : Nat, trimmed : BOOLEAN,
                added : Times, counted : Times, kept : BOOLEAN]
  BY <1>1, <1>5 DEF LimiterTypes, Stages
<1>7. req' = [req EXCEPT ![r] = q] BY <1>1, <1>4, <1>5 DEF LimiterTypes
<1>8. now \in Nat /\ Window \in Nat /\ Limit \in Nat /\ ttl \in Times
  BY <1>1, LimiterConstants DEF LimiterTypes
<1>9. /\ req'[r] = q /\ \A o \in Requests : o # r => req'[o] = req[o]
      /\ LimiterTypes'
  <2>1. ttl' \in Times BY <1>4, <1>8 DEF Times
  <2>2. QED BY <1>1, <1>2, <1>6, <1>7, <2>1 DEF LimiterTypes
<1>10. \A o \in Requests : req'[o].added = req[o].added
  BY <1>6, <1>9
<1>11. CandidatesBounded'
  <2>1. \A t \in Nat : Candidates(t)' \subseteq Candidates(t)
    BY <1>2, <1>4, <1>6, <1>9 DEF Candidates
  <2>2. QED BY <2>1, NoNewCandidates
<1>12. ASSUME NEW o \in Requests
       PROVE  (InOrder(o) /\ Stays(o) /\ MeetsRecent(o) /\ Justified(o))'
  <2>1. InOrder(o)'
    <3>1. CASE o = r
      <4>1. req[r].count \in Nat /\ (answer = "accepted" <=> req[r].count <= Limit)
        BY <1>1, <1>3 DEF WithinLimit, LimiterTypes
      <4>2. answer = "rejected" => req[r].count > Limit BY <1>8, <4>1
      <4>3. QED BY <1>1, <1>2, <1>6, <1>9, <3>1, <4>1, <4>2 DEF InOrder, Answered
    <3>2. CASE o # r BY <1>1, <1>2, <1>9, <3>2 DEF InOrder, Answered
    <3>3. QED BY <3>1, <3>2
  <2>2. Stays(o)'
    <3>1. req[o].at \in Times /\ req'[o].at = req[o].at BY <1>1, <1>6, <1>9 DEF LimiterTypes
    <3>2. req[o].pc # "unsent" => req[o].at <= now BY <1>1, <1>8, <3>1 DEF InOrder
    <3>3. CASE o = r /\ b BY <1>2, <1>4, <1>8, <3>1, <3>2, <3>3 DEF Stays
    <3>4. CASE o # r /\ req[o].kept
      <4>1. req[o].pc # "unsent" BY <1>1, <3>4 DEF InOrder, Answered
      <4>2. ttl' # Never => req[o].at <= ttl' - Window
        BY <1>1, <1>4, <1>8, <3>1, <3>2, <3>4, <4>1 DEF Stays
      <4>3. QED BY <1>1, <1>2, <1>9, <3>1, <3>4, <4>2 DEF Stays
    <3>5. QED BY <1>6, <1>9, <3>3, <3>4 DEF Stays
  <2>3. MeetsRecent(o)'
    <3>1. \A e \in zset : req'[e].added = req[e].added BY <1>1, <1>10 DEF LimiterTypes
    <3>2. QED BY <1>1, <1>2, <1>6, <1>9, <3>1 DEF MeetsRecent
  <2>4. Justified(o)'
    <3>1. UNCHANGED <<req[o].at, req[o].count, req[o].counted, req[o].trimmed>>
      BY <1>6, <1>9
    <3>2. CASE req[o].counted # Never BY <1>10, <3>1, <3>2, ReasonsRemain
    <3>3. CASE req[o].counted = Never BY <3>1, <3>3 DEF Justified
    <3>4. QED BY <3>2, <3>3
  <2>5. QED BY <2>1, <2>2, <2>3, <2>4
<1>13. QED BY <1>9, <1>11, <1>12 DEF LimiterInv

(* Every step keeps the invariant.                                           *)
LEMMA LimiterAlways == LimiterSpec => []LimiterInv
<1>1. LimiterInv /\ [LimiterNext]_limiterVars => LimiterInv'
  <2> SUFFICES ASSUME LimiterInv, [LimiterNext]_limiterVars PROVE LimiterInv' OBVIOUS
  <2>1. CASE UNCHANGED limiterVars
    BY <2>1 DEF limiterVars, LimiterInv, LimiterTypes, CandidatesBounded, Candidates,
       InOrder, Answered, Stays, MeetsRecent, Justified, OthersAround
  <2>2. QED
    BY <2>1, ClockKeeps, ExpiryKeeps, ArriveKeeps, TrimKeeps, AddKeeps, CountKeeps,
       ProlongKeeps
    DEF LimiterNext
<1>2. QED BY <1>1, LimiterStarts, PTL DEF LimiterSpec

(* No window holds more vouched requests than the limit, for any number of   *)
(* overlapping requests, whatever fails, any limit and any window.           *)
THEOREM LimitHolds == LimiterSpec => []LimitOverAnySpan
<1>1. LimiterInv => LimitOverAnySpan
  <2> SUFFICES ASSUME LimiterInv, NEW t \in 0..MaxTime PROVE Cardinality(Vouched(t)) <= Limit
    BY DEF LimitOverAnySpan
  <2>1. t \in Nat BY LimiterConstants
  <2>2. Vouched(t) \subseteq Candidates(t) /\ Candidates(t) \subseteq Requests
    BY DEF LimiterInv, InOrder, Vouched, Candidates
  <2>3. Cardinality(Candidates(t)) <= Limit BY <2>1 DEF LimiterInv, CandidatesBounded
  <2>4. PICK S : S = Candidates(t) OBVIOUS
  <2>5. PICK T : T = Vouched(t) OBVIOUS
  <2>6. Cardinality(S) \in Nat /\ Cardinality(T) \in Nat /\ Cardinality(T) <= Cardinality(S)
    BY <2>2, <2>4, <2>5, FewRequests
  <2>7. QED BY <2>3, <2>4, <2>5, <2>6, LimiterConstants
<1>2. QED BY <1>1, LimiterAlways, PTL

(* Nobody is turned away, but by a trim that failed, who has not sent the    *)
(* limit around the request.                                                 *)
THEOREM OnlyBusyRejected == LimiterSpec => []RejectedOnlyWhenBusy
<1>1. LimiterInv => RejectedOnlyWhenBusy
  <2> SUFFICES ASSUME LimiterInv, NEW r \in Requests, req[r].pc = "rejected", req[r].trimmed
               PROVE  Cardinality(OthersAround(r)) >= Limit
    BY DEF RejectedOnlyWhenBusy
  <2>1. InOrder(r) /\ Justified(r) BY DEF LimiterInv
  <2>2. req[r].count > Limit BY <2>1 DEF InOrder
  <2>3. req[r].counted # Never
    <3>1. req[r].counted = Never => req[r].count = 0 BY <2>1 DEF InOrder
    <3>2. QED BY <2>2, <3>1, LimiterConstants
  <2>4. QED BY <2>1, <2>2, <2>3 DEF Justified
<1>2. QED BY <1>1, LimiterAlways, PTL
=============================================================================
