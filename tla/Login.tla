-------------------------------- MODULE Login --------------------------------
(***************************************************************************)
(* auth-service's OAuthService and mcp-gateway's TokenProviderService, for  *)
(* one user: a PKCE login is started, Swiggy redirects the browser back     *)
(* with a code, the code is exchanged for an access token, the token is     *)
(* kept in the vault and handed to the gateway, which caches it.            *)
(*                                                                          *)
(* Swiggy's tokens are numbered in the order of their issue; the user's     *)
(* browser gets one code per session, and may deliver it more than once.    *)
(* Neither of the two calls, to Swiggy and to auth-service, has a timeout:   *)
(* an answer may be late by any time, and is used all the same.  How late it *)
(* was is kept (`late`, `lag`), as the properties depend on it; the code     *)
(* does not know it.                                                         *)
(***************************************************************************)
EXTENDS Integers, Sequences

CONSTANTS Sessions,   \* values of `state`
          Callbacks,  \* POST /auth/login/callback requests
          Fetches,    \* getToken calls of the gateway
          PENDING_SESSION_TTL, REAUTH_THRESHOLD, CACHE_TTL,
          ExpiresIn,  \* expires_in of Swiggy's tokens
          MaxTime     \* bound: length of the run

ASSUME LoginConstants ==
  /\ {PENDING_SESSION_TTL, CACHE_TTL, ExpiresIn} \subseteq Nat \ {0}
  /\ REAUTH_THRESHOLD \in Nat /\ MaxTime \in Nat \ {0}

VARIABLES now,
          pending,   \* PendingAuthSession: expiresAt per state, 0 without a row
          started,   \* states that have been given out
          redeemed,  \* those whose code Swiggy has exchanged
          tokens,    \* Swiggy's tokens: expiry, by how much the answer was late,
                     \* and when the vault stopped holding it
          user,      \* User: the token in the vault, mcpTokenExpiresAt
          callback,  \* per callback: the locals of exchangeCodeForToken
          cache,     \* the gateway's entry, when Redis forgets it, and how long
                     \* it had been under way
          fetch      \* per fetch: the locals of getToken, when the token was sent

swiggyVars == <<redeemed, tokens>>
sessionVars == <<pending, started>>
gatewayVars == <<cache, fetch>>
loginVars == <<now, user, callback, swiggyVars, sessionVars, gatewayVars>>

NoToken == [token |-> 0, until |-> 0]

Init ==
  /\ now = 1
  /\ pending = [s \in Sessions |-> 0] /\ started = {}
  /\ redeemed = {} /\ tokens = <<>>
  /\ user = NoToken
  /\ callback \in [Callbacks -> [pc : {"find"}, state : Sessions, got : {NoToken}]]
  /\ cache = [token |-> 0, until |-> 0, lag |-> 0]
  /\ fetch = [f \in Fetches |-> [pc |-> "get", token |-> 0, sent |-> 0]]

Tick == /\ now < MaxTime /\ now' = now + 1
        /\ UNCHANGED <<user, callback, swiggyVars, sessionVars, gatewayVars>>

-----------------------------------------------------------------------------
(* Sessions.                                                                 *)

Live(s) == pending[s] # 0 /\ now <= pending[s]
Swept == [s \in Sessions |-> IF Live(s) THEN pending[s] ELSE 0]

(* SessionCleanupService, hourly; a sweep that fails changes nothing.        *)
SweepExpiredSessions ==
  /\ pending' = Swept
  /\ UNCHANGED <<now, user, callback, swiggyVars, started, gatewayVars>>

(* A login is started; so it is by a refresh that finds the token in need of *)
(* renewal.                                                                  *)
StartPkceFlow(s) ==
  /\ s \notin started /\ started' = started \union {s}
  /\ pending' = [Swept EXCEPT ![s] = now + PENDING_SESSION_TTL]
  /\ UNCHANGED <<now, user, callback, swiggyVars, gatewayVars>>

(* Mutant: a token is called valid until the last moment.                    *)
StillValidToTheEnd == user.token # 0 /\ user.until > now

(* What refresh calls valid.                                                 *)
StillValid == user.token # 0 /\ user.until - now > REAUTH_THRESHOLD

Refresh(s) == ~StillValid /\ StartPkceFlow(s)

-----------------------------------------------------------------------------
(* exchangeCodeForToken.                                                     *)

At(h, pc) == callback[h].pc = pc
Goto(h, pc) == callback' = [callback EXCEPT ![h].pc = pc]
Drop(s) == pending' = [pending EXCEPT ![s] = 0]

(* Mutant: the session is consumed when it is found.                         *)
FindAndConsume(h) ==
  /\ At(h, "find") /\ Drop(callback[h].state)
  /\ Goto(h, IF Live(callback[h].state) THEN "request" ELSE "refused")
  /\ UNCHANGED <<now, user, started, swiggyVars, gatewayVars>>

(* Mutant: a session that is not found is not noticed.                       *)
FindUnchecked(h) ==
  /\ At(h, "find") /\ Goto(h, "request")
  /\ UNCHANGED <<now, user, sessionVars, swiggyVars, gatewayVars>>

(* A row that is found but has expired is deleted; an error of that is       *)
(* ignored.                                                                  *)
FindSession(h) ==
  /\ At(h, "find")
  /\ \/ Live(callback[h].state) /\ Goto(h, "request") /\ UNCHANGED pending
     \/ /\ ~Live(callback[h].state) /\ Goto(h, "refused")
        /\ Drop(callback[h].state) \/ UNCHANGED pending
  /\ UNCHANGED <<now, user, started, swiggyVars, gatewayVars>>

(* Swiggy exchanges a code once.                                             *)
Redeem(h) ==
  /\ At(h, "request")
  /\ IF callback[h].state \in redeemed
     THEN Goto(h, "refused") /\ UNCHANGED swiggyVars
     ELSE /\ redeemed' = redeemed \union {callback[h].state}
          /\ tokens' = Append(tokens, [expiry |-> now + ExpiresIn, late |-> 0,
                                       replaced |-> 0])
          /\ callback' = [callback EXCEPT ![h].pc = "answer",
                                          ![h].got.token = Len(tokens')]
  /\ UNCHANGED <<now, user, sessionVars, gatewayVars>>

(* The answer arrives, and the expiry is counted from now.                   *)
ReceiveToken(h) ==
  /\ At(h, "answer")
  /\ callback' = [callback EXCEPT ![h].pc = "upsert",
                                  ![h].got.until = now + ExpiresIn]
  /\ tokens' = [n \in DOMAIN tokens |->
                  IF n = callback[h].got.token
                  THEN [tokens[n] EXCEPT !.late = (now + ExpiresIn) - tokens[n].expiry]
                  ELSE tokens[n]]
  /\ UNCHANGED <<now, user, redeemed, sessionVars, gatewayVars>>

UpsertUser(h) ==
  /\ At(h, "upsert")
  /\ user' = callback[h].got
  /\ tokens' = [n \in DOMAIN tokens |->
                  IF n = user.token THEN [tokens[n] EXCEPT !.replaced = now]
                  ELSE tokens[n]]
  /\ Goto(h, "delete")
  /\ UNCHANGED <<now, redeemed, sessionVars, gatewayVars>>

(* An error of the delete is ignored.                                        *)
DeleteSession(h) ==
  /\ At(h, "delete")
  /\ Drop(callback[h].state) \/ UNCHANGED pending
  /\ Goto(h, "publish")
  /\ UNCHANGED <<now, user, started, swiggyVars, gatewayVars>>

(* UserAuthenticated; then the caller is given its session token.            *)
Publish(h) ==
  /\ At(h, "publish") /\ Goto(h, "answered")
  /\ UNCHANGED <<now, user, swiggyVars, sessionVars, gatewayVars>>

(* Swiggy, the database or the bus fails, or the process dies.               *)
Fail(h) ==
  /\ callback[h].pc \in {"request", "answer", "upsert", "publish"}
  /\ Goto(h, "failed")
  /\ UNCHANGED <<now, user, swiggyVars, sessionVars, gatewayVars>>

CallbackStep(h) ==
  \/ FindSession(h) \/ Redeem(h) \/ ReceiveToken(h) \/ UpsertUser(h)
  \/ DeleteSession(h) \/ Publish(h) \/ Fail(h)

-----------------------------------------------------------------------------
(* getToken.  A call is over once it has a token or an error, and another    *)
(* one begins.                                                               *)

Cached == cache.token # 0 /\ now < cache.until
FetchGoto(f, pc) == fetch' = [fetch EXCEPT ![f].pc = pc]

(* A hit hands out the cached token and changes nothing.                     *)
Miss(f) ==
  /\ fetch[f].pc = "get" /\ ~Cached
  /\ FetchGoto(f, "ask")
  /\ UNCHANGED <<now, user, callback, swiggyVars, sessionVars, cache>>

(* getDecryptedMcpToken.                                                     *)
Ask(f) ==
  /\ fetch[f].pc = "ask"
  /\ fetch' = [fetch EXCEPT ![f] =
       IF user.token # 0 /\ now <= user.until
       THEN [pc |-> "store", token |-> user.token, sent |-> now]
       ELSE [pc |-> "get", token |-> 0, sent |-> 0]]
  /\ UNCHANGED <<now, user, callback, swiggyVars, sessionVars, cache>>

(* Mutant: the entry is set without a time to live.                          *)
StoreForEver(f) ==
  /\ fetch[f].pc = "store"
  /\ cache' = [token |-> fetch[f].token, until |-> MaxTime + 1,
               lag |-> now - fetch[f].sent]
  /\ fetch' = [fetch EXCEPT ![f] = [pc |-> "get", token |-> 0, sent |-> 0]]
  /\ UNCHANGED <<now, user, callback, swiggyVars, sessionVars>>

(* setex, and the token is handed out.                                       *)
Store(f) ==
  /\ fetch[f].pc = "store"
  /\ cache' = [token |-> fetch[f].token, until |-> now + CACHE_TTL,
               lag |-> now - fetch[f].sent]
  /\ fetch' = [fetch EXCEPT ![f] = [pc |-> "get", token |-> 0, sent |-> 0]]
  /\ UNCHANGED <<now, user, callback, swiggyVars, sessionVars>>

(* auth-service or Redis fails, or the answer is lost.                       *)
FetchFails(f) ==
  /\ fetch[f].pc \in {"ask", "store"}
  /\ fetch' = [fetch EXCEPT ![f] = [pc |-> "get", token |-> 0, sent |-> 0]]
  /\ UNCHANGED <<now, user, callback, swiggyVars, sessionVars, cache>>

FetchStep(f) == Miss(f) \/ Ask(f) \/ Store(f) \/ FetchFails(f)

Next == \/ Tick \/ SweepExpiredSessions
        \/ \E s \in Sessions : StartPkceFlow(s) \/ Refresh(s)
        \/ \E h \in Callbacks : CallbackStep(h)
        \/ \E f \in Fetches : FetchStep(f)

Spec == Init /\ [][Next]_loginVars

-----------------------------------------------------------------------------
Tokens == 0..Len(tokens)

(* The variables have their types; no two callbacks have been given one      *)
(* token, and none for a state that was not given out.                       *)
TypeOK ==
  /\ now \in 1..MaxTime
  /\ pending \in [Sessions -> Nat] /\ redeemed \subseteq started
  /\ \A s \in Sessions : pending[s] # 0 => s \in started
  /\ user.token \in Tokens /\ cache.token \in Tokens
  /\ \A h \in Callbacks :
       /\ callback[h].got.token \in Tokens
       /\ \A g \in Callbacks \ {h} :
            callback[g].got.token # 0 => callback[g].got.token # callback[h].got.token
  /\ \A f \in Fetches : fetch[f].token \in Tokens

(* A login whose code Swiggy has not exchanged can be taken up again after a  *)
(* failure, by the same or another callback, until its ten minutes are over: *)
(* nothing removes the session before, although two callbacks, the sweeps of *)
(* other logins and the cron may all delete it.  Once the code is exchanged, *)
(* a failure is final.                                                       *)
SessionKeptUntilExchanged ==
  [][\A s \in Sessions :
       pending[s] # 0 /\ pending'[s] = 0 => pending[s] < now \/ s \in redeemed]_loginVars

(* "so a request doesn't race the expiry boundary": what refresh calls valid *)
(* Swiggy accepts, whatever logins overlap, although the recorded expiry is  *)
(* too late -- unless Swiggy's own answer took longer than the threshold.    *)
ValidIsValid ==
  StillValid => \/ now < tokens[user.token].expiry
                \/ tokens[user.token].late > REAUTH_THRESHOLD

(* A token that the gateway hands out left the vault less than CACHE_TTL and *)
(* the time it was under way ago, and expired less than that and the time    *)
(* Swiggy's answer took ago.                                                 *)
StaleTokenBounded ==
  Cached =>
    LET t == tokens[cache.token]
    IN /\ t.replaced = 0 \/ now < t.replaced + cache.lag + CACHE_TTL
       /\ now < t.expiry + t.late + cache.lag + CACHE_TTL

(* The vault holds the token of the newest of the logins that were answered. *)
VaultHoldsNewest ==
  \A h \in Callbacks :
    callback[h].pc = "answered" => user.token >= callback[h].got.token
=============================================================================
