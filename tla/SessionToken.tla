---------------------------- MODULE SessionToken ----------------------------
(***************************************************************************)
(* Gusto's session tokens: JWTs issued by auth-service, checked by          *)
(* api-gateway's JwtAuthGuard on every request, and put on a blocklist in   *)
(* Redis by a logout.  Tokens count in whole seconds (rounded down), Redis  *)
(* counts in milliseconds; all clocks are taken to be one.  What is not a   *)
(* token of ours, or has expired, is refused at once and changes nothing.   *)
(***************************************************************************)
EXTENDS Integers

CONSTANTS Tokens,     \* issued to one user, one per login
          Logouts,    \* POST /auth/logout requests
          Requests,   \* other requests, at the gateway
          JWT_EXPIRES_IN_SECONDS,
          FRACTIONS,  \* instants told apart within a second
          MaxSecond   \* bound: seconds of the run

ASSUME SessionConstants ==
  /\ JWT_EXPIRES_IN_SECONDS \in Nat \ {0}
  /\ FRACTIONS \in Nat \ {0}
  /\ MaxSecond \in Nat

VARIABLES second, fraction,  \* Date.now
          exp,      \* per token: its expiry, in seconds; 0: not yet issued
          entry,    \* per blocklist key: the instant Redis forgets it at
          logout,   \* per logout: the locals of OAuthService.logout
          request   \* per request: the locals of JwtAuthGuard.canActivate

sessionVars == <<second, fraction, exp, entry, logout, request>>

Init ==
  /\ second = 0 /\ fraction = 0
  /\ exp = [t \in Tokens |-> 0]
  /\ entry = [t \in Tokens |-> [s |-> 0, f |-> 0]]
  /\ logout \in [Logouts -> [pc : {"verify"}, token : Tokens, ttlSeconds : {0}]]
  /\ request \in [Requests -> [pc : {"verify"}, token : Tokens,
                               after : {FALSE}, late : {FALSE}]]

Tick ==
  /\ IF fraction + 1 < FRACTIONS
     THEN fraction' = fraction + 1 /\ UNCHANGED second
     ELSE second < MaxSecond /\ second' = second + 1 /\ fraction' = 0
  /\ UNCHANGED <<exp, entry, logout, request>>

Issue(t) ==
  /\ exp[t] = 0
  /\ exp' = [exp EXCEPT ![t] = second + JWT_EXPIRES_IN_SECONDS]
  /\ UNCHANGED <<second, fraction, entry, logout, request>>

(* jwt.verify, on a token that is ours.                                      *)
Verifies(t) == second < exp[t]

-----------------------------------------------------------------------------
(* Mutant: one key for all tokens of the user (its sub, not its jti).        *)
blocklistSub(t) == CHOOSE one \in Tokens : TRUE
blocklistKey(t) == t

Present(k) == \/ second < entry[k].s
              \/ second = entry[k].s /\ fraction < entry[k].f

VerifyLogout(l) ==
  /\ logout[l].pc = "verify" /\ Verifies(logout[l].token)
  /\ logout' = [logout EXCEPT ![l].pc = "size"]
  /\ UNCHANGED <<second, fraction, exp, entry, request>>

(* Mutant: the time of the logout is rounded up.                             *)
SizedRoundingUp(l) ==
  exp[logout[l].token] - (IF fraction = 0 THEN second ELSE second + 1)
Sized(l) == exp[logout[l].token] - second

(* The clock is read again.  Nothing is left to be blocked if the token has  *)
(* expired since.                                                            *)
SizeEntry(l) ==
  /\ logout[l].pc = "size"
  /\ logout' = [logout EXCEPT ![l].ttlSeconds = Sized(l),
                              ![l].pc = IF Sized(l) <= 0 THEN "done" ELSE "revoke"]
  /\ UNCHANGED <<second, fraction, exp, entry, request>>

(* setex: it replaces the entry of an earlier logout with the same token.    *)
WithEntry(l) == [entry EXCEPT ![blocklistKey(logout[l].token)] =
                   [s |-> second + logout[l].ttlSeconds, f |-> fraction]]

(* Redis gets to it at any time; the client is answered.                     *)
Revoke(l) ==
  /\ logout[l].pc = "revoke"
  /\ entry' = WithEntry(l)
  /\ logout' = [logout EXCEPT ![l].pc = "done"]
  /\ UNCHANGED <<second, fraction, exp, request>>

(* Redis fails, the client gets an error; the entry may have been set.       *)
RevokeFails(l) ==
  /\ logout[l].pc = "revoke"
  /\ entry' \in {entry, WithEntry(l)}
  /\ logout' = [logout EXCEPT ![l].pc = "failed"]
  /\ UNCHANGED <<second, fraction, exp, request>>

LoggedOut(t) == \E l \in Logouts : logout[l].pc = "done" /\ logout[l].token = t

(* A request arrives and its token verifies; `after` notes whether a logout  *)
(* with this token has been answered by then.                                *)
VerifyRequest(r) ==
  /\ request[r].pc = "verify" /\ Verifies(request[r].token)
  /\ request' = [request EXCEPT ![r].pc = "check",
                                ![r].after = LoggedOut(request[r].token)]
  /\ UNCHANGED <<second, fraction, exp, entry, logout>>

(* isRevoked, whenever Redis gets to it; `late` notes whether the token has  *)
(* expired by then, which nobody looks at again.                             *)
CheckRequest(r) ==
  /\ request[r].pc = "check"
  /\ LET t == request[r].token
     IN request' = [request EXCEPT
          ![r].pc = IF Present(blocklistKey(t)) THEN "revoked" ELSE "admitted",
          ![r].late = ~Verifies(t)]
  /\ UNCHANGED <<second, fraction, exp, entry, logout>>

(* Redis fails: the guard throws, the request is answered with an error.     *)
CheckFails(r) ==
  /\ request[r].pc = "check"
  /\ request' = [request EXCEPT ![r].pc = "failed"]
  /\ UNCHANGED <<second, fraction, exp, entry, logout>>

LogoutStep(l) == VerifyLogout(l) \/ SizeEntry(l) \/ Revoke(l) \/ RevokeFails(l)
RequestStep(r) == VerifyRequest(r) \/ CheckRequest(r) \/ CheckFails(r)

Next == \/ Tick
        \/ \E t \in Tokens : Issue(t)
        \/ \E l \in Logouts : LogoutStep(l)
        \/ \E r \in Requests : RequestStep(r)

Spec == Init /\ [][Next]_sessionVars

-----------------------------------------------------------------------------
LogoutType == [pc : {"verify", "size", "revoke", "done", "failed"},
               token : Tokens, ttlSeconds : Int]
RequestType == [pc : {"verify", "check", "admitted", "revoked", "failed"},
                token : Tokens, after : BOOLEAN, late : BOOLEAN]

(* The variables have their types.                                           *)
TypeOK ==
  /\ second \in 0..MaxSecond /\ fraction \in 0..(FRACTIONS - 1)
  /\ exp \in [Tokens -> Nat]
  /\ entry \in [Tokens -> [s : Int, f : Nat]]
  /\ logout \in [Logouts -> LogoutType]
  /\ request \in [Requests -> RequestType]

(* "an entry is only ever needed until the token would have expired anyway": *)
(* a request that arrives after a logout was answered is not admitted,       *)
(* through the whole life of the token, whatever the rounding, however long  *)
(* Redis takes and however often the token is logged out.  The one thing     *)
(* left: the token was still good when the request came and has expired      *)
(* by the time the blocklist is read, when its entry may be gone.            *)
LoggedOutStaysOut ==
  \A r \in Requests :
    request[r].pc = "admitted" /\ request[r].after => request[r].late

(* A logout ends the session of its own token only: a request is refused as  *)
(* revoked only if its very token was sent to a logout.                      *)
RefusedOnlyIfLoggedOut ==
  \A r \in Requests :
    request[r].pc = "revoked" =>
      \E l \in Logouts : /\ logout[l].token = request[r].token
                         /\ logout[l].pc \in {"done", "failed"}

(* What keeps a logged-out token out: an answered logout left an entry that  *)
(* lasts until the token has expired, or it has; and one under way has not   *)
(* sized its entry too short.                                                *)
EntryLastsUntilExpiry ==
  \A l \in Logouts :
    LET t == logout[l].token
    IN /\ logout[l].pc = "revoke" => second + logout[l].ttlSeconds >= exp[t]
       /\ logout[l].pc = "done" => exp[t] <= second \/ exp[t] <= entry[t].s
=============================================================================
