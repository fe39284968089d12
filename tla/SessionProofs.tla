---------------------------- MODULE SessionProofs ----------------------------
(* A logged-out token stays out, for every lifetime of tokens, every number  *)
(* of logouts and requests and however finely the second is divided.         *)
EXTENDS SessionToken, TLAPS

(* A token that is being logged out was issued, and a request that noted a   *)
(* logout when it came was right.                                            *)
NotesAreTrue ==
  /\ \A l \in Logouts : logout[l].pc # "verify" => exp[logout[l].token] # 0
  /\ \A r \in Requests : request[r].after => LoggedOut(request[r].token)

IInv == TypeOK /\ EntryLastsUntilExpiry /\ NotesAreTrue /\ LoggedOutStaysOut

USE DEF Verifies, blocklistKey, Present, Sized, LogoutType, RequestType

(* The variables have their types, for every value of the constants.         *)
LEMMA TypeInit == Init => TypeOK
<1> SUFFICES ASSUME Init PROVE TypeOK OBVIOUS
<1>1. second \in 0..MaxSecond /\ fraction \in 0..(FRACTIONS - 1)
  BY SessionConstants DEF Init
<1>2. exp \in [Tokens -> Nat] /\ entry \in [Tokens -> [s : Int, f : Nat]]
  BY DEF Init
<1>3. logout \in [Logouts -> LogoutType]
  <2>1. ASSUME NEW l \in Logouts PROVE logout[l] \in LogoutType
    BY DEF Init
  <2> QED BY <2>1 DEF Init
<1>4. request \in [Requests -> RequestType]
  <2>1. ASSUME NEW r \in Requests PROVE request[r] \in RequestType
    BY DEF Init
  <2> QED BY <2>1 DEF Init
<1> QED BY <1>1, <1>2, <1>3, <1>4 DEF TypeOK

(* Every step keeps the types.                                               *)
LEMMA TypeStep == TypeOK /\ [Next]_sessionVars => TypeOK'
<1> SUFFICES ASSUME TypeOK, [Next]_sessionVars PROVE TypeOK'
  OBVIOUS
<1> USE SessionConstants DEF TypeOK
<1>1. CASE Tick BY <1>1 DEF Tick
<1>2. ASSUME NEW t \in Tokens, Issue(t) PROVE TypeOK' BY <1>2 DEF Issue
<1>3. ASSUME NEW l \in Logouts, LogoutStep(l) PROVE TypeOK'
  <2>1. CASE VerifyLogout(l) BY <2>1 DEF VerifyLogout
  <2>2. CASE SizeEntry(l)
    <3>1. Sized(l) \in Int OBVIOUS
    <3>2. logout'[l] \in LogoutType BY <2>2, <3>1 DEF SizeEntry
    <3> QED BY <2>2, <3>2 DEF SizeEntry
  <2>3. CASE Revoke(l) BY <2>3 DEF Revoke, WithEntry
  <2>4. CASE RevokeFails(l)
    <3>1. WithEntry(l) \in [Tokens -> [s : Int, f : Nat]] BY DEF WithEntry
    <3>2. logout' \in [Logouts -> LogoutType] BY <2>4 DEF RevokeFails
    <3> QED BY <2>4, <3>1, <3>2 DEF RevokeFails
  <2> QED BY <1>3, <2>1, <2>2, <2>3, <2>4 DEF LogoutStep
<1>4. ASSUME NEW r \in Requests, RequestStep(r) PROVE TypeOK'
  <2>1. CASE VerifyRequest(r)
    <3>1. LoggedOut(request[r].token) \in BOOLEAN BY DEF LoggedOut
    <3>2. request'[r] \in RequestType BY <2>1, <3>1 DEF VerifyRequest
    <3> QED BY <2>1, <3>2 DEF VerifyRequest
  <2>2. CASE CheckRequest(r)
    <3>1. request'[r] \in RequestType BY <2>2 DEF CheckRequest
    <3> QED BY <2>2, <3>1 DEF CheckRequest
  <2>3. CASE CheckFails(r) BY <2>3 DEF CheckFails
  <2> QED BY <1>4, <2>1, <2>2, <2>3 DEF RequestStep
<1>5. CASE UNCHANGED sessionVars BY <1>5 DEF sessionVars
<1> QED BY <1>1, <1>2, <1>3, <1>4, <1>5 DEF Next

(* Every state keeps the variables' types: what the proofs below rest on.    *)
THEOREM TypeCorrect == Spec => []TypeOK
<1>1. Init => TypeOK BY TypeInit
<1>2. TypeOK /\ [Next]_sessionVars => TypeOK' BY TypeStep
<1> QED BY <1>1, <1>2, PTL DEF Spec

-----------------------------------------------------------------------------
(* The invariant holds at the start.                                         *)
LEMMA InvInit == Init => IInv
<1> SUFFICES ASSUME Init PROVE IInv OBVIOUS
<1>1. TypeOK BY TypeInit
<1>2. /\ \A l \in Logouts : logout[l].pc = "verify"
      /\ \A r \in Requests : request[r].pc = "verify" /\ request[r].after = FALSE
  BY DEF Init
<1> QED BY <1>1, <1>2 DEF IInv, EntryLastsUntilExpiry, NotesAreTrue, LoggedOutStaysOut

(* Time passing lets no entry end before its token.                          *)
LEMMA TickKeeps == IInv /\ TypeOK' /\ Tick => IInv'
BY SessionConstants DEF IInv, TypeOK, EntryLastsUntilExpiry, NotesAreTrue,
  LoggedOutStaysOut, LoggedOut, Tick

(* A token is issued before anybody can log it out.                          *)
LEMMA IssueKeeps == ASSUME NEW t \in Tokens PROVE IInv /\ TypeOK' /\ Issue(t) => IInv'
BY SessionConstants DEF IInv, TypeOK, EntryLastsUntilExpiry, NotesAreTrue,
  LoggedOutStaysOut, LoggedOut, Issue

(* A logout sizes an entry long enough, however late it is set.              *)
LEMMA LogoutKeeps ==
  ASSUME NEW l \in Logouts, IInv, TypeOK', LogoutStep(l) PROVE IInv'
<1> USE DEF IInv
<1> DEFINE t == logout[l].token
<1>1. /\ UNCHANGED <<second, fraction, exp, request>>
      /\ \A k \in Logouts : logout'[k].token = logout[k].token
      /\ \A k \in Logouts \ {l} : logout'[k] = logout[k]
      /\ logout[l].pc # "done"
  <2>1. CASE VerifyLogout(l) BY <2>1 DEF VerifyLogout, TypeOK
  <2>2. CASE SizeEntry(l) BY <2>2 DEF SizeEntry, TypeOK
  <2>3. CASE Revoke(l) BY <2>3 DEF Revoke, TypeOK
  <2>4. CASE RevokeFails(l) BY <2>4 DEF RevokeFails, TypeOK
  <2> QED BY <2>1, <2>2, <2>3, <2>4 DEF LogoutStep
<1>2. LoggedOutStaysOut' BY <1>1 DEF LoggedOutStaysOut
<1>3. \A q \in Tokens : LoggedOut(q) => LoggedOut(q)'
  BY <1>1 DEF LoggedOut
<1>4. exp[t] # 0
  BY DEF NotesAreTrue, TypeOK, LogoutStep, VerifyLogout, SizeEntry, Revoke, RevokeFails
<1>5. NotesAreTrue'
  <2>1. \A k \in Logouts : logout'[k].pc # "verify" => exp'[logout'[k].token] # 0
    BY <1>1, <1>4 DEF NotesAreTrue
  <2>2. \A r \in Requests : request'[r].after => LoggedOut(request[r].token)'
    BY <1>1, <1>3 DEF NotesAreTrue, TypeOK
  <2> QED BY <1>1, <2>1, <2>2 DEF NotesAreTrue
<1>6. /\ t \in Tokens /\ second \in Nat /\ exp \in [Tokens -> Nat]
      /\ entry \in [Tokens -> [s : Int, f : Nat]] /\ logout[l].ttlSeconds \in Int
  BY DEF TypeOK
<1>7. CASE UNCHANGED entry
  <2>1. /\ logout'[l].pc = "revoke" => second + logout'[l].ttlSeconds >= exp[t]
        /\ logout'[l].pc = "done" => exp[t] <= second \/ exp[t] <= entry[t].s
    <3>1. CASE VerifyLogout(l) BY <3>1 DEF VerifyLogout, TypeOK
    <3>2. CASE SizeEntry(l)
      <4>1. /\ logout'[l].ttlSeconds = exp[t] - second
            /\ logout'[l].pc = "done" => exp[t] - second <= 0
        BY <3>2 DEF SizeEntry, TypeOK
      <4> QED BY <1>6, <4>1
    <3>3. CASE Revoke(l)
      <4>1. /\ entry[t].s = second + logout[l].ttlSeconds
            /\ second + logout[l].ttlSeconds >= exp[t] /\ logout'[l].pc = "done"
        BY <1>6, <1>7, <3>3 DEF Revoke, WithEntry, EntryLastsUntilExpiry, TypeOK
      <4> QED BY <1>6, <4>1
    <3>4. CASE RevokeFails(l) BY <3>4 DEF RevokeFails, TypeOK
    <3> QED BY <3>1, <3>2, <3>3, <3>4 DEF LogoutStep
  <2>2. EntryLastsUntilExpiry' BY <1>1, <1>7, <2>1 DEF EntryLastsUntilExpiry
  <2> QED BY <1>2, <1>5, <2>2
<1>8. CASE entry' = WithEntry(l) /\ (Revoke(l) \/ RevokeFails(l))
  <2>1. /\ logout[l].pc = "revoke" /\ logout'[l].pc \in {"done", "failed"}
        /\ entry'[t].s = second + logout[l].ttlSeconds
        /\ \A q \in Tokens \ {t} : entry'[q] = entry[q]
    BY <1>6, <1>8 DEF Revoke, RevokeFails, WithEntry, TypeOK
  <2>2. exp[t] <= entry'[t].s
    BY <1>6, <2>1 DEF EntryLastsUntilExpiry
  <2>3. \A k \in Logouts : logout[k].token \in Tokens BY DEF TypeOK
  <2>4. EntryLastsUntilExpiry'
    BY <1>1, <2>1, <2>2, <2>3 DEF EntryLastsUntilExpiry
  <2> QED BY <1>2, <1>5, <2>4
<1> QED
  BY <1>7, <1>8 DEF LogoutStep, VerifyLogout, SizeEntry, Revoke, RevokeFails

(* A request is admitted only if no entry of its token stands.               *)
LEMMA RequestKeeps ==
  ASSUME NEW r \in Requests, IInv, TypeOK', RequestStep(r) PROVE IInv'
<1> USE DEF IInv
<1>1. CASE VerifyRequest(r)
  BY <1>1 DEF TypeOK, EntryLastsUntilExpiry, NotesAreTrue, LoggedOutStaysOut,
    LoggedOut, VerifyRequest
<1>2. CASE CheckRequest(r)
  <2>1. UNCHANGED <<second, fraction, exp, entry, logout>>
    BY <1>2 DEF CheckRequest
  <2>2. /\ \A q \in Requests : q # r => request'[q] = request[q]
        /\ request'[r].after = request[r].after
        /\ request'[r].token = request[r].token
        /\ request'[r].late = ~Verifies(request[r].token)
        /\ request'[r].pc = "admitted" => ~Present(request[r].token)
    BY <1>2 DEF CheckRequest, TypeOK
  <2>3. EntryLastsUntilExpiry' /\ NotesAreTrue'
    BY <2>1, <2>2 DEF EntryLastsUntilExpiry, NotesAreTrue, LoggedOut
  <2>4. request[r].after /\ Verifies(request[r].token) => Present(request[r].token)
    <3> SUFFICES ASSUME request[r].after, second < exp[request[r].token]
                 PROVE  second < entry[request[r].token].s
      OBVIOUS
    <3>1. PICK l \in Logouts : logout[l].pc = "done" /\ logout[l].token = request[r].token
      BY DEF NotesAreTrue, LoggedOut
    <3>2. exp[request[r].token] <= second \/ exp[request[r].token] <= entry[request[r].token].s
      BY <3>1 DEF EntryLastsUntilExpiry
    <3>3. /\ request[r].token \in Tokens /\ second \in Nat
          /\ exp[request[r].token] \in Nat /\ entry[request[r].token].s \in Int
      BY DEF TypeOK
    <3> QED BY <3>2, <3>3
  <2>5. LoggedOutStaysOut'
    BY <2>2, <2>4 DEF LoggedOutStaysOut, TypeOK
  <2> QED BY <2>3, <2>5
<1>3. CASE CheckFails(r)
  BY <1>3 DEF TypeOK, EntryLastsUntilExpiry, NotesAreTrue, LoggedOutStaysOut,
    LoggedOut, CheckFails
<1> QED BY <1>1, <1>2, <1>3 DEF RequestStep

(* A request that arrives after a logout was answered is not admitted while  *)
(* its token is good.                                                        *)
THEOREM LogoutHolds == Spec => []LoggedOutStaysOut
<1>1. Init => IInv BY InvInit
<1>2. IInv /\ [Next]_sessionVars => IInv'
  <2> SUFFICES ASSUME IInv, [Next]_sessionVars PROVE IInv' OBVIOUS
  <2>1. TypeOK' BY TypeStep DEF IInv
  <2>2. CASE Tick BY <2>1, <2>2, TickKeeps
  <2>3. ASSUME NEW t \in Tokens, Issue(t) PROVE IInv' BY <2>1, <2>3, IssueKeeps
  <2>4. ASSUME NEW l \in Logouts, LogoutStep(l) PROVE IInv' BY <2>1, <2>4, LogoutKeeps
  <2>5. ASSUME NEW r \in Requests, RequestStep(r) PROVE IInv' BY <2>1, <2>5, RequestKeeps
  <2>6. CASE UNCHANGED sessionVars
    BY <2>6 DEF sessionVars, IInv, TypeOK, EntryLastsUntilExpiry, NotesAreTrue,
      LoggedOutStaysOut, LoggedOut
  <2> QED BY <2>2, <2>3, <2>4, <2>5, <2>6 DEF Next
<1>3. IInv => LoggedOutStaysOut BY DEF IInv
<1> QED BY <1>1, <1>2, <1>3, PTL DEF Spec

-----------------------------------------------------------------------------
(* An entry is there because its token was sent to a logout.                 *)
Ended(t) == \E l \in Logouts : /\ logout[l].token = t
                              /\ logout[l].pc \in {"done", "failed"}
NoStrayEntry == \A t \in Tokens : entry[t] # [s |-> 0, f |-> 0] => Ended(t)
RefusedInv == TypeOK /\ NoStrayEntry /\ RefusedOnlyIfLoggedOut

(* Entries are set under the key of the token that is logged out.            *)
LEMMA RefusedStep ==
  ASSUME RefusedInv, [Next]_sessionVars PROVE RefusedInv'
<1> USE DEF RefusedInv
<1>1. TypeOK' BY TypeStep
<1>2. ASSUME UNCHANGED <<entry, request>>,
             \A t \in Tokens : Ended(t) => Ended(t)'
      PROVE  RefusedInv'
  BY <1>1, <1>2 DEF NoStrayEntry, RefusedOnlyIfLoggedOut, Ended, TypeOK
<1>3. ASSUME NEW l \in Logouts, LogoutStep(l) PROVE RefusedInv'
  <2>1. \A t \in Tokens : Ended(t) => Ended(t)'
    BY <1>3 DEF Ended, TypeOK, LogoutStep, VerifyLogout, SizeEntry, Revoke, RevokeFails
  <2>2. CASE VerifyLogout(l) \/ SizeEntry(l)
    BY <1>2, <2>1, <2>2 DEF VerifyLogout, SizeEntry
  <2>3. CASE Revoke(l) \/ RevokeFails(l)
    <3>1. PICK k \in Tokens : k = logout[l].token BY DEF TypeOK
    <3>2. Ended(k)' BY <2>3, <3>1 DEF Ended, TypeOK, Revoke, RevokeFails
    <3>3. \A t \in Tokens \ {k} : entry'[t] = entry[t]
      BY <2>3, <3>1 DEF TypeOK, Revoke, RevokeFails, WithEntry
    <3>4. NoStrayEntry' BY <2>1, <3>2, <3>3 DEF NoStrayEntry
    <3>5. RefusedOnlyIfLoggedOut'
      <4>1. UNCHANGED request BY <2>3 DEF Revoke, RevokeFails
      <4>2. ASSUME NEW r \in Requests, request[r].pc = "revoked"
            PROVE  \E i \in Logouts : /\ logout'[i].token = request[r].token
                                      /\ logout'[i].pc \in {"done", "failed"}
        <5>1. PICK t \in Tokens : t = request[r].token BY DEF TypeOK
        <5>2. Ended(t) BY <4>2, <5>1 DEF RefusedOnlyIfLoggedOut, Ended
        <5>3. Ended(t)' BY <2>1, <5>2
        <5> QED BY <5>1, <5>3 DEF Ended
      <4> QED BY <4>1, <4>2 DEF RefusedOnlyIfLoggedOut
    <3> QED BY <1>1, <3>4, <3>5
  <2> QED BY <1>3, <2>2, <2>3 DEF LogoutStep
<1>4. ASSUME NEW r \in Requests, RequestStep(r) PROVE RefusedInv'
  <2>1. UNCHANGED <<second, fraction, entry, logout>>
    BY <1>4 DEF RequestStep, VerifyRequest, CheckRequest, CheckFails
  <2>2. /\ \A q \in Requests : request'[q].token = request[q].token
        /\ \A q \in Requests \ {r} : request'[q] = request[q]
        /\ request'[r].pc = "revoked" => Present(request[r].token)
    <3>1. CASE VerifyRequest(r) BY <3>1 DEF TypeOK, VerifyRequest
    <3>2. CASE CheckRequest(r) BY <3>2 DEF TypeOK, CheckRequest
    <3>3. CASE CheckFails(r) BY <3>3 DEF TypeOK, CheckFails
    <3> QED BY <1>4, <3>1, <3>2, <3>3 DEF RequestStep
  <2>3. Present(request[r].token) => Ended(request[r].token)
    <3>1. /\ request[r].token \in Tokens /\ second \in Nat /\ fraction \in Nat
          /\ entry[request[r].token] \in [s : Int, f : Nat]
      BY SessionConstants DEF TypeOK
    <3>2. Present(request[r].token) => entry[request[r].token] # [s |-> 0, f |-> 0]
      BY <3>1
    <3> QED BY <3>1, <3>2 DEF NoStrayEntry
  <2>4. NoStrayEntry' BY <2>1 DEF NoStrayEntry, Ended
  <2>5. RefusedOnlyIfLoggedOut'
    BY <2>1, <2>2, <2>3 DEF RefusedOnlyIfLoggedOut, Ended
  <2> QED BY <1>1, <2>4, <2>5
<1>5. CASE Tick BY <1>2, <1>5 DEF Tick, Ended
<1>6. ASSUME NEW t \in Tokens, Issue(t) PROVE RefusedInv'
  BY <1>2, <1>6 DEF Issue, Ended
<1>7. CASE UNCHANGED sessionVars BY <1>2, <1>7 DEF sessionVars, Ended
<1> QED BY <1>3, <1>4, <1>5, <1>6, <1>7 DEF Next

(* A session ends by a logout with its own token only.                       *)
THEOREM OnlyItsOwnLogout == Spec => []RefusedOnlyIfLoggedOut
<1>1. Init => RefusedInv
  <2> SUFFICES ASSUME Init PROVE RefusedInv OBVIOUS
  <2>1. TypeOK BY TypeInit
  <2>2. NoStrayEntry BY DEF Init, NoStrayEntry
  <2>3. \A r \in Requests : request[r].pc = "verify" BY DEF Init
  <2> QED BY <2>1, <2>2, <2>3 DEF RefusedInv, RefusedOnlyIfLoggedOut
<1>2. RefusedInv /\ [Next]_sessionVars => RefusedInv' BY RefusedStep
<1>3. RefusedInv => RefusedOnlyIfLoggedOut BY DEF RefusedInv
<1> QED BY <1>1, <1>2, <1>3, PTL DEF Spec
=============================================================================
