----------------------------- MODULE LoginProofs -----------------------------
(* Theorems about Login, for any numbers of sessions, callbacks and calls of *)
(* the gateway, any lifetimes and any delays.                                *)
EXTENDS Login, SequenceTheorems, TLAPS

Entry == [expiry : Int, late : Int, replaced : Nat]
Issued == 1..Len(tokens)
NeverReplaced(n) == tokens[n].replaced = 0

(* A callback that has a token which is not in the vault yet.                *)
Holding(h) == callback[h].pc \in {"answer", "upsert"}

TimeOK == now \in Nat \ {0} /\ tokens \in Seq(Entry)

CallbackPcs == {"find", "request", "answer", "upsert", "delete", "publish",
                "answered", "refused", "failed"}
FetchPcs == {"get", "ask", "store"}

USE DEF CallbackPcs, FetchPcs

CallbackOK ==
  callback \in [Callbacks -> [pc : CallbackPcs, state : Sessions,
                              got : [token : Nat, until : Int]]]

FetchOK == fetch \in [Fetches -> [pc : FetchPcs, token : Nat, sent : Nat]]

(* A token on its way to the vault has not been there, and nobody else has   *)
(* it.                                                                       *)
HeldIsNew ==
  \A h \in Callbacks : Holding(h) =>
    /\ callback[h].got.token \in Issued
    /\ NeverReplaced(callback[h].got.token)
    /\ callback[h].got.token # user.token
    /\ \A g \in Callbacks \ {h} :
         Holding(g) => callback[g].got.token # callback[h].got.token

(* Expiries are recorded too late by the delay of Swiggy's answer.           *)
RecordedExpiry(n) == tokens[n].expiry + tokens[n].late

HeldExpiry ==
  \A h \in Callbacks : callback[h].pc = "upsert" =>
    callback[h].got.until = RecordedExpiry(callback[h].got.token)

UserOK ==
  /\ user \in [token : Nat, until : Int]
  /\ user.token # 0 =>
       /\ user.token \in Issued /\ NeverReplaced(user.token)
       /\ user.until = RecordedExpiry(user.token)

(* A token was in the vault, and by its record good, when it was sent.       *)
SentInTime(t, sent) ==
  /\ t \in Issued
  /\ t = user.token \/ (~NeverReplaced(t) /\ sent <= tokens[t].replaced)
  /\ sent <= RecordedExpiry(t)

FetchedInTime ==
  \A f \in Fetches : fetch[f].pc = "store" =>
    fetch[f].sent <= now /\ SentInTime(fetch[f].token, fetch[f].sent)

CachedInTime ==
  /\ cache \in [token : Nat, until : Int, lag : Int]
  /\ cache.token # 0 =>
       \E sent \in Nat :
         /\ sent <= now /\ SentInTime(cache.token, sent)
         /\ cache.until = sent + cache.lag + CACHE_TTL

LoginInv == /\ TimeOK /\ CallbackOK /\ FetchOK /\ HeldIsNew /\ HeldExpiry
            /\ UserOK /\ FetchedInTime /\ CachedInTime

-----------------------------------------------------------------------------
(* How the sequence of tokens changes: by a new one, because the answer with *)
(* one arrives, or because the one in the vault is replaced.                 *)
LEMMA TokenIs ==
  ASSUME TimeOK, NEW n \in Issued
  PROVE  /\ tokens[n].expiry \in Int /\ tokens[n].late \in Int
         /\ tokens[n].replaced \in Nat
<1>1. tokens[n] \in Entry BY DEF TimeOK, Issued
<1> QED BY <1>1 DEF Entry

(* A new one leaves the others alone.                                        *)
LEMMA Appended ==
  ASSUME TimeOK, NEW e \in Int,
         tokens' = Append(tokens, [expiry |-> e, late |-> 0, replaced |-> 0])
  PROVE  /\ tokens' \in Seq(Entry) /\ Issued' = 1..(Len(tokens) + 1)
         /\ Len(tokens') = Len(tokens) + 1 /\ Len(tokens) \in Nat
         /\ \A n \in Issued : tokens'[n] = tokens[n]
         /\ tokens'[Len(tokens) + 1] = [expiry |-> e, late |-> 0, replaced |-> 0]
BY DEF TimeOK, Issued, Entry

(* So does the answer with one, which tells how late it is,                  *)
LEMMA Heard ==
  ASSUME TimeOK, NEW v, NEW u \in Int,
         tokens' = [n \in DOMAIN tokens |->
                      IF n = v THEN [tokens[n] EXCEPT !.late = u - tokens[n].expiry]
                      ELSE tokens[n]]
  PROVE  /\ tokens' \in Seq(Entry) /\ Issued' = Issued
         /\ Len(tokens') = Len(tokens)
         /\ \A n \in Issued : tokens'[n].replaced = tokens[n].replaced
         /\ \A n \in Issued \ {v} : tokens'[n] = tokens[n]
         /\ v \in Issued => tokens'[v].expiry + tokens'[v].late = u
<1>1. Len(tokens) \in Nat /\ DOMAIN tokens = Issued BY DEF TimeOK, Issued
<1>2. \A n \in Issued : tokens[n] \in Entry BY DEF TimeOK, Issued
<1>3. tokens' \in [1..Len(tokens) -> Entry] BY <1>1, <1>2 DEF Entry, Issued
<1>4. tokens' \in Seq(Entry) /\ Len(tokens') = Len(tokens)
  BY <1>1, <1>3, SeqDef, LenProperties
<1>5. Issued' = Issued BY <1>4 DEF Issued
<1>6. ASSUME v \in Issued PROVE tokens'[v].expiry + tokens'[v].late = u
  <2>1. tokens'[v] = [tokens[v] EXCEPT !.late = u - tokens[v].expiry] BY <1>1, <1>6
  <2>2. tokens[v] \in Entry BY <1>2, <1>6
  <2>3. tokens[v].expiry \in Int BY <2>2 DEF Entry
  <2>4. /\ tokens'[v].expiry = tokens[v].expiry
        /\ tokens'[v].late = u - tokens[v].expiry
    BY <2>1, <2>2 DEF Entry
  <2> QED BY <2>3, <2>4
<1>7. \A n \in Issued \ {v} : tokens'[n] = tokens[n] BY <1>1
<1>8. \A n \in Issued : tokens'[n].replaced = tokens[n].replaced
  BY <1>1, <1>2 DEF Entry
<1> QED BY <1>4, <1>5, <1>6, <1>7, <1>8

(* and the replacement of one.                                               *)
LEMMA Replaced ==
  ASSUME TimeOK, NEW v, NEW t \in Nat,
         tokens' = [n \in DOMAIN tokens |->
                      IF n = v THEN [tokens[n] EXCEPT !.replaced = t]
                      ELSE tokens[n]]
  PROVE  /\ tokens' \in Seq(Entry) /\ Issued' = Issued
         /\ Len(tokens') = Len(tokens)
         /\ \A n \in Issued : /\ tokens'[n].expiry = tokens[n].expiry
                               /\ tokens'[n].late = tokens[n].late
         /\ \A n \in Issued \ {v} : tokens'[n] = tokens[n]
         /\ v \in Issued => tokens'[v].replaced = t
<1>1. Len(tokens) \in Nat /\ DOMAIN tokens = Issued BY DEF TimeOK, Issued
<1>2. \A n \in Issued : tokens[n] \in Entry BY DEF TimeOK, Issued
<1>3. tokens' \in [1..Len(tokens) -> Entry] BY <1>1, <1>2 DEF Entry, Issued
<1>4. tokens' \in Seq(Entry) /\ Len(tokens') = Len(tokens)
  BY <1>1, <1>3, SeqDef, LenProperties
<1>5. \A n \in Issued : /\ tokens'[n].expiry = tokens[n].expiry
                        /\ tokens'[n].late = tokens[n].late
  BY <1>1, <1>2 DEF Entry
<1> QED BY <1>1, <1>2, <1>4, <1>5 DEF Issued, Entry

(* What was sent in time remains so.                                         *)
LEMMA SentAppended ==
  ASSUME TimeOK, NEW e \in Int, NEW t \in Nat, NEW sent \in Nat, UNCHANGED user,
         tokens' = Append(tokens, [expiry |-> e, late |-> 0, replaced |-> 0]),
         SentInTime(t, sent)
  PROVE  SentInTime(t, sent)'
BY Appended DEF SentInTime, NeverReplaced, Issued, RecordedExpiry

(* The token that arrives was never sent.                                    *)
LEMMA SentHeard ==
  ASSUME TimeOK, NEW v \in Issued, NEW u \in Int, NEW t \in Nat, NEW sent \in Nat,
         UNCHANGED user, NeverReplaced(v), v # user.token,
         tokens' = [n \in DOMAIN tokens |->
                      IF n = v THEN [tokens[n] EXCEPT !.late = u - tokens[n].expiry]
                      ELSE tokens[n]],
         SentInTime(t, sent)
  PROVE  SentInTime(t, sent)'
<1>1. Issued' = Issued /\ \A n \in Issued \ {v} : tokens'[n] = tokens[n] BY Heard
<1>2. t # v BY DEF SentInTime
<1> QED BY <1>1, <1>2 DEF SentInTime, NeverReplaced, RecordedExpiry

(* Only what was in the vault is replaced.                                   *)
LEMMA SentReplaced ==
  ASSUME TimeOK, NEW t \in Nat, NEW sent \in Nat, sent <= now,
         tokens' = [n \in DOMAIN tokens |->
                      IF n = user.token THEN [tokens[n] EXCEPT !.replaced = now]
                      ELSE tokens[n]],
         SentInTime(t, sent)
  PROVE  SentInTime(t, sent)'
<1>0. TimeOK OBVIOUS
<1>1. now \in Nat \ {0} BY DEF TimeOK
<1>2. PICK v : v = user.token OBVIOUS
<1>3. PICK w \in Nat \ {0} : w = now BY <1>1
<1>4. tokens' = [n \in DOMAIN tokens |->
                   IF n = v THEN [tokens[n] EXCEPT !.replaced = w] ELSE tokens[n]]
  BY <1>2, <1>3
<1>5. /\ Issued' = Issued
      /\ \A n \in Issued : /\ tokens'[n].expiry = tokens[n].expiry
                            /\ tokens'[n].late = tokens[n].late
      /\ \A n \in Issued \ {v} : tokens'[n] = tokens[n]
      /\ v \in Issued => tokens'[v].replaced = w
  BY ONLY <1>0, <1>4, w \in Nat, Replaced
<1>6. t \in Issued' /\ sent <= RecordedExpiry(t)' BY <1>5 DEF SentInTime, RecordedExpiry
<1>7. ~NeverReplaced(t)' /\ sent <= tokens'[t].replaced
  <2>1. CASE t = v
    <3>1. tokens'[t].replaced = w BY <2>1, <1>5 DEF SentInTime
    <3>2. sent <= w BY <1>3
    <3> QED BY <3>1, <3>2 DEF NeverReplaced
  <2>2. CASE t # v
    <3>1. tokens'[t] = tokens[t] BY <2>2, <1>5 DEF SentInTime
    <3>2. ~NeverReplaced(t) /\ sent <= tokens[t].replaced BY <2>2, <1>2 DEF SentInTime
    <3> QED BY <3>1, <3>2 DEF NeverReplaced
  <2> QED BY <2>1, <2>2
<1> QED BY <1>6, <1>7 DEF SentInTime

(* At first nobody has a token.                                              *)
LEMMA InvInit == Init => LoginInv
<1> SUFFICES ASSUME Init PROVE LoginInv OBVIOUS
<1>1. TimeOK BY DEF Init, TimeOK
<1>2. CallbackOK /\ \A h \in Callbacks : callback[h].pc = "find"
  <2>1. callback \in [Callbacks -> [pc : {"find"}, state : Sessions, got : {NoToken}]]
    BY DEF Init
  <2>2. NoToken \in [token : Nat, until : Int] BY DEF NoToken
  <2> QED BY <2>1, <2>2 DEF CallbackOK
<1>3. FetchOK /\ \A f \in Fetches : fetch[f].pc = "get" BY DEF Init, FetchOK
<1>4. UserOK /\ CachedInTime BY DEF Init, UserOK, CachedInTime, NoToken
<1> QED BY <1>1, <1>2, <1>3, <1>4
      DEF LoginInv, HeldIsNew, HeldExpiry, FetchedInTime, Holding

(* Time passes.                                                              *)
LEMMA TickKeeps == ASSUME LoginInv, Tick PROVE LoginInv'
<1> USE DEF LoginInv, Tick, swiggyVars, sessionVars, gatewayVars
<1>1. TimeOK' /\ now' = now + 1 /\ now \in Nat BY DEF TimeOK
<1>2. CallbackOK' /\ FetchOK' BY DEF CallbackOK, FetchOK
<1>3. HeldIsNew' /\ HeldExpiry' /\ UserOK'
  BY DEF HeldIsNew, HeldExpiry, UserOK, Holding, Issued, NeverReplaced, RecordedExpiry
<1>4. FetchedInTime'
  BY <1>1 DEF FetchedInTime, FetchOK, SentInTime, Issued, NeverReplaced, RecordedExpiry
<1>5. CachedInTime'
  BY <1>1 DEF CachedInTime, SentInTime, Issued, NeverReplaced, RecordedExpiry
<1> QED BY <1>1, <1>2, <1>3, <1>4, <1>5

(* Nothing that the invariant speaks of changes, but the place of a callback *)
(* that then holds no token.                                                 *)
LEMMA SamePlaces ==
  ASSUME LoginInv, UNCHANGED <<now, tokens, user, cache, fetch, callback>>
  PROVE  LoginInv'
BY DEF LoginInv, TimeOK, CallbackOK, FetchOK, HeldIsNew, HeldExpiry, UserOK,
  FetchedInTime, CachedInTime, SentInTime, Holding, Issued, NeverReplaced, RecordedExpiry

(* A callback moves on and holds no token.                                   *)
LEMMA MovedOn ==
  ASSUME LoginInv, NEW h \in Callbacks, NEW pc \in CallbackPcs \ {"answer", "upsert"},
         Goto(h, pc), UNCHANGED <<now, tokens, user, cache, fetch>>
  PROVE  LoginInv'
<1> USE DEF LoginInv
<1>1. TimeOK' /\ FetchOK' /\ UserOK' /\ FetchedInTime' /\ CachedInTime'
  BY DEF TimeOK, FetchOK, UserOK, FetchedInTime, CachedInTime, SentInTime,
    Issued, NeverReplaced, RecordedExpiry
<1>2. CallbackOK' BY DEF CallbackOK, Goto
<1>3. /\ callback'[h].pc = pc
      /\ \A g \in Callbacks \ {h} : callback'[g] = callback[g]
  BY DEF CallbackOK, Goto
<1>4. HeldIsNew' BY <1>3 DEF HeldIsNew, Holding, Issued, NeverReplaced, RecordedExpiry
<1>5. HeldExpiry' BY <1>3 DEF HeldExpiry, RecordedExpiry
<1> QED BY <1>1, <1>2, <1>4, <1>5

(* A new token: nobody has its number.                                       *)
LEMMA RedeemKeeps == ASSUME LoginInv, NEW h \in Callbacks, Redeem(h) PROVE LoginInv'
<1> USE DEF LoginInv
<1>1. CASE Goto(h, "refused") /\ UNCHANGED swiggyVars
  BY <1>1, MovedOn DEF Redeem, swiggyVars, gatewayVars
<1>2. CASE /\ tokens' = Append(tokens, [expiry |-> now + ExpiresIn, late |-> 0, replaced |-> 0])
           /\ callback' = [callback EXCEPT ![h].pc = "answer",
                                           ![h].got.token = Len(tokens')]
  <2> DEFINE new == Len(tokens) + 1
  <2>0. now \in Nat /\ now + ExpiresIn \in Int BY LoginConstants DEF TimeOK
  <2>1. /\ tokens' \in Seq(Entry) /\ Issued' = 1..new /\ Len(tokens') = new
        /\ Len(tokens) \in Nat /\ \A n \in Issued : tokens'[n] = tokens[n]
        /\ tokens'[new].replaced = 0
    <3> DEFINE e == now + ExpiresIn
    <3>1. e \in Int /\ tokens' = Append(tokens, [expiry |-> e, late |-> 0, replaced |-> 0])
      BY <1>2, <2>0
    <3> HIDE DEF e
    <3>2. TimeOK OBVIOUS
    <3>3. /\ tokens' \in Seq(Entry) /\ Issued' = 1..(Len(tokens) + 1)
          /\ Len(tokens') = Len(tokens) + 1 /\ Len(tokens) \in Nat
          /\ \A n \in Issued : tokens'[n] = tokens[n]
          /\ tokens'[Len(tokens) + 1] = [expiry |-> e, late |-> 0, replaced |-> 0]
      BY ONLY <3>1, <3>2, Appended
    <3> QED BY <3>3
  <2>2. UNCHANGED <<now, user, cache, fetch>> BY DEF Redeem, gatewayVars
  <2>3. /\ callback'[h].pc = "answer" /\ callback'[h].got.token = new
        /\ \A g \in Callbacks \ {h} : callback'[g] = callback[g]
        /\ CallbackOK'
    <3>1. callback[h] \in [pc : CallbackPcs, state : Sessions,
                           got : [token : Nat, until : Int]]
      BY DEF CallbackOK
    <3> DEFINE got == [callback[h].got EXCEPT !.token = Len(tokens')]
               d == [callback[h] EXCEPT !.pc = "answer", !.got = got]
    <3>2. got \in [token : Nat, until : Int] /\ got.token = new
      BY <2>1, <3>1
    <3>3. callback' = [callback EXCEPT ![h] = d]
      BY <1>2, <3>1 DEF CallbackOK
    <3> HIDE DEF got
    <3>4. /\ d \in [pc : CallbackPcs, state : Sessions,
                    got : [token : Nat, until : Int]]
          /\ d.pc = "answer" /\ d.got = got
      BY <3>1, <3>2
    <3> HIDE DEF d
    <3> QED BY <3>2, <3>3, <3>4 DEF CallbackOK
  <2>4. TimeOK' /\ FetchOK' BY <2>1, <2>2 DEF TimeOK, FetchOK
  <2>5. /\ Issued \subseteq Issued' /\ new \in Issued' /\ new \notin Issued
        /\ user.token # new
    BY <2>1 DEF Issued, UserOK
  <2>6. UserOK' BY <2>1, <2>2, <2>5 DEF UserOK, NeverReplaced, RecordedExpiry
  <2>7. HeldIsNew'
    <3> SUFFICES ASSUME NEW g \in Callbacks, Holding(g)'
        PROVE  /\ callback'[g].got.token \in Issued'
               /\ NeverReplaced(callback[g].got.token)'
               /\ callback'[g].got.token # user.token
               /\ \A i \in Callbacks \ {g} :
                    Holding(i)' => callback'[i].got.token # callback'[g].got.token
      BY <2>2 DEF HeldIsNew
    <3> HIDE DEF new
    <3>1. \A i \in Callbacks \ {h} : Holding(i)' => Holding(i) BY <2>3 DEF Holding
    <3>2. CASE g = h
      BY <3>1, <3>2, <2>1, <2>3, <2>5 DEF HeldIsNew, NeverReplaced
    <3>3. CASE g # h
      <4>1. callback'[g] = callback[g] /\ Holding(g) BY <3>1, <3>3, <2>3
      <4> DEFINE t == callback[g].got.token
      <4>2. t \in Issued /\ NeverReplaced(t) /\ t # user.token BY <4>1 DEF HeldIsNew
      <4>3. t \in Issued' /\ tokens'[t].replaced = 0 /\ t # new
        BY <4>2, <2>1, <2>5 DEF NeverReplaced
      <4>4. ASSUME NEW i \in Callbacks \ {g}, Holding(i)'
            PROVE  callback'[i].got.token # t
        <5>1. CASE i = h BY <5>1, <4>3, <2>3
        <5>2. CASE i # h
          <6>1. callback'[i] = callback[i] /\ Holding(i) BY <5>2, <4>4, <3>1, <2>3
          <6> QED BY <6>1, <4>1 DEF HeldIsNew
        <5> QED BY <5>1, <5>2
      <4> QED BY <4>1, <4>2, <4>3, <4>4 DEF NeverReplaced
    <3> QED BY <3>2, <3>3
  <2>8. HeldExpiry' BY <2>1, <2>3 DEF HeldExpiry, HeldIsNew, Holding, RecordedExpiry
  <2>9. FetchedInTime'
    BY <1>2, <2>0, <2>2, SentAppended DEF FetchedInTime, FetchOK
  <2>10. CachedInTime'
    BY <1>2, <2>0, <2>2, SentAppended DEF CachedInTime
  <2> QED BY <2>3, <2>4, <2>6, <2>7, <2>8, <2>9, <2>10
<1> QED BY <1>1, <1>2 DEF Redeem

(* The recorded expiry is late by the delay of the answer.                   *)
LEMMA ReceiveKeeps ==
  ASSUME LoginInv, NEW h \in Callbacks, ReceiveToken(h) PROVE LoginInv'
<1> USE DEF LoginInv
<1> DEFINE v == callback[h].got.token
           u == now + ExpiresIn
<1>1. UNCHANGED <<now, user, cache, fetch>> BY DEF ReceiveToken, gatewayVars
<1>a. u \in Int BY LoginConstants DEF TimeOK
<1>b. Holding(h) BY DEF ReceiveToken, At, Holding
<1>c. v \in Issued /\ NeverReplaced(v) /\ v # user.token BY <1>b DEF HeldIsNew
<1>d. tokens' = [n \in DOMAIN tokens |->
                   IF n = v THEN [tokens[n] EXCEPT !.late = u - tokens[n].expiry]
                   ELSE tokens[n]]
  BY DEF ReceiveToken
<1>e. /\ tokens' \in Seq(Entry) /\ Issued' = Issued
      /\ \A n \in Issued : tokens'[n].replaced = tokens[n].replaced
      /\ \A n \in Issued \ {v} : tokens'[n] = tokens[n]
      /\ tokens'[v].expiry + tokens'[v].late = u
  <2> HIDE DEF u, v
  <2>1. PICK w : w = v OBVIOUS
  <2>2. PICK x \in Int : x = u BY <1>a
  <2>3. tokens' = [n \in DOMAIN tokens |->
                     IF n = w THEN [tokens[n] EXCEPT !.late = x - tokens[n].expiry]
                     ELSE tokens[n]]
    BY <1>d, <2>1, <2>2
  <2>4. /\ tokens' \in Seq(Entry) /\ Issued' = Issued
        /\ \A n \in Issued : tokens'[n].replaced = tokens[n].replaced
        /\ \A n \in Issued \ {w} : tokens'[n] = tokens[n]
        /\ w \in Issued => tokens'[w].expiry + tokens'[w].late = x
    BY <2>3, Heard
  <2>5. tokens'[v].expiry + tokens'[v].late = u BY <1>c, <2>1, <2>2, <2>4
  <2> QED BY <2>1, <2>4, <2>5
<1>2. /\ TimeOK' /\ FetchOK' /\ UserOK'
  BY <1>1, <1>c, <1>e DEF TimeOK, FetchOK, UserOK, NeverReplaced, RecordedExpiry
<1>f. ASSUME NEW t \in Nat, NEW sent \in Nat, SentInTime(t, sent)
      PROVE  SentInTime(t, sent)'
  <2> HIDE DEF u, v
  <2>1. PICK w \in Issued : w = v BY <1>c
  <2>2. PICK x \in Int : x = u BY <1>a
  <2>3. tokens' = [n \in DOMAIN tokens |->
                     IF n = w THEN [tokens[n] EXCEPT !.late = x - tokens[n].expiry]
                     ELSE tokens[n]]
    BY <1>d, <2>1, <2>2
  <2>4. NeverReplaced(w) /\ w # user.token BY <1>c, <2>1
  <2> QED BY <1>1, <1>f, <2>3, <2>4, SentHeard
<1>g. FetchedInTime' BY <1>1, <1>f DEF FetchedInTime, FetchOK
<1>h. CachedInTime' BY <1>1, <1>f DEF CachedInTime
<1>3. now + ExpiresIn \in Int BY LoginConstants DEF TimeOK
<1>4. /\ callback'[h].pc = "upsert" /\ callback'[h].got.until = now + ExpiresIn
      /\ callback'[h].got.token = callback[h].got.token
      /\ \A g \in Callbacks \ {h} : callback'[g] = callback[g]
      /\ CallbackOK'
  <2>1. callback[h] \in [pc : CallbackPcs, state : Sessions,
                         got : [token : Nat, until : Int]]
    BY DEF CallbackOK
  <2> DEFINE got == [callback[h].got EXCEPT !.until = now + ExpiresIn]
             d == [callback[h] EXCEPT !.pc = "upsert", !.got = got]
  <2>2. /\ got \in [token : Nat, until : Int] /\ got.until = now + ExpiresIn
        /\ got.token = callback[h].got.token
    BY <1>3, <2>1
  <2>3. callback' = [callback EXCEPT ![h] = d]
    BY <2>1 DEF CallbackOK, ReceiveToken
  <2> HIDE DEF got
  <2>4. /\ d \in [pc : CallbackPcs, state : Sessions,
                  got : [token : Nat, until : Int]]
        /\ d.pc = "upsert" /\ d.got = got
    BY <2>1, <2>2
  <2> HIDE DEF d
  <2> QED BY <2>2, <2>3, <2>4 DEF CallbackOK
<1>5. HeldIsNew' BY <1>1, <1>4, <1>b, <1>e DEF HeldIsNew, Holding, NeverReplaced
<1>6. ASSUME NEW g \in Callbacks \ {h}, callback'[g].pc = "upsert"
      PROVE  /\ callback[g].pc = "upsert" /\ callback'[g] = callback[g]
             /\ tokens'[callback[g].got.token] = tokens[callback[g].got.token]
  <2>1. callback'[g] = callback[g] BY <1>4
  <2>2. Holding(g) BY <1>6, <2>1 DEF Holding
  <2>3. callback[g].got.token \in Issued \ {v} BY <1>b, <2>2 DEF HeldIsNew
  <2> QED BY <1>6, <2>1, <2>3, <1>e
<1>7. HeldExpiry' BY <1>4, <1>6, <1>e DEF HeldExpiry, RecordedExpiry
<1> QED BY <1>2, <1>4, <1>5, <1>7, <1>g, <1>h

(* The token in the vault is replaced, and only it.                          *)
LEMMA UpsertKeeps ==
  ASSUME LoginInv, NEW h \in Callbacks, UpsertUser(h) PROVE LoginInv'
<1> USE DEF LoginInv
<1> DEFINE old == user.token
           new == callback[h].got.token
<1>1. UNCHANGED <<now, cache, fetch>> /\ user' = callback[h].got
  BY DEF UpsertUser, gatewayVars
<1>2. tokens' = [n \in DOMAIN tokens |->
                   IF n = old THEN [tokens[n] EXCEPT !.replaced = now]
                   ELSE tokens[n]]
  BY DEF UpsertUser
<1>3. /\ tokens' \in Seq(Entry) /\ Issued' = Issued
      /\ \A n \in Issued \ {old} : tokens'[n] = tokens[n]
  <2> HIDE DEF old
  <2>1. PICK t \in Nat : t = now BY DEF TimeOK
  <2>2. PICK v : v = old OBVIOUS
  <2>3. tokens' = [n \in DOMAIN tokens |->
                     IF n = v THEN [tokens[n] EXCEPT !.replaced = t] ELSE tokens[n]]
    BY <1>2, <2>1, <2>2
  <2>4. /\ tokens' \in Seq(Entry) /\ Issued' = Issued
        /\ \A n \in Issued \ {v} : tokens'[n] = tokens[n]
    BY <2>3, Replaced
  <2> QED BY <2>2, <2>4
<1>4. /\ callback'[h].pc = "delete"
      /\ \A g \in Callbacks \ {h} : callback'[g] = callback[g]
      /\ CallbackOK'
  BY DEF CallbackOK, UpsertUser, Goto
<1>5. callback[h].pc = "upsert" /\ Holding(h) BY DEF UpsertUser, At, Holding
<1>6. TimeOK' /\ FetchOK' BY <1>1, <1>3 DEF TimeOK, FetchOK
<1>7. new \in Issued /\ NeverReplaced(new) /\ new # old BY <1>5 DEF HeldIsNew
<1>8. UserOK'
  BY <1>1, <1>3, <1>5, <1>7
    DEF UserOK, HeldExpiry, CallbackOK, NeverReplaced, RecordedExpiry
<1>9. HeldIsNew'
  BY <1>1, <1>3, <1>4, <1>5 DEF HeldIsNew, Holding, NeverReplaced
<1>10. HeldExpiry' BY <1>3, <1>4 DEF HeldExpiry, HeldIsNew, Holding, RecordedExpiry
<1>11. FetchedInTime'
  BY <1>1, <1>2, SentReplaced DEF FetchedInTime, FetchOK
<1>12. CachedInTime' BY <1>1, <1>2, SentReplaced DEF CachedInTime
<1> QED BY <1>4, <1>6, <1>8, <1>9, <1>10, <1>11, <1>12

(* Every step of a callback.                                                 *)
LEMMA CallbackKeeps ==
  ASSUME LoginInv, NEW h \in Callbacks, CallbackStep(h) PROVE LoginInv'
<1> USE DEF swiggyVars, gatewayVars
<1>1. CASE FindSession(h)
  BY <1>1, MovedOn DEF FindSession
<1>2. CASE Redeem(h) BY <1>2, RedeemKeeps
<1>3. CASE ReceiveToken(h) BY <1>3, ReceiveKeeps
<1>4. CASE UpsertUser(h) BY <1>4, UpsertKeeps
<1>5. CASE DeleteSession(h) BY <1>5, MovedOn DEF DeleteSession
<1>6. CASE Publish(h) BY <1>6, MovedOn DEF Publish
<1>7. CASE Fail(h) BY <1>7, MovedOn DEF Fail
<1> QED BY <1>1, <1>2, <1>3, <1>4, <1>5, <1>6, <1>7 DEF CallbackStep

(* Only a token in the vault is sent, and it is cached without delay.        *)
LEMMA FetchKeeps == ASSUME LoginInv, NEW f \in Fetches, FetchStep(f) PROVE LoginInv'
<1> USE DEF LoginInv
<1>1. UNCHANGED <<now, tokens, user, callback>>
  BY DEF FetchStep, Miss, Ask, Store, FetchFails, swiggyVars
<1>2. TimeOK' /\ CallbackOK' /\ HeldIsNew' /\ HeldExpiry' /\ UserOK'
  BY <1>1 DEF TimeOK, CallbackOK, HeldIsNew, HeldExpiry, UserOK, Holding,
    Issued, NeverReplaced, RecordedExpiry
<1>3. ASSUME NEW d \in [pc : FetchPcs, token : Nat, sent : Nat],
             fetch' = [fetch EXCEPT ![f] = d],
             d.pc = "store" => d.sent <= now /\ SentInTime(d.token, d.sent)
      PROVE  FetchOK' /\ FetchedInTime'
  BY <1>1, <1>3 DEF FetchOK, FetchedInTime, SentInTime, Issued, NeverReplaced, RecordedExpiry
<1>4. UNCHANGED cache => CachedInTime'
  BY <1>1 DEF CachedInTime, SentInTime, Issued, NeverReplaced, RecordedExpiry
<1>5. now \in Nat /\ fetch[f] \in [pc : FetchPcs, token : Nat, sent : Nat]
  BY DEF TimeOK, FetchOK
<1>6. CASE Miss(f)
  <2> DEFINE d == [fetch[f] EXCEPT !.pc = "ask"]
  <2>1. /\ d \in [pc : FetchPcs, token : Nat, sent : Nat] /\ d.pc # "store"
        /\ fetch' = [fetch EXCEPT ![f] = d]
    BY <1>5, <1>6 DEF Miss, FetchGoto, FetchOK
  <2>2. FetchOK' /\ FetchedInTime' BY <2>1, <1>3
  <2> QED BY <1>2, <1>4, <1>6, <2>2 DEF Miss
<1>7. CASE Ask(f)
  <2>1. CASE user.token # 0 /\ now <= user.until
    <3> DEFINE d == [pc |-> "store", token |-> user.token, sent |-> now]
    <3>1. fetch' = [fetch EXCEPT ![f] = d] BY <1>7, <2>1 DEF Ask
    <3>2. SentInTime(user.token, now) BY <2>1 DEF SentInTime, UserOK
    <3>3. d \in [pc : FetchPcs, token : Nat, sent : Nat] /\ d.sent <= now
      BY <1>5 DEF UserOK
    <3>4. FetchOK' /\ FetchedInTime' BY <3>1, <3>2, <3>3, <1>3
    <3> QED BY <1>2, <1>4, <1>7, <3>4 DEF Ask
  <2>2. CASE ~(user.token # 0 /\ now <= user.until)
    <3>1. fetch' = [fetch EXCEPT ![f] = [pc |-> "get", token |-> 0, sent |-> 0]]
      BY <1>7, <2>2 DEF Ask
    <3>2. FetchOK' /\ FetchedInTime' BY <3>1, <1>3
    <3> QED BY <1>2, <1>4, <1>7, <3>2 DEF Ask
  <2> QED BY <2>1, <2>2
<1>8. CASE Store(f)
  <2>1. FetchOK' /\ FetchedInTime' BY <1>3, <1>8 DEF Store
  <2>2. /\ fetch[f].sent \in Nat /\ fetch[f].sent <= now
        /\ SentInTime(fetch[f].token, fetch[f].sent)
    BY <1>5, <1>8 DEF Store, FetchedInTime
  <2>3. \A t, sent : SentInTime(t, sent) => SentInTime(t, sent)'
    BY <1>1 DEF SentInTime, Issued, NeverReplaced, RecordedExpiry
  <2>4. cache'.until = (fetch[f].sent + cache'.lag) + CACHE_TTL
    BY <1>5, <1>8, <2>2, LoginConstants DEF Store
  <2>5. cache' \in [token : Nat, until : Int, lag : Int] /\ cache'.token = fetch[f].token
    BY <1>5, <1>8, <2>2, LoginConstants DEF Store
  <2>6. CachedInTime'
    BY <1>1, <2>2, <2>3, <2>4, <2>5 DEF CachedInTime
  <2> QED BY <1>2, <2>1, <2>6
<1>9. CASE FetchFails(f)
  <2>1. FetchOK' /\ FetchedInTime' BY <1>3, <1>9 DEF FetchFails
  <2> QED BY <1>2, <1>4, <1>9, <2>1 DEF FetchFails
<1> QED BY <1>6, <1>7, <1>8, <1>9 DEF FetchStep

(* The invariant holds.                                                      *)
LEMMA InvHolds == Spec => []LoginInv
<1>1. Init => LoginInv BY InvInit
<1>2. LoginInv /\ [Next]_loginVars => LoginInv'
  <2> SUFFICES ASSUME LoginInv, [Next]_loginVars PROVE LoginInv' OBVIOUS
  <2> USE DEF swiggyVars, gatewayVars
  <2>1. CASE Tick BY <2>1, TickKeeps
  <2>2. CASE SweepExpiredSessions BY <2>2, SamePlaces DEF SweepExpiredSessions
  <2>3. ASSUME NEW s \in Sessions, StartPkceFlow(s) \/ Refresh(s) PROVE LoginInv'
    BY <2>3, SamePlaces DEF StartPkceFlow, Refresh
  <2>4. ASSUME NEW h \in Callbacks, CallbackStep(h) PROVE LoginInv'
    BY <2>4, CallbackKeeps
  <2>5. ASSUME NEW f \in Fetches, FetchStep(f) PROVE LoginInv' BY <2>5, FetchKeeps
  <2>6. CASE UNCHANGED loginVars BY <2>6, SamePlaces DEF loginVars
  <2> QED BY <2>1, <2>2, <2>3, <2>4, <2>5, <2>6 DEF Next
<1> QED BY <1>1, <1>2, PTL DEF Spec

(* What refresh calls valid, Swiggy accepts, whatever logins overlap and     *)
(* however late answers are: only an answer of Swiggy's that took longer     *)
(* than the threshold makes a difference.                                    *)
THEOREM ValidTokenIsGood == Spec => []ValidIsValid
<1>1. LoginInv => ValidIsValid
  <2>0. LoginInv /\ StillValid =>
          tokens[user.token].late \in Int /\ REAUTH_THRESHOLD \in Int
    BY TokenIs, LoginConstants DEF LoginInv, StillValid, UserOK
  <2> SUFFICES ASSUME LoginInv, StillValid, tokens[user.token].late <= REAUTH_THRESHOLD
               PROVE  now < tokens[user.token].expiry
    BY <2>0 DEF ValidIsValid
  <2>1. /\ user.until - now > REAUTH_THRESHOLD /\ now \in Nat /\ user.until \in Int
        /\ user.until = tokens[user.token].expiry + tokens[user.token].late
        /\ tokens[user.token].expiry \in Int /\ tokens[user.token].late \in Int
    BY TokenIs DEF LoginInv, StillValid, UserOK, TimeOK, RecordedExpiry
  <2> QED BY <2>1, LoginConstants
<1> QED BY <1>1, InvHolds, PTL

(* The gateway forgets a replaced or expired token in bounded time, however  *)
(* late the answers that brought it were.                                    *)
THEOREM StaleTokenForgotten == Spec => []StaleTokenBounded
<1>1. LoginInv => StaleTokenBounded
  <2> SUFFICES ASSUME LoginInv, Cached
               PROVE  LET t == tokens[cache.token]
                      IN /\ t.replaced = 0 \/ now < t.replaced + cache.lag + CACHE_TTL
                         /\ now < t.expiry + t.late + cache.lag + CACHE_TTL
    BY DEF StaleTokenBounded
  <2>1. PICK sent \in Nat : /\ SentInTime(cache.token, sent)
                            /\ cache.until = sent + cache.lag + CACHE_TTL
    BY DEF LoginInv, CachedInTime, Cached
  <2>2. /\ now \in Nat /\ cache.until \in Int /\ cache.lag \in Int
        /\ now < cache.until
    BY DEF LoginInv, TimeOK, CachedInTime, Cached
  <2>3. /\ tokens[cache.token].expiry \in Int /\ tokens[cache.token].late \in Int
        /\ tokens[cache.token].replaced \in Nat
    BY <2>1, TokenIs DEF LoginInv, SentInTime
  <2>4. /\ NeverReplaced(cache.token) \/ sent <= tokens[cache.token].replaced
        /\ sent <= tokens[cache.token].expiry + tokens[cache.token].late
    BY <2>1 DEF SentInTime, LoginInv, UserOK, Cached, RecordedExpiry
  <2> QED BY <2>1, <2>2, <2>3, <2>4, LoginConstants DEF NeverReplaced
<1> QED BY <1>1, InvHolds, PTL

-----------------------------------------------------------------------------
(* The rows of the sessions.                                                 *)
PendingOK == pending \in [Sessions -> Nat] /\ now \in Nat

(* A callback that has a token has had its code exchanged.                   *)
Exchanged ==
  \A h \in Callbacks :
    callback[h].pc \in {"answer", "upsert", "delete"} => callback[h].state \in redeemed

(* Only an exchange gives a callback a token.                                *)
LEMMA ExchangedStep ==
  ASSUME LoginInv, Exchanged, [Next]_loginVars PROVE Exchanged'
<1> USE DEF Exchanged, swiggyVars, gatewayVars, sessionVars, At
<1>0. CallbackOK BY DEF LoginInv
<1>1. ASSUME NEW h \in Callbacks, Redeem(h) PROVE Exchanged'
  <2>1. CASE Goto(h, "refused") /\ UNCHANGED swiggyVars
    BY <1>0, <2>1 DEF Goto, CallbackOK
  <2>2. CASE /\ redeemed' = redeemed \union {callback[h].state}
             /\ callback' = [callback EXCEPT ![h].pc = "answer",
                                             ![h].got.token = Len(tokens')]
    BY <1>0, <2>2 DEF CallbackOK
  <2> QED BY <1>1, <2>1, <2>2 DEF Redeem
<1>2. ASSUME NEW h \in Callbacks,
             ReceiveToken(h) \/ UpsertUser(h) \/ DeleteSession(h) \/ Publish(h)
      PROVE  Exchanged'
  BY <1>0, <1>2 DEF ReceiveToken, UpsertUser, DeleteSession, Publish, Goto, CallbackOK
<1>3. ASSUME NEW h \in Callbacks, FindSession(h) \/ Fail(h) PROVE Exchanged'
  BY <1>0, <1>3 DEF FindSession, Fail, Goto, CallbackOK
<1>4. CASE UNCHANGED <<callback, redeemed>> BY <1>4
<1> QED
  BY <1>1, <1>2, <1>3, <1>4 DEF Next, Tick, SweepExpiredSessions, StartPkceFlow,
    Refresh, CallbackStep, FetchStep, Miss, Ask, Store, FetchFails, loginVars

(* Who removes a session.                                                    *)
LEMMA SessionGone ==
  ASSUME PendingOK, Exchanged, [Next]_loginVars, NEW s \in Sessions,
         pending[s] # 0, pending'[s] = 0
  PROVE  pending[s] < now \/ s \in redeemed
<1> USE DEF PendingOK
<1>1. ASSUME NEW r \in Sessions, StartPkceFlow(r) PROVE pending[s] < now
  <2>1. pending'[s] = Swept[s] \/ pending'[s] = now + PENDING_SESSION_TTL
    BY <1>1 DEF StartPkceFlow, Swept
  <2> QED BY <2>1, LoginConstants DEF Swept, Live
<1>2. CASE SweepExpiredSessions BY <1>2 DEF SweepExpiredSessions, Swept, Live
<1>3. ASSUME NEW h \in Callbacks, FindSession(h) PROVE pending[s] < now
  BY <1>3 DEF FindSession, Drop, Live
<1>4. ASSUME NEW h \in Callbacks, DeleteSession(h) PROVE s \in redeemed
  BY <1>4 DEF DeleteSession, Drop, Exchanged, At
<1> QED
  BY <1>1, <1>2, <1>3, <1>4 DEF Next, Tick, Refresh, CallbackStep, Redeem,
    ReceiveToken, UpsertUser, Publish, Fail, FetchStep, Miss, Ask, Store,
    FetchFails, loginVars, sessionVars

(* The rows keep their types.                                                *)
LEMMA PendingStep ==
  ASSUME PendingOK, [Next]_loginVars PROVE PendingOK'
<1> USE DEF PendingOK
<1>1. Swept \in [Sessions -> Nat] BY DEF Swept
<1>2. ASSUME NEW r \in Sessions, StartPkceFlow(r) PROVE PendingOK'
  BY <1>1, <1>2, LoginConstants DEF StartPkceFlow
<1>3. CASE SweepExpiredSessions BY <1>1, <1>3 DEF SweepExpiredSessions
<1>4. ASSUME NEW h \in Callbacks, FindSession(h) \/ DeleteSession(h) PROVE PendingOK'
  BY <1>4 DEF FindSession, DeleteSession, Drop
<1>5. CASE Tick BY <1>5 DEF Tick, sessionVars
<1> QED
  BY <1>2, <1>3, <1>4, <1>5 DEF Next, Refresh, CallbackStep, Redeem,
    ReceiveToken, UpsertUser, Publish, Fail, FetchStep, Miss, Ask, Store,
    FetchFails, loginVars, sessionVars

(* A login that failed before its code was exchanged can be taken up again:  *)
(* nothing removes its session before its time is over.                      *)
THEOREM SessionKept == Spec => SessionKeptUntilExchanged
<1>1. Init => PendingOK /\ Exchanged
  <2> SUFFICES ASSUME Init PROVE PendingOK /\ Exchanged OBVIOUS
  <2>1. \A h \in Callbacks : callback[h].pc = "find" BY DEF Init
  <2> QED BY <2>1 DEF Init, PendingOK, Exchanged
<1>2. PendingOK /\ [Next]_loginVars => PendingOK' BY PendingStep
<1>3. LoginInv /\ Exchanged /\ [Next]_loginVars => Exchanged' BY ExchangedStep
<1>4. PendingOK /\ Exchanged /\ [Next]_loginVars
        => [\A s \in Sessions :
              pending[s] # 0 /\ pending'[s] = 0
                => pending[s] < now \/ s \in redeemed]_loginVars
  BY SessionGone
<1> QED BY <1>1, <1>2, <1>3, <1>4, InvHolds, PTL DEF Spec, SessionKeptUntilExchanged

-----------------------------------------------------------------------------
(* Types.  Only a state that was given out is exchanged.                     *)
StatesStarted ==
  /\ pending \in [Sessions -> Nat] /\ redeemed \subseteq started
  /\ \A s \in Sessions : pending[s] # 0 => s \in started
  /\ \A h \in Callbacks : At(h, "request") => callback[h].state \in started

(* Each callback has a token of its own, or none.                            *)
GotOwn ==
  \A h \in Callbacks :
    /\ callback[h].got.token \in Tokens
    /\ \A g \in Callbacks \ {h} :
         callback[g].got.token # 0 => callback[g].got.token # callback[h].got.token

(* A fetch has a token only between Ask and Store.                           *)
FetchEmpty == \A f \in Fetches : fetch[f].pc # "store" => fetch[f].token = 0

LoginTypes == now \in 1..MaxTime /\ StatesStarted /\ GotOwn /\ FetchEmpty

(* A callback's token stays, but for the one that Swiggy issues next.        *)
LEMMA GotIs ==
  ASSUME LoginInv, [Next]_loginVars
  PROVE  \/ /\ Len(tokens') = Len(tokens)
            /\ \A h \in Callbacks : callback'[h].got.token = callback[h].got.token
         \/ /\ Len(tokens') = Len(tokens) + 1
            /\ \E h \in Callbacks :
                 /\ callback'[h].got.token = Len(tokens) + 1
                 /\ \A g \in Callbacks \ {h} : callback'[g] = callback[g]
<1> USE DEF swiggyVars, gatewayVars, sessionVars
<1>0. TimeOK /\ CallbackOK BY DEF LoginInv
<1>a. ASSUME NEW h \in Callbacks, NEW pc, Goto(h, pc)
      PROVE  \A g \in Callbacks : callback'[g].got.token = callback[g].got.token
  BY <1>0, <1>a DEF Goto, CallbackOK
<1>1. ASSUME NEW h \in Callbacks, Redeem(h), ~UNCHANGED tokens
      PROVE  /\ Len(tokens') = Len(tokens) + 1
             /\ callback'[h].got.token = Len(tokens) + 1
             /\ \A g \in Callbacks \ {h} : callback'[g] = callback[g]
  <2>1. PICK e : e = now + ExpiresIn OBVIOUS
  <2>2. e \in Int BY <1>0, <2>1, LoginConstants DEF TimeOK
  <2>3. tokens' = Append(tokens, [expiry |-> e, late |-> 0, replaced |-> 0])
    BY <1>1, <2>1 DEF Redeem
  <2>4. Len(tokens') = Len(tokens) + 1 BY <1>0, <2>2, <2>3, Appended
  <2>5. callback' = [callback EXCEPT ![h].pc = "answer", ![h].got.token = Len(tokens')]
    BY <1>1 DEF Redeem
  <2>6. QED BY <1>0, <2>4, <2>5 DEF CallbackOK
<1>2. ASSUME NEW h \in Callbacks, Redeem(h), UNCHANGED tokens
      PROVE  \A g \in Callbacks : callback'[g].got.token = callback[g].got.token
  <2>1. CASE Goto(h, "refused") BY <1>a, <2>1
  <2>2. CASE tokens' = Append(tokens, [expiry |-> now + ExpiresIn, late |-> 0, replaced |-> 0])
    <3>1. PICK e : e = now + ExpiresIn OBVIOUS
    <3>2. e \in Int BY <1>0, <3>1, LoginConstants DEF TimeOK
    <3>3. Len(tokens') = Len(tokens) + 1 /\ Len(tokens) \in Nat
      BY <1>0, <2>2, <3>1, <3>2, Appended
    <3>4. QED BY <1>2, <3>3
  <2>3. QED BY <1>2, <2>1, <2>2 DEF Redeem
<1>3. ASSUME NEW h \in Callbacks, ReceiveToken(h)
      PROVE  /\ Len(tokens') = Len(tokens)
             /\ \A g \in Callbacks : callback'[g].got.token = callback[g].got.token
  <2>1. PICK v : v = callback[h].got.token OBVIOUS
  <2>2. PICK u : u = now + ExpiresIn OBVIOUS
  <2>3. tokens' = [n \in DOMAIN tokens |->
                     IF n = v THEN [tokens[n] EXCEPT !.late = u - tokens[n].expiry]
                     ELSE tokens[n]]
    BY <1>3, <2>1, <2>2 DEF ReceiveToken
  <2>4. u \in Int BY <1>0, <2>2, LoginConstants DEF TimeOK
  <2>5. Len(tokens') = Len(tokens) BY ONLY <1>0, <2>3, <2>4, Heard
  <2>6. QED BY <1>0, <1>3, <2>5 DEF ReceiveToken, CallbackOK
<1>4. ASSUME NEW h \in Callbacks, UpsertUser(h)
      PROVE  /\ Len(tokens') = Len(tokens)
             /\ \A g \in Callbacks : callback'[g].got.token = callback[g].got.token
  <2>1. PICK v : v = user.token OBVIOUS
  <2>2. PICK t : t = now OBVIOUS
  <2>3. tokens' = [n \in DOMAIN tokens |->
                     IF n = v THEN [tokens[n] EXCEPT !.replaced = t] ELSE tokens[n]]
    BY <1>4, <2>1, <2>2 DEF UpsertUser
  <2>4. t \in Nat BY <1>0, <2>2 DEF TimeOK
  <2>5. Len(tokens') = Len(tokens) BY ONLY <1>0, <2>3, <2>4, Replaced
  <2>6. QED BY <1>4, <1>a, <2>5 DEF UpsertUser
<1>5. ASSUME NEW h \in Callbacks,
             FindSession(h) \/ DeleteSession(h) \/ Publish(h) \/ Fail(h)
      PROVE  /\ tokens' = tokens
             /\ \A g \in Callbacks : callback'[g].got.token = callback[g].got.token
  BY <1>5, <1>a DEF FindSession, DeleteSession, Publish, Fail
<1>6. ASSUME NEW f \in Fetches, FetchStep(f) PROVE UNCHANGED <<tokens, callback>>
  BY <1>6 DEF FetchStep, Miss, Ask, Store, FetchFails
<1>7. ASSUME \/ Tick \/ SweepExpiredSessions \/ UNCHANGED loginVars
             \/ \E s \in Sessions : StartPkceFlow(s) \/ Refresh(s)
      PROVE  UNCHANGED <<tokens, callback>>
  BY <1>7 DEF Tick, SweepExpiredSessions, loginVars, StartPkceFlow, Refresh
<1>8. QED BY <1>1, <1>2, <1>3, <1>4, <1>5, <1>6, <1>7 DEF Next, CallbackStep

(* So no two callbacks are ever given one token.                             *)
LEMMA GotOwnStep == ASSUME LoginInv, GotOwn, [Next]_loginVars PROVE GotOwn'
<1>1. Len(tokens) \in Nat BY DEF LoginInv, TimeOK
<1>2. CASE /\ Len(tokens') = Len(tokens)
           /\ \A h \in Callbacks : callback'[h].got.token = callback[h].got.token
  BY <1>2 DEF GotOwn, Tokens
<1>3. CASE /\ Len(tokens') = Len(tokens) + 1
           /\ \E h \in Callbacks :
                /\ callback'[h].got.token = Len(tokens) + 1
                /\ \A g \in Callbacks \ {h} : callback'[g] = callback[g]
  <2>1. PICK h \in Callbacks : /\ callback'[h].got.token = Len(tokens) + 1
                               /\ \A g \in Callbacks \ {h} : callback'[g] = callback[g]
    BY <1>3
  <2>2. \A g \in Callbacks \ {h} : callback'[g].got.token \in 0..Len(tokens)
    BY <2>1 DEF GotOwn, Tokens
  <2>3. QED BY <1>1, <1>3, <2>1, <2>2 DEF GotOwn, Tokens
<1>4. QED BY <1>2, <1>3, GotIs

(* The rows of the sessions have been given out, and so have the states of   *)
(* the callbacks that were let through.                                      *)
LEMMA StatesStep ==
  ASSUME LoginInv, PendingOK, StatesStarted, [Next]_loginVars PROVE StatesStarted'
<1> USE DEF swiggyVars, gatewayVars, sessionVars, StatesStarted, At
<1>0. CallbackOK BY DEF LoginInv
<1>a. pending' \in [Sessions -> Nat] BY PendingStep DEF PendingOK
<1>b. ASSUME NEW h \in Callbacks, NEW pc, Goto(h, pc)
      PROVE  /\ \A g \in Callbacks : callback'[g].state = callback[g].state
             /\ callback'[h].pc = pc
             /\ \A g \in Callbacks \ {h} : callback'[g].pc = callback[g].pc
  BY <1>0, <1>b DEF Goto, CallbackOK
<1>1. ASSUME NEW s \in Sessions, StartPkceFlow(s) PROVE StatesStarted'
  BY <1>a, <1>1 DEF StartPkceFlow, Swept
<1>2. CASE SweepExpiredSessions BY <1>a, <1>2 DEF SweepExpiredSessions, Swept
<1>3. ASSUME NEW h \in Callbacks, FindSession(h) PROVE StatesStarted'
  <2>1. /\ callback[h].state \in Sessions
        /\ Live(callback[h].state) => callback[h].state \in started
    BY <1>0 DEF CallbackOK, Live
  <2>2. /\ \A s \in Sessions : pending'[s] # 0 => pending[s] # 0
        /\ UNCHANGED <<started, redeemed>>
    BY <1>3 DEF FindSession, Drop
  <2>3. \/ Goto(h, "refused")
        \/ Goto(h, "request") /\ callback[h].state \in started
    BY <1>3, <2>1 DEF FindSession
  <2>4. QED BY <1>a, <1>b, <2>2, <2>3
<1>4. ASSUME NEW h \in Callbacks, Redeem(h) PROVE StatesStarted'
  <2>1. CASE Goto(h, "refused") /\ UNCHANGED swiggyVars
    BY <1>4, <1>b, <2>1 DEF Redeem
  <2>2. CASE /\ redeemed' = redeemed \union {callback[h].state}
             /\ callback' = [callback EXCEPT ![h].pc = "answer",
                                             ![h].got.token = Len(tokens')]
    <3>1. \A g \in Callbacks : callback'[g].pc = "request" =>
            callback[g].pc = "request" /\ callback'[g].state = callback[g].state
      BY <1>0, <2>2 DEF CallbackOK
    <3>2. UNCHANGED <<pending, started>> /\ callback[h].state \in started
      BY <1>4 DEF Redeem
    <3>3. redeemed' \subseteq started' BY <2>2, <3>2
    <3>4. \A g \in Callbacks : callback'[g].pc = "request" => callback'[g].state \in started'
      BY <3>1, <3>2
    <3>5. QED BY <1>a, <3>2, <3>3, <3>4
  <2>3. QED BY <1>4, <2>1, <2>2 DEF Redeem
<1>5. ASSUME NEW h \in Callbacks, ReceiveToken(h) PROVE StatesStarted'
  <2>1. \A g \in Callbacks : callback'[g].pc = "request" =>
          callback[g].pc = "request" /\ callback'[g].state = callback[g].state
    BY <1>0, <1>5 DEF CallbackOK, ReceiveToken
  <2>2. UNCHANGED <<pending, started, redeemed>> BY <1>5 DEF ReceiveToken
  <2>3. QED BY <1>a, <2>1, <2>2
<1>6. ASSUME NEW h \in Callbacks, NEW pc, Goto(h, pc), pc # "request",
             UNCHANGED <<started, redeemed>>,
             \A s \in Sessions : pending'[s] # 0 => pending[s] # 0
      PROVE  StatesStarted'
  BY <1>a, <1>b, <1>6
<1>7. ASSUME NEW h \in Callbacks, UpsertUser(h) \/ DeleteSession(h) \/ Publish(h) \/ Fail(h)
      PROVE  StatesStarted'
  BY <1>6, <1>7 DEF UpsertUser, DeleteSession, Publish, Fail, Drop
<1>8. ASSUME \/ Tick \/ UNCHANGED loginVars \/ \E f \in Fetches : FetchStep(f)
      PROVE  StatesStarted'
  BY <1>8 DEF Tick, loginVars, FetchStep, Miss, Ask, Store, FetchFails
<1>9. QED
  BY <1>1, <1>2, <1>3, <1>4, <1>5, <1>7, <1>8 DEF Next, Refresh, CallbackStep

(* A fetch that is over has forgotten its token.                             *)
LEMMA FetchStepEmpty ==
  ASSUME LoginInv, FetchEmpty, [Next]_loginVars PROVE FetchEmpty'
<1> USE DEF FetchEmpty
<1>1. FetchOK BY DEF LoginInv
<1>2. ASSUME NEW f \in Fetches, FetchStep(f) PROVE FetchEmpty'
  BY <1>1, <1>2 DEF FetchOK, FetchStep, Miss, FetchGoto, Ask, Store, FetchFails
<1>3. CASE UNCHANGED fetch BY <1>3
<1>4. QED
  BY <1>2, <1>3 DEF Next, Tick, SweepExpiredSessions, StartPkceFlow, Refresh, CallbackStep,
    FindSession, Redeem, ReceiveToken, UpsertUser, DeleteSession, Publish, Fail, loginVars,
    gatewayVars

(* Type correctness: only states that were given out are exchanged, and no   *)
(* two callbacks -- of a browser that delivers its code twice, or of two     *)
(* logins -- are given one token.                                            *)
THEOREM LoginTypeCorrect == Spec => []TypeOK
<1>1. Init => LoginTypes
  <2> SUFFICES ASSUME Init PROVE LoginTypes OBVIOUS
  <2>1. \A h \in Callbacks : callback[h].pc = "find" /\ callback[h].got = NoToken
    BY DEF Init
  <2>2. GotOwn BY <2>1 DEF Init, GotOwn, Tokens, NoToken
  <2>3. StatesStarted BY <2>1 DEF Init, StatesStarted, At
  <2>4. FetchEmpty BY DEF Init, FetchEmpty
  <2>5. now \in 1..MaxTime BY LoginConstants DEF Init
  <2>6. QED BY <2>2, <2>3, <2>4, <2>5 DEF LoginTypes
<1>2. LoginInv /\ LoginTypes /\ [Next]_loginVars => LoginTypes'
  <2> SUFFICES ASSUME LoginInv, LoginTypes, [Next]_loginVars PROVE LoginTypes' OBVIOUS
  <2>1. PendingOK BY DEF LoginInv, TimeOK, LoginTypes, StatesStarted, PendingOK
  <2>2. now' = now \/ (now < MaxTime /\ now' = now + 1)
    BY DEF Next, Tick, SweepExpiredSessions, StartPkceFlow, Refresh, CallbackStep,
      FindSession, Redeem, ReceiveToken, UpsertUser, DeleteSession, Publish, Fail,
      FetchStep, Miss, Ask, Store, FetchFails, loginVars
  <2>3. now' \in 1..MaxTime BY <2>2, LoginConstants DEF LoginTypes
  <2>4. QED BY <2>1, <2>3, StatesStep, GotOwnStep, FetchStepEmpty DEF LoginTypes
<1>3. LoginInv /\ LoginTypes => TypeOK
  <2> SUFFICES ASSUME LoginInv, LoginTypes PROVE TypeOK OBVIOUS
  <2>0. Len(tokens) \in Nat BY DEF LoginInv, TimeOK
  <2>1. user.token \in Tokens BY <2>0 DEF LoginInv, UserOK, Issued, Tokens
  <2>2. cache.token \in Tokens
    BY <2>0 DEF LoginInv, CachedInTime, SentInTime, Issued, Tokens
  <2>3. \A f \in Fetches : fetch[f].token \in Tokens
    BY <2>0 DEF LoginInv, LoginTypes, FetchOK, FetchEmpty, FetchedInTime, SentInTime, Issued,
      Tokens
  <2>4. QED BY <2>1, <2>2, <2>3 DEF LoginTypes, StatesStarted, GotOwn, TypeOK
<1>4. QED BY <1>1, <1>2, <1>3, InvHolds, PTL DEF Spec
=============================================================================
