---------------------------- MODULE WalletProofs ----------------------------
(***************************************************************************)
(* Theorems about Wallet, for every set of connections, amounts and cycle   *)
(* length.                                                                  *)
(***************************************************************************)
EXTENDS Wallet, TLAPS

(* A column may be given any value of its type.                              *)
LEMMA ColumnType ==
  ASSUME NEW r \in Row
  PROVE  /\ [r EXCEPT !.present = TRUE] \in Row
         /\ \A x \in Int : [r EXCEPT !.currentBalance = x] \in Row
         /\ \A x \in Int : [r EXCEPT !.reservedAmount = x] \in Row
         /\ \A d \in 0..CYCLE_DAYS : [r EXCEPT !.daysLeft = d] \in Row
         /\ \A x \in Int : [r EXCEPT !.dailyAvgLimit = x] \in Row
<1>1. [r EXCEPT !.present = TRUE] \in Row BY DEF Row
<1>2. \A x \in Int : [r EXCEPT !.currentBalance = x] \in Row BY DEF Row
<1>3. \A x \in Int : [r EXCEPT !.reservedAmount = x] \in Row BY DEF Row
<1>4. \A d \in 0..CYCLE_DAYS : [r EXCEPT !.daysLeft = d] \in Row BY DEF Row
<1>5. \A x \in Int : [r EXCEPT !.dailyAvgLimit = x] \in Row BY DEF Row
<1>6. QED BY <1>1, <1>2, <1>3, <1>4, <1>5

(* An update built from well-typed rows by an admitted operation is a        *)
(* well-typed row.                                                           *)
LEMMA UpdateType ==
  ASSUME NEW op \in MoneyOps \union PlanOps,
         NEW read \in Row, NEW now \in Row, NEW a \in Nat,
         op = "tick" => read.daysLeft > 0
  PROVE  Update(op, read, now, a) \in Row
<1>1. /\ read.currentBalance \in Int /\ read.reservedAmount \in Int
      /\ read.daysLeft \in 0..CYCLE_DAYS
  BY DEF Row
<1>2. Debited(read, now, a) \in Row
  <2>1. read.currentBalance - a \in Int BY <1>1
  <2>2. QED BY <2>1, ColumnType DEF Debited
<1>3. Reserved(read, now, a) \in Row
  <2>1. read.reservedAmount + a \in Int BY <1>1
  <2>2. QED BY <2>1, ColumnType DEF Reserved
<1>4. Released(read, now, a) \in Row
  <2>1. read.reservedAmount - a \in Int BY <1>1
  <2>2. QED BY <2>1, ColumnType DEF Released
<1>5. Captured(read, now, a) \in Row
  <2> DEFINE b == read.currentBalance - a
             h == read.reservedAmount - a
             paid == [now EXCEPT !.currentBalance = b]
  <2>1. b \in Int /\ h \in Int BY <1>1
  <2>2. paid \in Row BY <2>1, ColumnType
  <2>3. [paid EXCEPT !.reservedAmount = h] \in Row BY <2>1, <2>2, ColumnType
  <2>4. QED BY <2>3 DEF Captured
<1>6. CASE op = "tick"
  <2> DEFINE d == read.daysLeft - 1
             s == Share(read.currentBalance, d)
             later == [now EXCEPT !.daysLeft = d]
  <2>1. d \in 0..CYCLE_DAYS BY <1>1, <1>6, WalletConstants
  <2>2. s \in Int BY <1>1, <2>1, WalletConstants DEF Share
  <2>3. later \in Row BY <2>1, ColumnType
  <2>4. [later EXCEPT !.dailyAvgLimit = s] \in Row BY <2>2, <2>3, ColumnType
  <2>5. Ticked(read, now) \in Row BY <2>4 DEF Ticked
  <2>6. QED BY <1>6, <2>5 DEF Update
<1>7. Redistributed(read, now) \in Row
  <2> DEFINE n == IF read.daysLeft > 1 THEN read.daysLeft ELSE 1
  <2>1. n \in Nat /\ n > 0 BY <1>1, WalletConstants
  <2>2. read.currentBalance \div n \in Int BY <1>1, <2>1
  <2>3. QED BY <2>2, ColumnType DEF Redistributed
<1>8. QED BY <1>2, <1>3, <1>4, <1>5, <1>6, <1>7 DEF Update, MoneyOps, PlanOps

(* TypeOK is inductive together with what a transaction's check established  *)
(* about the row it read.                                                    *)
TickRead == \A t \in Txns : txn[t].op = "tick" => txn[t].read.daysLeft > 0

(* The row, the transactions and the answers keep their types, and daysLeft  *)
(* stays within the cycle however ticks and deposits interleave.             *)
THEOREM TypeCorrect == Spec => [](TypeOK /\ TickRead)
<1> USE WalletConstants DEF Txns
<1>1. Init => TypeOK /\ TickRead
  BY DEF Init, TypeOK, TickRead, NoRow, Row, Idle, NoAnswer
<1>2. TypeOK /\ TickRead /\ [Next]_vars => TypeOK' /\ TickRead'
  <2> SUFFICES ASSUME TypeOK, TickRead, [Next]_vars
               PROVE  TypeOK' /\ TickRead'
    OBVIOUS
  <2>0. Idle \in [op : MoneyOps \union PlanOps \union {"idle"},
                  amount : Nat, read : Row]
    BY DEF Idle, NoRow, Row
  <2>1. ASSUME NEW m \in MoneyTxns, NEW a \in Amounts, Deposit(m, a)
        PROVE  TypeOK' /\ TickRead'
    <3>1. /\ a \in Nat /\ a \in Int /\ CYCLE_DAYS \in 0..CYCLE_DAYS
          /\ a \div CYCLE_DAYS \in Int OBVIOUS
    <3>2. row' \in Row
      <4> DEFINE r1 == [row EXCEPT !.present = TRUE]
                 r2 == [r1 EXCEPT !.currentBalance = a]
                 r3 == [r2 EXCEPT !.daysLeft = CYCLE_DAYS]
                 r4 == [r3 EXCEPT !.dailyAvgLimit = a \div CYCLE_DAYS]
      <4>1. row \in Row BY DEF TypeOK
      <4>2. r1 \in Row BY <4>1, ColumnType
      <4>3. r2 \in Row BY <3>1, <4>2, ColumnType
      <4>4. r3 \in Row BY <3>1, <4>3, ColumnType
      <4>5. r4 \in Row BY <3>1, <4>4, ColumnType
      <4>6. row' = r4 BY <2>1 DEF Deposit
      <4>7. QED BY <4>5, <4>6
    <3>3. QED BY <2>1, <3>2 DEF Deposit, TypeOK, TickRead, Answer
  <2>2. ASSUME NEW m \in MoneyTxns, NEW a \in Amounts, NEW op \in MoneyOps,
               BeginMoney(m, op, a)
        PROVE  TypeOK' /\ TickRead'
    BY <2>2 DEF BeginMoney, TypeOK, TickRead, NoAnswer, MoneyOps
  <2>3. ASSUME NEW m \in MoneyTxns, NEW a \in Amounts, NEW op \in MoneyOps,
               Refuse(m, op, a)
        PROVE  TypeOK' /\ TickRead'
    BY <2>3 DEF Refuse, TypeOK, TickRead, Answer
  <2>4. ASSUME NEW t \in Txns, Write(t)
        PROVE  /\ row' \in Row
               /\ txn' \in [Txns -> [op : MoneyOps \union PlanOps \union {"idle"},
                                     amount : Nat, read : Row]]
               /\ TickRead'
               /\ \A m \in MoneyTxns : txn'[m].op \in MoneyOps \union {"idle"}
               /\ \A p \in PlanTxns : txn'[p].op \in PlanOps \union {"idle"}
    <3>1. row' \in Row BY <2>4, UpdateType DEF Write, TypeOK, TickRead
    <3>2. QED BY <2>0, <2>4, <3>1 DEF Write, TypeOK, TickRead, Idle
  <2>5. ASSUME NEW m \in MoneyTxns, CommitMoney(m)
        PROVE  TypeOK' /\ TickRead'
    <3>1. Write(m) BY <2>5 DEF CommitMoney
    <3>2. txn[m].op \in MoneyOps BY <3>1 DEF Write, TypeOK
    <3>3. QED BY <2>4, <2>5, <3>1, <3>2 DEF CommitMoney, TypeOK, Answer
  <2>6. ASSUME NEW p \in PlanTxns, NEW op \in PlanOps, BeginPlan(p, op)
        PROVE  TypeOK' /\ TickRead'
    BY <2>6 DEF BeginPlan, Admits, TypeOK, TickRead, PlanOps
  <2>7. ASSUME NEW p \in PlanTxns, CommitPlan(p)
        PROVE  TypeOK' /\ TickRead'
    BY <2>4, <2>7 DEF CommitPlan, TypeOK
  <2>8. ASSUME NEW t \in Txns, Abort(t)
        PROVE  TypeOK' /\ TickRead'
    BY <2>0, <2>8 DEF Abort, TypeOK, TickRead, Idle
  <2>9. CASE UNCHANGED vars
    BY <2>9 DEF vars, TypeOK, TickRead
  <2>10. QED
    BY <2>1, <2>2, <2>3, <2>5, <2>6, <2>7, <2>8, <2>9
    DEF Next, MoneyNext, PlanNext
<1>3. QED BY <1>1, <1>2, PTL DEF Spec

-----------------------------------------------------------------------------
(* What a capture's or a release's check established about the row it read:  *)
(* its write subtracts no more than the hold it looked at.  This is what     *)
(* makes HoldNeverNegative inductive: the write may overwrite another        *)
(* transaction's, yet the value it writes was computed from one row.         *)
HoldRead == \A t \in Txns :
              /\ txn[t].read.reservedAmount >= 0
              /\ txn[t].op \in {"capture", "release"} =>
                   txn[t].amount <= txn[t].read.reservedAmount

(* The hold never becomes a debt, whatever transactions overlap and whatever *)
(* updates are lost.                                                         *)
THEOREM HoldSafe == Spec => []HoldNeverNegative
<1> DEFINE IInv == HoldNeverNegative /\ HoldRead
<1> USE WalletConstants DEF Txns, HoldNeverNegative, HoldRead
<1>1. Init => IInv BY DEF Init, NoRow, Idle
<1>2. TypeOK /\ IInv /\ [Next]_vars => IInv'
  <2> SUFFICES ASSUME TypeOK, IInv, [Next]_vars PROVE IInv'
    OBVIOUS
  <2>1. ASSUME NEW m \in MoneyTxns, NEW a \in Amounts, Deposit(m, a)
        PROVE  IInv'
    BY <2>1 DEF Deposit, TypeOK, Row
  <2>2. ASSUME NEW m \in MoneyTxns, NEW a \in Amounts, NEW op \in MoneyOps,
               BeginMoney(m, op, a)
        PROVE  IInv'
    <3>1. op \in {"capture", "release"} => a <= row.reservedAmount
      BY <2>2 DEF BeginMoney, Admits
    <3>2. QED BY <2>2, <3>1 DEF BeginMoney, TypeOK
  <2>3. ASSUME NEW m \in MoneyTxns, NEW a \in Amounts, NEW op \in MoneyOps,
               Refuse(m, op, a)
        PROVE  IInv'
    BY <2>3 DEF Refuse
  <2>4. ASSUME NEW t \in Txns, Write(t) PROVE IInv'
    <3>1. row' = Update(txn[t].op, txn[t].read, row, txn[t].amount)
      BY <2>4 DEF Write
    <3>2. row \in Row /\ txn[t].read \in Row /\ txn[t].amount \in Nat
      BY DEF TypeOK
    <3>3. row'.reservedAmount >= 0
      BY <3>1, <3>2
      DEF Update, Row, Debited, Reserved, Captured, Released, Ticked, Redistributed
    <3>4. HoldRead' BY <2>4 DEF Write, TypeOK, Idle, NoRow
    <3>5. QED BY <3>3, <3>4
  <2>5. ASSUME NEW p \in PlanTxns, NEW op \in PlanOps, BeginPlan(p, op)
        PROVE  IInv'
    BY <2>5 DEF BeginPlan, PlanOps, TypeOK
  <2>6. ASSUME NEW t \in Txns, Abort(t) PROVE IInv'
    BY <2>6 DEF Abort, TypeOK, Idle, NoRow
  <2>7. CASE UNCHANGED vars BY <2>7 DEF vars
  <2>8. QED
    BY <2>1, <2>2, <2>3, <2>4, <2>5, <2>6, <2>7
    DEF Next, MoneyNext, PlanNext, CommitMoney, CommitPlan
<1>3. QED BY <1>1, <1>2, TypeCorrect, PTL DEF Spec

-----------------------------------------------------------------------------
(* An open money transaction was admitted on the row it read, which is there *)
(* for good; its caller has no answer yet.  Whether its read is still        *)
(* current, other connections decide.                                        *)
OpenIsAdmitted ==
  \A m \in MoneyTxns : txn[m].op # "idle" =>
    /\ row.present /\ txn[m].read.present
    /\ Admits(txn[m].op, txn[m].read, txn[m].amount)
    /\ txn[m].amount \in Amounts
    /\ answer[m] = NoAnswer

(* The row a plan update leaves agrees on the money columns.                 *)
LEMMA PlanUpdate ==
  ASSUME NEW op \in PlanOps, NEW read \in Row, NEW now \in Row, NEW a \in Nat
  PROVE  LET new == Update(op, read, now, a)
         IN  /\ new.present = now.present
             /\ new.currentBalance = now.currentBalance
             /\ new.reservedAmount = now.reservedAmount
  BY DEF Update, PlanOps, Row, Ticked, Redistributed

(* Whether a money operation is admitted depends on the money columns only.  *)
LEMMA MoneyAdmitsSame ==
  ASSUME NEW op \in MoneyOps, NEW r, NEW s, NEW a,
         r.present = s.present, r.currentBalance = s.currentBalance,
         r.reservedAmount = s.reservedAmount, Admits(op, r, a)
  PROVE  Admits(op, s, a)
  BY DEF Admits, MoneyOps

(* No update removes the row.                                                *)
LEMMA UpdateKeepsRow ==
  ASSUME NEW op \in MoneyOps \union PlanOps, NEW read \in Row, NEW now \in Row,
         NEW a \in Nat
  PROVE  Update(op, read, now, a).present = now.present
  BY DEF Update, MoneyOps, PlanOps, Row, Debited, Reserved, Captured, Released,
         Ticked, Redistributed

(* One step of the inductive invariant behind the atomicity theorem.         *)
LEMMA OpenIsAdmittedStep ==
  ASSUME TypeOK, OpenIsAdmitted, [Next]_vars
  PROVE  OpenIsAdmitted'
<1> USE WalletConstants DEF Txns, OpenIsAdmitted
<1>1. ASSUME NEW m \in MoneyTxns, NEW a \in Amounts, Deposit(m, a)
      PROVE  OpenIsAdmitted'
  BY <1>1 DEF Deposit, TypeOK, Row
<1>2. ASSUME NEW m \in MoneyTxns, NEW a \in Amounts, NEW op \in MoneyOps,
             BeginMoney(m, op, a)
      PROVE  OpenIsAdmitted'
  <2>1. row.present BY <1>2 DEF BeginMoney, Admits
  <2>2. QED BY <1>2, <2>1 DEF BeginMoney, TypeOK
<1>3. ASSUME NEW m \in MoneyTxns, NEW a \in Amounts, NEW op \in MoneyOps,
             Refuse(m, op, a)
      PROVE  OpenIsAdmitted'
  <2>1. /\ row' = row /\ txn' = txn /\ txn[m].op = "idle"
        /\ \A n \in MoneyTxns : n # m => answer'[n] = answer[n]
    BY <1>3 DEF Refuse, TypeOK
  <2>2. QED BY <2>1
<1>4. ASSUME NEW t \in Txns, Write(t)
      PROVE  /\ row'.present = row.present
             /\ txn' = [txn EXCEPT ![t] = Idle]
  BY <1>4, UpdateKeepsRow DEF Write, TypeOK
<1>5. ASSUME NEW m \in MoneyTxns, CommitMoney(m) PROVE OpenIsAdmitted'
  <2>1. /\ row'.present = row.present /\ txn' = [txn EXCEPT ![m] = Idle]
        /\ \A n \in MoneyTxns : n # m => answer'[n] = answer[n]
    BY <1>4, <1>5 DEF CommitMoney, TypeOK
  <2>2. QED BY <2>1 DEF TypeOK, Idle
<1>6. ASSUME NEW p \in PlanTxns, NEW op \in PlanOps, BeginPlan(p, op)
      PROVE  OpenIsAdmitted'
  BY <1>6 DEF BeginPlan, TypeOK
<1>7. ASSUME NEW p \in PlanTxns, CommitPlan(p) PROVE OpenIsAdmitted'
  <2>1. /\ row'.present = row.present /\ txn' = [txn EXCEPT ![p] = Idle]
        /\ answer' = answer
    BY <1>4, <1>7 DEF CommitPlan
  <2>2. QED BY <2>1 DEF TypeOK
<1>8. ASSUME NEW t \in Txns, Abort(t) PROVE OpenIsAdmitted'
  BY <1>8 DEF Abort, TypeOK, Idle
<1>9. CASE UNCHANGED vars BY <1>9 DEF vars, Admits
<1>10. QED
  BY <1>1, <1>2, <1>3, <1>5, <1>6, <1>7, <1>8, <1>9
  DEF Next, MoneyNext, PlanNext

-----------------------------------------------------------------------------
(* A money update computed from a row that agrees with the current one on    *)
(* the money columns moves the money exactly as the abstract operation does. *)
LEMMA MoneyUpdate ==
  ASSUME NEW op \in MoneyOps, NEW read \in Row, NEW now \in Row, NEW a \in Nat,
         read.currentBalance = now.currentBalance,
         read.reservedAmount = now.reservedAmount
  PROVE  LET new == Update(op, read, now, a)
             Moves(balance, hold) == /\ new.present = now.present
                                     /\ new.currentBalance = balance
                                     /\ new.reservedAmount = hold
         IN  /\ new.present = now.present
             /\ op = "debit" => Moves(now.currentBalance - a, now.reservedAmount)
             /\ op = "reserve" => Moves(now.currentBalance, now.reservedAmount + a)
             /\ op = "capture" => Moves(now.currentBalance - a, now.reservedAmount - a)
             /\ op = "release" => Moves(now.currentBalance, now.reservedAmount - a)
  BY DEF Update, MoneyOps, Row, Debited, Reserved, Captured, Released

(* What a commit does to the money columns when nobody has overtaken it.     *)
LEMMA CommitMoves ==
  ASSUME TypeOK, OpenIsAdmitted, NEW m \in MoneyTxns, CommitMoney(m),
         ~ReadIsStale(m)
  PROVE  LET op == txn[m].op
             a  == txn[m].amount
         IN  /\ op \in MoneyOps /\ a \in Amounts
             /\ row.present /\ Admits(op, row, a) /\ answer[m] = NoAnswer
             /\ answer' = [answer EXCEPT ![m] = Answer(op, a, TRUE)]
             /\ row'.present = row.present
             /\ op = "debit" => /\ row'.currentBalance = row.currentBalance - a
                                /\ row'.reservedAmount = row.reservedAmount
             /\ op = "reserve" => /\ row'.currentBalance = row.currentBalance
                                  /\ row'.reservedAmount = row.reservedAmount + a
             /\ op = "capture" => /\ row'.currentBalance = row.currentBalance - a
                                  /\ row'.reservedAmount = row.reservedAmount - a
             /\ op = "release" => /\ row'.currentBalance = row.currentBalance
                                  /\ row'.reservedAmount = row.reservedAmount - a
<1> DEFINE op == txn[m].op
           a  == txn[m].amount
<1>1. /\ op \in MoneyOps /\ txn[m].read \in Row /\ row \in Row
      /\ row' = Update(op, txn[m].read, row, a)
      /\ answer' = [answer EXCEPT ![m] = Answer(op, a, TRUE)]
  BY DEF CommitMoney, Write, TypeOK, Txns
<1>2. /\ row.present /\ a \in Amounts /\ Admits(op, row, a) /\ answer[m] = NoAnswer
      /\ txn[m].read.currentBalance = row.currentBalance
      /\ txn[m].read.reservedAmount = row.reservedAmount
  <2>1. /\ row.present /\ a \in Amounts /\ answer[m] = NoAnswer
        /\ txn[m].read.present /\ Admits(op, txn[m].read, a)
    BY DEF CommitMoney, Write, OpenIsAdmitted
  <2>2. row.present = txn[m].read.present
    BY <1>1, <2>1 DEF Row
  <2>3. /\ txn[m].read.currentBalance = row.currentBalance
        /\ txn[m].read.reservedAmount = row.reservedAmount
    BY DEF ReadIsStale
  <2>4. Admits(op, row, a)
    BY <1>1, <2>1, <2>2, <2>3, MoneyAdmitsSame
  <2>5. QED BY <2>1, <2>3, <2>4
<1>3. a \in Nat BY <1>2, WalletConstants
<1>4. row'.present = row.present BY <1>1, <1>2, <1>3, MoneyUpdate
<1>5. op = "debit" => /\ row'.currentBalance = row.currentBalance - a
                      /\ row'.reservedAmount = row.reservedAmount
  BY <1>1, <1>2, <1>3, MoneyUpdate
<1>6. op = "reserve" => /\ row'.currentBalance = row.currentBalance
                        /\ row'.reservedAmount = row.reservedAmount + a
  BY <1>1, <1>2, <1>3, MoneyUpdate
<1>7. op = "capture" => /\ row'.currentBalance = row.currentBalance - a
                        /\ row'.reservedAmount = row.reservedAmount - a
  BY <1>1, <1>2, <1>3, MoneyUpdate
<1>8. op = "release" => /\ row'.currentBalance = row.currentBalance
                        /\ row'.reservedAmount = row.reservedAmount - a
  BY <1>1, <1>2, <1>3, MoneyUpdate
<1>9. QED BY <1>1, <1>2, <1>4, <1>5, <1>6, <1>7, <1>8

(* Every step of Wallet is a step of AtomicWallet, leaves it unchanged, or   *)
(* loses an update.                                                          *)
LEMMA AtomicStep ==
  ASSUME TypeOK, OpenIsAdmitted, [Next]_vars
  PROVE  [Abstract!Next \/ \E m \in MoneyTxns : LosesUpdate(m)]_(Abstract!vars)
<1> USE WalletConstants DEF Txns, Abstract!vars, Abstract!Next, NoAnswer, Answer,
        Abstract!NoAnswer, Abstract!Answer
<1>1. ASSUME NEW m \in MoneyTxns, NEW a \in Amounts, Deposit(m, a)
      PROVE  Abstract!Deposit(m, a)
  <2>1. row \in Row BY DEF TypeOK
  <2>2. /\ row'.present = TRUE /\ row'.currentBalance = a
        /\ row'.reservedAmount = row.reservedAmount
    BY <1>1, <2>1 DEF Deposit, Row
  <2>3. Money' = Abstract!Opened(a, Money.held)
    BY <2>2 DEF Money, Abstract!Opened
  <2>4. answer' = [answer EXCEPT ![m] = Answer("deposit", a, TRUE)]
    BY <1>1 DEF Deposit
  <2>5. QED BY <2>3, <2>4 DEF Abstract!Deposit
<1>2. ASSUME NEW m \in MoneyTxns, NEW a \in Amounts, NEW op \in MoneyOps,
             BeginMoney(m, op, a)
      PROVE  Abstract!Pending(m)
  BY <1>2 DEF BeginMoney, Money, Abstract!Pending
<1>3. ASSUME NEW m \in MoneyTxns, NEW a \in Amounts, NEW op \in MoneyOps,
             Refuse(m, op, a)
      PROVE  Abstract!Refuse(m, op, a)
  BY <1>3 DEF Refuse, Admits, MoneyOps, TypeOK, Row, Money, Abstract!Refuse,
            Abstract!CanDebit, Abstract!CanReserve, Abstract!CanSettle
<1>4. ASSUME NEW m \in MoneyTxns, CommitMoney(m), ~ReadIsStale(m)
      PROVE  \E a \in Amounts :
               \/ Abstract!Debit(m, a) \/ Abstract!Reserve(m, a)
               \/ Abstract!Capture(m, a) \/ Abstract!Release(m, a)
  <2> DEFINE op == txn[m].op
             a == txn[m].amount
  <2>1. /\ op \in MoneyOps /\ a \in Amounts
        /\ row.present /\ Admits(op, row, a)
        /\ answer' = [answer EXCEPT ![m] = Answer(op, a, TRUE)]
        /\ row'.present = row.present
        /\ op = "debit" => /\ row'.currentBalance = row.currentBalance - a
                           /\ row'.reservedAmount = row.reservedAmount
        /\ op = "reserve" => /\ row'.currentBalance = row.currentBalance
                             /\ row'.reservedAmount = row.reservedAmount + a
        /\ op = "capture" => /\ row'.currentBalance = row.currentBalance - a
                             /\ row'.reservedAmount = row.reservedAmount - a
        /\ op = "release" => /\ row'.currentBalance = row.currentBalance
                             /\ row'.reservedAmount = row.reservedAmount - a
    BY <1>4, CommitMoves
  <2>2. CASE op = "debit"
    <3>1. a <= Money.balance BY <2>1, <2>2 DEF Admits, Money
    <3>2. Money' = Abstract!Opened(Money.balance - a, Money.held)
      BY <2>1, <2>2 DEF Money, Abstract!Opened
    <3>3. Money.open BY <2>1 DEF Money
    <3>4. Abstract!Debit(m, a) BY <2>1, <2>2, <3>1, <3>2, <3>3
      DEF Abstract!Debit, Abstract!CanDebit, Abstract!Debited
    <3>5. QED BY <2>1, <3>4
  <2>3. CASE op = "reserve"
    <3>1. a <= Money.balance - Money.held BY <2>1, <2>3 DEF Admits, Money
    <3>2. Money' = Abstract!Opened(Money.balance, Money.held + a)
      BY <2>1, <2>3 DEF Money, Abstract!Opened
    <3>3. Money.open BY <2>1 DEF Money
    <3>4. Abstract!Reserve(m, a) BY <2>1, <2>3, <3>1, <3>2, <3>3
      DEF Abstract!Reserve, Abstract!CanReserve, Abstract!Reserved
    <3>5. QED BY <2>1, <3>4
  <2>4. CASE op = "capture"
    <3>1. a <= Money.held BY <2>1, <2>4 DEF Admits, Money
    <3>2. Money' = Abstract!Opened(Money.balance - a, Money.held - a)
      BY <2>1, <2>4 DEF Money, Abstract!Opened
    <3>3. Money.open BY <2>1 DEF Money
    <3>4. Abstract!Capture(m, a) BY <2>1, <2>4, <3>1, <3>2, <3>3
      DEF Abstract!Capture, Abstract!CanSettle, Abstract!Captured
    <3>5. QED BY <2>1, <3>4
  <2>5. CASE op = "release"
    <3>1. a <= Money.held BY <2>1, <2>5 DEF Admits, Money
    <3>2. Money' = Abstract!Opened(Money.balance, Money.held - a)
      BY <2>1, <2>5 DEF Money, Abstract!Opened
    <3>3. Money.open BY <2>1 DEF Money
    <3>4. Abstract!Release(m, a) BY <2>1, <2>5, <3>1, <3>2, <3>3
      DEF Abstract!Release, Abstract!CanSettle, Abstract!Released
    <3>5. QED BY <2>1, <3>4
  <2>6. QED BY <2>1, <2>2, <2>3, <2>4, <2>5 DEF MoneyOps
<1>5. ASSUME NEW p \in PlanTxns, NEW op \in PlanOps, BeginPlan(p, op)
      PROVE  UNCHANGED Abstract!vars
  BY <1>5 DEF BeginPlan, Money
<1>6. ASSUME NEW p \in PlanTxns, CommitPlan(p)
      PROVE  UNCHANGED Abstract!vars
  <2>1. txn[p].op \in PlanOps BY <1>6 DEF CommitPlan, Write, TypeOK
  <2>2. /\ row'.present = row.present
        /\ row'.currentBalance = row.currentBalance
        /\ row'.reservedAmount = row.reservedAmount
    BY <1>6, <2>1, PlanUpdate DEF CommitPlan, Write, TypeOK
  <2>3. QED BY <1>6, <2>2 DEF CommitPlan, Money
<1>7. ASSUME NEW t \in PlanTxns, Abort(t) PROVE UNCHANGED Abstract!vars
  BY <1>7 DEF Abort, Money
<1>8. ASSUME NEW m \in MoneyTxns, Abort(m) PROVE UNCHANGED Abstract!vars
  BY <1>8 DEF Abort, Money
<1>9. CASE UNCHANGED vars BY <1>9 DEF vars, Money
<1>10. CASE \E m \in MoneyTxns : MoneyNext(m)
  BY <1>1, <1>2, <1>3, <1>4, <1>8, <1>10 DEF MoneyNext, MoneyOps, LosesUpdate
<1>11. CASE \E p \in PlanTxns : PlanNext(p)
  BY <1>5, <1>6, <1>7, <1>11 DEF PlanNext
<1>12. QED BY <1>9, <1>10, <1>11 DEF Next

(* However many money and budget-plan transactions of a user overlap, every  *)
(* step is one of AtomicWallet, or the commit of a money transaction whose   *)
(* read another one has overtaken: lost updates are all that can go wrong.   *)
THEOREM MoneyIsAtomic == Spec => AtomicUnlessLost
<1>1. Init => Abstract!Init
  BY DEF Init, Money, NoRow, NoAnswer, Abstract!Init, Abstract!NoAnswer
<1>2. Init => OpenIsAdmitted BY DEF Init, OpenIsAdmitted, Idle, Txns
<1>3. TypeOK /\ OpenIsAdmitted /\ [Next]_vars => OpenIsAdmitted'
  BY OpenIsAdmittedStep
<1>4. TypeOK /\ OpenIsAdmitted /\ [Next]_vars
        => [Abstract!Next \/ \E m \in MoneyTxns : LosesUpdate(m)]_(Abstract!vars)
  BY AtomicStep
<1>5. QED
  BY <1>1, <1>2, <1>3, <1>4, TypeCorrect, PTL DEF Spec, AtomicUnlessLost

(* Whatever overlaps, only a fresh deposit, a direct debit or a lost update  *)
(* can take the money away from under a hold.                                *)
THEOREM OnlyTheseUncover == Spec => HoldStaysCovered
<1> DEFINE Safe == HoldCovered /\ ~HoldCovered' =>
                     \E m \in MoneyTxns : UncoversHold(m)
<1>1. Init => OpenIsAdmitted BY DEF Init, OpenIsAdmitted, Idle, Txns
<1>2. TypeOK /\ OpenIsAdmitted /\ [Next]_vars => OpenIsAdmitted'
  BY OpenIsAdmittedStep
<1>3. TypeOK /\ OpenIsAdmitted /\ [Next]_vars => [Safe]_vars
  <2> SUFFICES ASSUME TypeOK, OpenIsAdmitted, [Next]_vars, HoldCovered, ~HoldCovered'
               PROVE  \E m \in MoneyTxns : UncoversHold(m)
    BY DEF vars, HoldCovered
  <2> USE WalletConstants DEF Txns
  <2>1. row \in Row BY DEF TypeOK
  <2>2. ASSUME NEW m \in MoneyTxns, NEW a \in Amounts, Deposit(m, a)
        PROVE  UncoversHold(m)
    BY <2>2 DEF UncoversHold
  <2>3. ASSUME NEW m \in MoneyTxns, CommitMoney(m)
        PROVE  UncoversHold(m)
    <3>0. CASE ReadIsStale(m)
      BY <2>3, <3>0 DEF UncoversHold, LosesUpdate
    <3> SUFFICES ASSUME ~ReadIsStale(m) PROVE UncoversHold(m)
      BY <3>0
    <3> DEFINE op == txn[m].op
               a == txn[m].amount
    <3>1. a \in Nat /\ row.reservedAmount <= row.currentBalance
      BY <2>3, CommitMoves DEF HoldCovered
    <3>2. CASE op = "debit"
      BY <2>3, <3>2 DEF UncoversHold
    <3>3. op # "reserve"
      <4> SUFFICES ASSUME op = "reserve" PROVE FALSE OBVIOUS
      <4>1. /\ row'.currentBalance = row.currentBalance
            /\ row'.reservedAmount = row.reservedAmount + a
            /\ a <= row.currentBalance - row.reservedAmount
        BY <2>3, CommitMoves DEF Admits
      <4>2. QED BY <2>1, <3>1, <4>1 DEF HoldCovered, Row
    <3>4. op \notin {"capture", "release"}
      <4> SUFFICES ASSUME op \in {"capture", "release"} PROVE FALSE OBVIOUS
      <4>1. /\ row'.reservedAmount = row.reservedAmount - a
            /\ row'.currentBalance \in {row.currentBalance - a, row.currentBalance}
        BY <2>3, CommitMoves
      <4>2. QED BY <2>1, <3>1, <4>1 DEF HoldCovered, Row
    <3>5. QED BY <2>3, <3>2, <3>3, <3>4, CommitMoves DEF MoneyOps
  <2>4. ASSUME NEW p \in PlanTxns, CommitPlan(p) PROVE FALSE
    <3>1. txn[p].op \in PlanOps BY <2>4 DEF CommitPlan, Write, TypeOK
    <3>2. /\ row'.present = row.present
          /\ row'.currentBalance = row.currentBalance
          /\ row'.reservedAmount = row.reservedAmount
      BY <2>4, <3>1, PlanUpdate DEF CommitPlan, Write, TypeOK
    <3>3. QED BY <3>2 DEF HoldCovered
  <2>5. CASE row' = row BY <2>5 DEF HoldCovered
  <2>6. QED
    BY <2>2, <2>3, <2>4, <2>5
    DEF Next, MoneyNext, PlanNext, BeginMoney, BeginPlan, Refuse, Abort, vars
<1>4. QED BY <1>1, <1>2, <1>3, TypeCorrect, PTL DEF Spec, HoldStaysCovered

=============================================================================
