------------------------------- MODULE Wallet -------------------------------
(***************************************************************************)
(* escrow-service: one user's `subscriptions` row and the transactions that *)
(* WalletService and RolloverService run on it.                             *)
(*                                                                          *)
(* Every mutation but the deposit is an interactive Prisma transaction: a   *)
(* SELECT, a check in JavaScript on the row it returned, and an UPDATE that *)
(* writes absolute values computed from that row.  PostgreSQL runs it at    *)
(* READ COMMITTED, where the SELECT takes no lock: other transactions may   *)
(* commit between the two statements, and the UPDATE then overwrites the    *)
(* columns it names (and only those) in the row as it is by then.  Begin is *)
(* the SELECT and the check, Commit the UPDATE and the commit.  The row lock *)
(* an UPDATE holds until its commit serializes writers, so the two are one  *)
(* step.                                                                    *)
(*                                                                          *)
(* totalDeposited is left out (nothing reads it), and so are the            *)
(* BudgetUpdated and RolloverApplied events, published after the commit on  *)
(* a best-effort basis: nothing in the repository subscribes to them.       *)
(***************************************************************************)
EXTENDS Integers

CONSTANTS MoneyTxns,   \* connections that run money operations
          PlanTxns,    \* connections that run the budget-plan operations
          Amounts,     \* the positive paise amounts requests carry
          CYCLE_DAYS,  \* 30 in the code
          Ops,         \* the operations callers issue
          DebtBound    \* bound: how far below zero an explored balance may go

MoneyOps == {"debit", "reserve", "capture", "release"}
PlanOps  == {"tick", "rollover"}
Txns     == MoneyTxns \union PlanTxns

ASSUME WalletConstants ==
  /\ MoneyTxns \intersect PlanTxns = {}
  /\ Amounts \subseteq Nat \ {0}
  /\ CYCLE_DAYS \in Nat \ {0}
  /\ Ops \subseteq MoneyOps \union PlanOps \union {"deposit"}
  /\ DebtBound \in Nat

VARIABLES row,     \* the subscriptions row
          txn,     \* per connection: the open transaction and the row it read
          answer   \* per money connection: the outcome of its last operation

vars == <<row, txn, answer>>

Row == [present : BOOLEAN, currentBalance : Int, reservedAmount : Int,
        daysLeft : 0..CYCLE_DAYS, dailyAvgLimit : Int]

NoRow == [present |-> FALSE, currentBalance |-> 0, reservedAmount |-> 0,
          daysLeft |-> 0, dailyAvgLimit |-> 0]

Idle == [op |-> "idle", amount |-> 0, read |-> NoRow]

NoAnswer == [op |-> "none", amount |-> 0, granted |-> FALSE]

Answer(op, a, granted) == [op |-> op, amount |-> a, granted |-> granted]

Init == /\ row = NoRow
        /\ txn = [t \in Txns |-> Idle]
        /\ answer = [m \in MoneyTxns |-> NoAnswer]

-----------------------------------------------------------------------------
(* The checks each operation makes on the row it read, and the UPDATE it     *)
(* then issues: new values come from `read`, columns it does not name stay   *)
(* as they are in `now`.                                                     *)

(* Mutant: a tick no longer stops at the end of the cycle.                   *)
AdmitsPastCycle(op, read, a) ==
  /\ read.present
  /\ \/ op = "debit" /\ a <= read.currentBalance
     \/ op = "reserve" /\ a <= read.currentBalance - read.reservedAmount
     \/ op \in {"capture", "release"} /\ a <= read.reservedAmount
     \/ op \in {"tick", "rollover"}

(* Mutant: a reservation checks the balance and forgets the other holds.     *)
AdmitsIgnoringHolds(op, read, a) ==
  /\ read.present
  /\ \/ op \in {"debit", "reserve"} /\ a <= read.currentBalance
     \/ op \in {"capture", "release"} /\ a <= read.reservedAmount
     \/ op = "tick" /\ read.daysLeft > 0
     \/ op = "rollover"

Admits(op, read, a) ==
  /\ read.present
  /\ \/ op = "debit" /\ a <= read.currentBalance
     \/ op = "reserve" /\ a <= read.currentBalance - read.reservedAmount
     \/ op \in {"capture", "release"} /\ a <= read.reservedAmount
     \/ op = "tick" /\ read.daysLeft > 0
     \/ op = "rollover"

Share(balance, days) == IF days > 0 THEN balance \div days ELSE balance

Debited(read, now, a) ==
  [now EXCEPT !.currentBalance = read.currentBalance - a]

Reserved(read, now, a) ==
  [now EXCEPT !.reservedAmount = read.reservedAmount + a]

Captured(read, now, a) ==
  [now EXCEPT !.currentBalance = read.currentBalance - a,
              !.reservedAmount = read.reservedAmount - a]

(* Mutant: a relative decrement that the check no longer protects.           *)
ReleasedByDecrement(read, now, a) == [now EXCEPT !.reservedAmount = @ - a]

Released(read, now, a) ==
  [now EXCEPT !.reservedAmount = read.reservedAmount - a]

Ticked(read, now) ==
  [now EXCEPT !.daysLeft = read.daysLeft - 1,
              !.dailyAvgLimit = Share(read.currentBalance, read.daysLeft - 1)]

(* Mutant: the whole row is written back, not only dailyAvgLimit.            *)
RedistributedWholeRow(read, now) ==
  [read EXCEPT !.dailyAvgLimit = read.currentBalance \div
     (IF read.daysLeft > 1 THEN read.daysLeft ELSE 1)]

Redistributed(read, now) ==
  [now EXCEPT !.dailyAvgLimit =
     read.currentBalance \div (IF read.daysLeft > 1 THEN read.daysLeft ELSE 1)]

Update(op, read, now, a) ==
  CASE op = "debit"    -> Debited(read, now, a)
    [] op = "reserve"  -> Reserved(read, now, a)
    [] op = "capture"  -> Captured(read, now, a)
    [] op = "release"  -> Released(read, now, a)
    [] op = "tick"     -> Ticked(read, now)
    [] op = "rollover" -> Redistributed(read, now)
    [] OTHER           -> now

-----------------------------------------------------------------------------
(* deposit: a single upsert.  It opens the row, or replaces the balance and  *)
(* the cycle of an existing one; reservedAmount is not among its columns.    *)
Deposit(m, a) ==
  /\ "deposit" \in Ops /\ txn[m].op = "idle"
  /\ row' = [row EXCEPT !.present = TRUE, !.currentBalance = a,
                        !.daysLeft = CYCLE_DAYS,
                        !.dailyAvgLimit = a \div CYCLE_DAYS]
  /\ answer' = [answer EXCEPT ![m] = Answer("deposit", a, TRUE)]
  /\ UNCHANGED txn

(* The SELECT of a money operation, when the check on what it returned       *)
(* passes: the transaction stays open until its UPDATE.                      *)
BeginMoney(m, op, a) ==
  /\ op \in Ops /\ txn[m].op = "idle"
  /\ Admits(op, row, a)
  /\ row.currentBalance >= -DebtBound
  /\ txn' = [txn EXCEPT ![m] = [op |-> op, amount |-> a, read |-> row]]
  /\ answer' = [answer EXCEPT ![m] = NoAnswer]
  /\ UNCHANGED row

(* The check fails: 404 without a row, 409 otherwise; the transaction rolls  *)
(* back.                                                                     *)
Refuse(m, op, a) ==
  /\ op \in Ops /\ txn[m].op = "idle"
  /\ ~Admits(op, row, a)
  /\ answer' = [answer EXCEPT ![m] = Answer(op, a, FALSE)]
  /\ UNCHANGED <<row, txn>>

BeginPlan(p, op) ==
  /\ op \in Ops /\ txn[p].op = "idle"
  /\ Admits(op, row, 0)
  /\ txn' = [txn EXCEPT ![p] = [op |-> op, amount |-> 0, read |-> row]]
  /\ UNCHANGED <<row, answer>>

Write(t) ==
  /\ txn[t].op # "idle"
  /\ row' = Update(txn[t].op, txn[t].read, row, txn[t].amount)
  /\ txn' = [txn EXCEPT ![t] = Idle]

CommitMoney(m) ==
  /\ Write(m)
  /\ answer' = [answer EXCEPT ![m] = Answer(txn[m].op, txn[m].amount, TRUE)]

CommitPlan(p) == Write(p) /\ UNCHANGED answer

(* The process dies, or the transaction exceeds Prisma's time limit, with    *)
(* the transaction open: PostgreSQL rolls it back.                           *)
Abort(t) ==
  /\ txn[t].op # "idle"
  /\ txn' = [txn EXCEPT ![t] = Idle]
  /\ UNCHANGED <<row, answer>>

MoneyNext(m) ==
  \/ \E a \in Amounts : \/ Deposit(m, a)
                        \/ \E op \in MoneyOps : BeginMoney(m, op, a) \/ Refuse(m, op, a)
  \/ CommitMoney(m)
  \/ Abort(m)

PlanNext(p) == \/ \E op \in PlanOps : BeginPlan(p, op)
               \/ CommitPlan(p)
               \/ Abort(p)

Next == (\E m \in MoneyTxns : MoneyNext(m)) \/ (\E p \in PlanTxns : PlanNext(p))

Spec == Init /\ [][Next]_vars

-----------------------------------------------------------------------------
(* The columns of the row, the open transactions and the answers have their  *)
(* types; daysLeft stays inside the cycle, whatever ticks overlap.           *)
TypeOK ==
  /\ row \in Row
  /\ txn \in [Txns -> [op : MoneyOps \union PlanOps \union {"idle"},
                       amount : Nat, read : Row]]
  /\ \A m \in MoneyTxns : txn[m].op \in MoneyOps \union {"idle"}
  /\ \A p \in PlanTxns : txn[p].op \in PlanOps \union {"idle"}
  /\ answer \in [MoneyTxns ->
                   [op : MoneyOps \union {"deposit", "none"}, amount : Nat,
                    granted : BOOLEAN]]

(* However the transactions interleave, reservedAmount never goes negative:  *)
(* a capture or a release writes the difference its own check looked at, so  *)
(* lost updates can misstate the hold but not make it a debt.                *)
HoldNeverNegative == row.reservedAmount >= 0

(* Every hold is backed by money that is still in the wallet.                *)
HoldCovered == row.present => row.reservedAmount <= row.currentBalance

(* "An order that would drive the balance negative is rejected."             *)
NoOverdraft == row.currentBalance >= 0

(* The money columns have changed since m read them, and m's write is        *)
(* computed from what it read.                                               *)
ReadIsStale(m) ==
  \/ txn[m].read.currentBalance # row.currentBalance
  \/ txn[m].read.reservedAmount # row.reservedAmount

LosesUpdate(m) == CommitMoney(m) /\ ReadIsStale(m)

(* Only a fresh deposit, a direct debit or a lost update may leave a hold    *)
(* without money behind it: reserve, capture and release computed from a     *)
(* current row, and every budget-plan update, keep a covered hold covered.   *)
UncoversHold(m) ==
  \/ \E a \in Amounts : Deposit(m, a)
  \/ CommitMoney(m) /\ txn[m].op = "debit"
  \/ LosesUpdate(m)

HoldStaysCovered ==
  [][HoldCovered /\ ~HoldCovered' => \E m \in MoneyTxns : UncoversHold(m)]_vars

(* The money columns as AtomicWallet sees them.                              *)
Money == [open |-> row.present, balance |-> row.currentBalance,
          held |-> row.reservedAmount]

Abstract == INSTANCE AtomicWallet WITH Callers <- MoneyTxns, money <- Money

(* Money operations are atomic: the wallet behaves as AtomicWallet says.     *)
(* True of a user whose money transactions take turns, whatever budget-plan  *)
(* transactions overlap them.                                                *)
AtomicMoney == Abstract!Spec

(* However many money transactions overlap, lost updates are all that can go *)
(* wrong: a step that changes the money or an answer is an atomic operation  *)
(* on the wallet as it is, or the commit of a money transaction whose read   *)
(* another one has overtaken.                                                *)
AtomicUnlessLost ==
  /\ Abstract!Init
  /\ [][Abstract!Next \/ \E m \in MoneyTxns : LosesUpdate(m)]_(Abstract!vars)
=============================================================================
