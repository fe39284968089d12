---------------------------- MODULE AtomicWallet ----------------------------
(***************************************************************************)
(* What escrow-service promises of a user's money: every money operation    *)
(* takes effect at one instant, against the balance and the hold as they    *)
(* are at that instant, or is refused and changes nothing.  A caller sees   *)
(* the answer to its last operation.  Wallet implements this specification  *)
(* as long as the user's money transactions take turns; when they overlap,  *)
(* a commit whose read was overtaken is the only step outside of it.        *)
(***************************************************************************)
EXTENDS Integers

CONSTANTS Callers,   \* where money operations come from
          Amounts    \* the paise amounts an operation may name

VARIABLES money,     \* the wallet: has it been opened, its balance, its hold
          answer     \* per caller: the outcome of its last operation

vars == <<money, answer>>

NoAnswer == [op |-> "none", amount |-> 0, granted |-> FALSE]

Answer(op, a, granted) == [op |-> op, amount |-> a, granted |-> granted]

(* The wallet with balance b, h of it held.                                 *)
Opened(b, h) == [open |-> TRUE, balance |-> b, held |-> h]

Init == /\ money = [open |-> FALSE, balance |-> 0, held |-> 0]
        /\ answer = [c \in Callers |-> NoAnswer]

(* A caller's operation is in progress, or was abandoned.                   *)
Pending(c) == /\ answer' = [answer EXCEPT ![c] = NoAnswer]
              /\ UNCHANGED money

-----------------------------------------------------------------------------
(* When an operation can be served, and the wallet it leaves.  A hold is     *)
(* granted only from the part of the balance that is not held.              *)
CanDebit(a)   == money.open /\ a <= money.balance
CanReserve(a) == money.open /\ a <= money.balance - money.held
CanSettle(a)  == money.open /\ a <= money.held

Debited(a)  == Opened(money.balance - a, money.held)
Reserved(a) == Opened(money.balance, money.held + a)
Captured(a) == Opened(money.balance - a, money.held - a)
Released(a) == Opened(money.balance, money.held - a)

-----------------------------------------------------------------------------
(* A deposit replaces the balance; it says nothing of the hold.             *)
Deposit(c, a) ==
  /\ money' = Opened(a, money.held)
  /\ answer' = [answer EXCEPT ![c] = Answer("deposit", a, TRUE)]

Debit(c, a) ==
  /\ CanDebit(a) /\ money' = Debited(a)
  /\ answer' = [answer EXCEPT ![c] = Answer("debit", a, TRUE)]

Reserve(c, a) ==
  /\ CanReserve(a) /\ money' = Reserved(a)
  /\ answer' = [answer EXCEPT ![c] = Answer("reserve", a, TRUE)]

Capture(c, a) ==
  /\ CanSettle(a) /\ money' = Captured(a)
  /\ answer' = [answer EXCEPT ![c] = Answer("capture", a, TRUE)]

Release(c, a) ==
  /\ CanSettle(a) /\ money' = Released(a)
  /\ answer' = [answer EXCEPT ![c] = Answer("release", a, TRUE)]

(* An operation may be refused only when it really cannot be served.        *)
Refuse(c, op, a) ==
  /\ \/ op = "debit" /\ ~CanDebit(a)
     \/ op = "reserve" /\ ~CanReserve(a)
     \/ op \in {"capture", "release"} /\ ~CanSettle(a)
  /\ answer' = [answer EXCEPT ![c] = Answer(op, a, FALSE)]
  /\ UNCHANGED money

Next == \E c \in Callers :
          \/ Pending(c)
          \/ \E a \in Amounts :
               \/ Deposit(c, a) \/ Debit(c, a) \/ Reserve(c, a)
               \/ Capture(c, a) \/ Release(c, a)
               \/ \E op \in {"debit", "reserve", "capture", "release"} :
                    Refuse(c, op, a)

Spec == Init /\ [][Next]_vars
=============================================================================
