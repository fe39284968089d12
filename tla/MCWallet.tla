------------------------------ MODULE MCWallet ------------------------------
(* Small instances of Wallet.                                               *)
EXTENDS Wallet

CONSTANTS m1, m2, p1

OneMoneyTxn  == {m1}
TwoMoneyTxns == {m1, m2}
OnePlanTxn   == {p1}
NoPlanTxn    == {}

AllOps      == MoneyOps \union PlanOps \union {"deposit"}
ReserveOps  == {"deposit", "reserve"}
CaptureOps  == {"deposit", "reserve", "capture"}

SmallAmounts == {1, 2}
OneAmount    == {1}

(* The transactions of m1 are overlapped either by the budget plan's or, on  *)
(* the first day of a cycle, by those of m2.                                 *)
OneOther ==
  txn[m2].op # "idle" \/ answer[m2] # NoAnswer =>
    /\ \A p \in PlanTxns : txn[p].op = "idle"
    /\ row.present => row.daysLeft = CYCLE_DAYS
=============================================================================
